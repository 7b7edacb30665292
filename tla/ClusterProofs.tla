---------------------------- MODULE ClusterProofs ----------------------------
(***************************************************************************)
(* Theorems about Election and about Cluster, which composes it with the   *)
(* replication and with the joining of nodes, for every set of nodes and   *)
(* every scenario: first what an election does among the members of a      *)
(* formed cluster, for any number of crashes, then what messages, storages *)
(* and databases hold in the life of a cluster.                            *)
(***************************************************************************)
EXTENDS ElectionInvariant, ClusterInvariant, WellFoundedInduction, TLAPS

-----------------------------------------------------------------------------
(* Sequences of messages *)

\* What is in the concatenation of two sequences.
LEMMA RangeConcat ==
  ASSUME NEW T, NEW s \in Seq(T), NEW t \in Seq(T)
  PROVE  s \o t \in Seq(T) /\ Range(s \o t) = Range(s) \cup Range(t)
<1>1. /\ s \o t \in Seq(T) /\ DOMAIN (s \o t) = 1..(Len(s) + Len(t))
      /\ \A i \in 1..(Len(s) + Len(t)) :
           (s \o t)[i] = IF i <= Len(s) THEN s[i] ELSE t[i - Len(s)]
      /\ DOMAIN s = 1..Len(s) /\ DOMAIN t = 1..Len(t) /\ Len(s) \in Nat /\ Len(t) \in Nat
  OBVIOUS
<1>2. ASSUME NEW i \in 1..Len(t)
      PROVE  (s \o t)[i + Len(s)] = t[i] /\ i + Len(s) \in 1..(Len(s) + Len(t))
  BY <1>1
<1>3. Range(s \o t) \subseteq Range(s) \cup Range(t)
  BY <1>1 DEF Range
<1>4. Range(s) \subseteq Range(s \o t)
  BY <1>1 DEF Range
<1>5. Range(t) \subseteq Range(s \o t)
  <2> SUFFICES ASSUME NEW i \in DOMAIN t PROVE t[i] \in Range(s \o t)
    BY DEF Range
  <2>1. i + Len(s) \in DOMAIN (s \o t) /\ (s \o t)[i + Len(s)] = t[i]
    BY <1>1, <1>2
  <2> QED
    BY <2>1 DEF Range
<1> QED
  BY <1>1, <1>3, <1>4, <1>5

\* What is in a sequence without its first element.
LEMMA RangeTail ==
  ASSUME NEW T, NEW s \in Seq(T), s # <<>>
  PROVE  /\ Tail(s) \in Seq(T) /\ Head(s) \in Range(s)
         /\ Range(Tail(s)) \subseteq Range(s)
         /\ \A e \in Range(s) : e # Head(s) => e \in Range(Tail(s))
<1>1. /\ Tail(s) \in Seq(T) /\ DOMAIN Tail(s) = 1..(Len(s) - 1) /\ DOMAIN s = 1..Len(s)
      /\ \A i \in 1..(Len(s) - 1) : Tail(s)[i] = s[i + 1]
      /\ Len(s) \in Nat \ {0} /\ Head(s) = s[1]
  OBVIOUS
<1>2. Head(s) \in Range(s)
  BY <1>1 DEF Range
<1>3. Range(Tail(s)) \subseteq Range(s)
  BY <1>1 DEF Range
<1>4. ASSUME NEW e \in Range(s), e # Head(s) PROVE e \in Range(Tail(s))
  <2>1. PICK i \in 1..Len(s) : s[i] = e
    BY <1>1 DEF Range
  <2>2. i - 1 \in 1..(Len(s) - 1) /\ Tail(s)[i - 1] = e
    BY <1>1, <1>4, <2>1
  <2> QED
    BY <1>1, <2>2 DEF Range
<1> QED
  BY <1>1, <1>2, <1>3, <1>4

\* What is in the first elements of a sequence.
LEMMA RangeSubSeq ==
  ASSUME NEW T, NEW s \in Seq(T), NEW k \in 0..Len(s)
  PROVE  SubSeq(s, 1, k) \in Seq(T) /\ Range(SubSeq(s, 1, k)) \subseteq Range(s)
<1>1. /\ SubSeq(s, 1, k) \in Seq(T) /\ DOMAIN SubSeq(s, 1, k) = 1..k /\ DOMAIN s = 1..Len(s)
      /\ \A i \in 1..k : SubSeq(s, 1, k)[i] = s[i] /\ Len(s) \in Nat
  OBVIOUS
<1> QED
  BY <1>1 DEF Range

\* A sequence remains one when its elements may be more.
LEMMA SeqGrows ==
  ASSUME NEW T, NEW U, T \subseteq U
  PROVE  Seq(T) \subseteq Seq(U)
<1> SUFFICES ASSUME NEW s \in Seq(T) PROVE s \in Seq(U)
  OBVIOUS
<1>1. s \in [1..Len(s) -> T] /\ Len(s) \in Nat
  OBVIOUS
<1>2. s \in [1..Len(s) -> U]
  BY <1>1
<1> QED
  BY <1>1, <1>2

-----------------------------------------------------------------------------
(* What a step does to the channels *)

\* The messages that n sends
SentBy(n) == {ElectionMsg(n), ElectionOkMsg(n), CoordinatorMsg(n)}

\* The channels hold the messages of their sender, and none leads back to it.
LEMMA ChannelType ==
  ASSUME TypeOK
  PROVE  /\ \A x, y \in Nodes : /\ chan[x][y] \in Seq(ElectionMessage)
                              /\ backlog[x][y] \in Seq(ElectionMessage)
                              /\ InTransit(x, y) \subseteq SentBy(x) \cup {LostMsg}
         /\ \A x \in Nodes : chan[x][x] = <<>>
<1>1. /\ chan \in [Nodes -> [Nodes -> Seq(ElectionMessage)]]
      /\ backlog \in [Nodes -> [Nodes -> Seq(ElectionMessage)]]
  BY DEF TypeOK
<1>2. \A n \in Nodes : chan[n][n] = <<>>
  BY DEF TypeOK
<1>3. ASSUME NEW x \in Nodes, NEW y \in Nodes
      PROVE  InTransit(x, y) \subseteq SentBy(x) \cup {LostMsg}
  <2>1. /\ DOMAIN chan[x][y] = 1..Len(chan[x][y])
        /\ DOMAIN backlog[x][y] = 1..Len(backlog[x][y])
    BY <1>1
  <2>2. /\ \A i \in 1..Len(chan[x][y]) : chan[x][y][i] \in MessageOf(x)
        /\ \A i \in 1..Len(backlog[x][y]) : backlog[x][y][i] \in MessageOf(x)
    BY DEF TypeOK
  <2> QED
    BY <2>1, <2>2 DEF InTransit, Range, MessageOf, SentBy
<1> QED
  BY <1>1, <1>2, <1>3

\* Node n takes the first message from m, if there is an m, and sends out: what is
\* in transit afterwards was there or is sent, what was there stays but the message
\* taken, and what is sent to a node that runs is in transit.
LEMMA TransferLemma ==
  ASSUME TypeOK, NEW n \in Nodes, NEW m \in Nodes \cup {Nobody},
         m \in Nodes => chan[m][n] # <<>>,
         NEW out, out \in [Nodes -> Seq(ElectionMessage)],
         Transfer(m, n, out)
  PROVE  /\ chan' \in [Nodes -> [Nodes -> Seq(ElectionMessage)]]
         /\ backlog' \in [Nodes -> [Nodes -> Seq(ElectionMessage)]]
         /\ \A x, y \in Nodes : \A e \in InTransit(x, y)' :
              e \in InTransit(x, y) \/ (x = n /\ e \in Range(out[y]))
         /\ \A x, y \in Nodes : \A e \in InTransit(x, y) :
              e \in InTransit(x, y)' \/ (x = m /\ y = n /\ e = Head(chan[m][n]))
         /\ \A y \in Nodes : Running(y) /\ <<n, y>> \notin stale =>
              Range(out[y]) \subseteq InTransit(n, y)'
         /\ stale' \subseteq stale /\ crossed' = crossed
         /\ out[n] = <<>> => \A x \in Nodes : chan'[x][x] = <<>>
<1> DEFINE reached == {y \in Nodes : Running(y) /\ Accepted(n, y, out[y]) # <<>>}
           dialled == {y \in reached : plan.crossing /\ y # n /\ {n, y} \notin conn}
           old(x, y) == IF x = m /\ y = n THEN Tail(chan[x][y]) ELSE chan[x][y]
           new(x, y) == IF x = n /\ y \in reached \ dialled THEN Accepted(n, y, out[y]) ELSE <<>>
           late(x, y) == IF x = n /\ y \in dialled THEN Accepted(n, y, out[y]) ELSE <<>>
<1>1. /\ chan' = [x \in Nodes |-> [y \in Nodes |-> old(x, y) \o new(x, y)]]
      /\ backlog' = [x \in Nodes |-> [y \in Nodes |-> backlog[x][y] \o late(x, y)]]
      /\ stale' \subseteq stale /\ crossed' = crossed
  BY DEF Transfer
<1>2. Nobody \notin Nodes
  BY ScenariosAssumption DEF Nobody
<1>3. ASSUME NEW x \in Nodes, NEW y \in Nodes
      PROVE  /\ old(x, y) \in Seq(ElectionMessage) /\ Range(old(x, y)) \subseteq Range(chan[x][y])
             /\ \A e \in Range(chan[x][y]) :
                  e \in Range(old(x, y)) \/ (x = m /\ y = n /\ e = Head(chan[m][n]))
  <2>1. chan[x][y] \in Seq(ElectionMessage)
    BY DEF TypeOK
  <2>2. CASE x = m /\ y = n
    BY <2>1, <2>2, RangeTail
  <2>3. CASE ~(x = m /\ y = n)
    BY <2>1, <2>3
  <2> QED
    BY <2>2, <2>3
<1>4. ASSUME NEW y \in Nodes
      PROVE  /\ Accepted(n, y, out[y]) \in Seq(ElectionMessage)
             /\ Range(Accepted(n, y, out[y])) \subseteq Range(out[y])
  <2>1. CASE out[y] # <<>> /\ <<n, y>> \in stale
    BY <2>1, RangeTail DEF Accepted
  <2>2. CASE ~(out[y] # <<>> /\ <<n, y>> \in stale)
    BY <2>2 DEF Accepted
  <2> QED
    BY <2>1, <2>2
<1>5. <<>> \in Seq(ElectionMessage) /\ Range(<<>>) = {}
  BY DEF Range
<1>6. ASSUME NEW x \in Nodes, NEW y \in Nodes
      PROVE  /\ new(x, y) \in Seq(ElectionMessage) /\ late(x, y) \in Seq(ElectionMessage)
             /\ \A e \in Range(new(x, y)) \cup Range(late(x, y)) : x = n /\ e \in Range(out[y])
  BY <1>4, <1>5
<1>7. ASSUME NEW y \in Nodes, Running(y), <<n, y>> \notin stale
      PROVE  Range(out[y]) \subseteq Range(new(n, y)) \cup Range(late(n, y))
  <2>1. Accepted(n, y, out[y]) = out[y]
    BY <1>7 DEF Accepted
  <2>2. CASE out[y] = <<>>
    BY <1>5, <2>2
  <2>3. CASE out[y] # <<>>
    BY <1>7, <2>1, <2>3
  <2> QED
    BY <2>2, <2>3
<1> HIDE DEF old, new, late, dialled, reached
<1>8. ASSUME NEW x \in Nodes, NEW y \in Nodes
      PROVE  /\ chan'[x][y] \in Seq(ElectionMessage) /\ backlog'[x][y] \in Seq(ElectionMessage)
             /\ InTransit(x, y)' = Range(old(x, y)) \cup Range(new(x, y))
                                     \cup Range(backlog[x][y]) \cup Range(late(x, y))
  <2>1. chan'[x][y] = old(x, y) \o new(x, y) /\ backlog'[x][y] = backlog[x][y] \o late(x, y)
    BY <1>1
  <2>2. /\ old(x, y) \in Seq(ElectionMessage) /\ new(x, y) \in Seq(ElectionMessage)
        /\ backlog[x][y] \in Seq(ElectionMessage) /\ late(x, y) \in Seq(ElectionMessage)
    BY <1>3, <1>6, ChannelType
  <2>3. /\ old(x, y) \o new(x, y) \in Seq(ElectionMessage)
        /\ Range(old(x, y) \o new(x, y)) = Range(old(x, y)) \cup Range(new(x, y))
    BY <2>2, RangeConcat
  <2>4. /\ backlog[x][y] \o late(x, y) \in Seq(ElectionMessage)
        /\ Range(backlog[x][y] \o late(x, y)) = Range(backlog[x][y]) \cup Range(late(x, y))
    BY <2>2, RangeConcat
  <2> QED
    BY <2>1, <2>3, <2>4 DEF InTransit
<1>9. /\ chan' \in [Nodes -> [Nodes -> Seq(ElectionMessage)]]
      /\ backlog' \in [Nodes -> [Nodes -> Seq(ElectionMessage)]]
  BY <1>1, <1>8
<1>10. out[n] = <<>> => chan'[n][n] = <<>>
  <2> SUFFICES ASSUME out[n] = <<>> PROVE chan'[n][n] = <<>>
    OBVIOUS
  <2>1. new(n, n) = <<>>
    BY DEF new, Accepted
  <2>2. chan[n][n] = <<>>
    BY ChannelType
  <2>3. m # n
    BY <2>2
  <2>4. old(n, n) = <<>>
    BY <2>2, <2>3 DEF old
  <2> QED
    BY <1>1, <2>1, <2>4
<1>11. ASSUME NEW x \in Nodes, x # n PROVE chan'[x][x] = <<>>
  <2>1. old(x, x) = <<>> /\ new(x, x) = <<>>
    BY <1>11, ChannelType DEF old, new
  <2> QED
    BY <1>1, <2>1
<1>12. \A x, y \in Nodes : InTransit(x, y) = Range(chan[x][y]) \cup Range(backlog[x][y])
  BY DEF InTransit
<1>13. ASSUME NEW x \in Nodes, NEW y \in Nodes
       PROVE  /\ \A e \in InTransit(x, y)' :
                   e \in InTransit(x, y) \/ (x = n /\ e \in Range(out[y]))
              /\ \A e \in InTransit(x, y) :
                   e \in InTransit(x, y)' \/ (x = m /\ y = n /\ e = Head(chan[m][n]))
  <2>1. /\ InTransit(x, y) = Range(chan[x][y]) \cup Range(backlog[x][y])
        /\ InTransit(x, y)' = Range(old(x, y)) \cup Range(new(x, y))
                                \cup Range(backlog[x][y]) \cup Range(late(x, y))
    BY <1>8, <1>12
  <2>2. \A e \in Range(new(x, y)) \cup Range(late(x, y)) : x = n /\ e \in Range(out[y])
    BY <1>6
  <2>3. /\ Range(old(x, y)) \subseteq Range(chan[x][y])
        /\ \A e \in Range(chan[x][y]) :
             e \in Range(old(x, y)) \/ (x = m /\ y = n /\ e = Head(chan[m][n]))
    BY <1>3
  <2> QED
    BY <2>1, <2>2, <2>3, Zenon
<1>14. \A y \in Nodes : Running(y) /\ <<n, y>> \notin stale =>
         Range(out[y]) \subseteq InTransit(n, y)'
  BY <1>7, <1>8
<1> QED
  BY <1>1, <1>9, <1>10, <1>11, <1>12, <1>13, <1>14

\* Messages of different kinds or senders are different.
LEMMA MessagesDiffer ==
  ASSUME NEW m, NEW n
  PROVE  /\ ElectionMsg(m) # ElectionOkMsg(n) /\ ElectionMsg(m) # CoordinatorMsg(n)
         /\ ElectionOkMsg(m) # CoordinatorMsg(n)
         /\ LostMsg \notin SentBy(n)
  BY DEF ElectionMsg, ElectionOkMsg, CoordinatorMsg, LostMsg, SentBy

\* What is sent is a message.
LEMMA SentIsMessage ==
  ASSUME NEW n \in Nodes
  PROVE  SentBy(n) \subseteq ElectionMessage
  BY DEF ElectionMsg, ElectionOkMsg, CoordinatorMsg, SentBy, ElectionMessage

\* The message at the head of a channel is in transit, and its type tells which of
\* the messages of the sender it is.
LEMMA HeadLemma ==
  ASSUME TypeOK, NEW m \in Nodes, NEW n \in Nodes, chan[m][n] # <<>>
  PROVE  /\ Head(chan[m][n]) \in InTransit(m, n)
         /\ Head(chan[m][n]) \in SentBy(m) \cup {LostMsg}
         /\ Head(chan[m][n]).type = "Election" => Head(chan[m][n]) = ElectionMsg(m)
         /\ Head(chan[m][n]).type = "ElectionOk" => Head(chan[m][n]) = ElectionOkMsg(m)
         /\ Head(chan[m][n]).type = "Coordinator" => Head(chan[m][n]) = CoordinatorMsg(m)
         /\ Head(chan[m][n]).type = "ConnectionLost" => Head(chan[m][n]) = LostMsg
<1>1. chan[m][n] \in Seq(ElectionMessage)
  BY DEF TypeOK
<1>2. 1 \in 1..Len(chan[m][n]) /\ Head(chan[m][n]) = chan[m][n][1]
  BY <1>1
<1>3. Head(chan[m][n]) \in InTransit(m, n)
  BY <1>1, RangeTail DEF InTransit
<1>4. Head(chan[m][n]) \in SentBy(m) \cup {LostMsg}
  BY <1>3, ChannelType
<1> QED
  BY <1>3, <1>4 DEF ElectionMsg, ElectionOkMsg, CoordinatorMsg, LostMsg, SentBy

\* The channels, the streams and the handlers keep their types when a node sends
\* messages of its own to others.
LEMMA TransferType ==
  ASSUME TypeOK, NEW n \in Nodes, NEW m \in Nodes \cup {Nobody},
         m \in Nodes => chan[m][n] # <<>>,
         NEW out, out \in [Nodes -> Seq(ElectionMessage)],
         out[n] = <<>>, \A y \in Nodes : Range(out[y]) \subseteq SentBy(n),
         Transfer(m, n, out),
         plan' = plan,
         role' \in [Nodes -> {"leader", "replica", "down", "crashed", "panicked"}],
         leader_addr' \in [Nodes -> Nodes],
         cluster' \in [Nodes -> SUBSET Nodes],
         election' \in [Nodes -> BOOLEAN]
  PROVE  TypeOK'
<1>1. /\ chan' \in [Nodes -> [Nodes -> Seq(ElectionMessage)]]
      /\ backlog' \in [Nodes -> [Nodes -> Seq(ElectionMessage)]]
      /\ \A x, y \in Nodes : \A e \in InTransit(x, y)' :
           e \in InTransit(x, y) \/ (x = n /\ e \in Range(out[y]))
      /\ stale' \subseteq stale /\ crossed' = crossed
      /\ \A x \in Nodes : chan'[x][x] = <<>>
  BY TransferLemma
<1>2. ASSUME NEW x \in Nodes, NEW y \in Nodes
      PROVE  InTransit(x, y)' \subseteq MessageOf(x)
  <2>1. InTransit(x, y) \subseteq SentBy(x) \cup {LostMsg}
    BY ChannelType
  <2>2. InTransit(x, y)' \subseteq SentBy(x) \cup {LostMsg}
    BY <1>1, <2>1
  <2> QED
    BY <2>2 DEF SentBy, MessageOf
<1>3. /\ \A c \in conn' : \E x, y \in Nodes : x # y /\ c = {x, y}
      /\ \A p \in dials' : \E x, y \in Nodes : x # y /\ p = <<x, y>>
  <2>1. PICK r \in SUBSET Nodes : conn' = conn \cup {{n, y} : y \in r \ {n}}
    <3> DEFINE reached == {y \in Nodes : Running(y) /\ Accepted(n, y, out[y]) # <<>>}
               dialled == {y \in reached : plan.crossing /\ y # n /\ {n, y} \notin conn}
    <3>1. conn' = conn \cup {{n, y} : y \in reached \ (dialled \cup {n})}
      BY DEF Transfer
    <3>2. reached \ (dialled \cup {n}) = (reached \ dialled) \ {n} /\ reached \ dialled \in SUBSET Nodes
      OBVIOUS
    <3> HIDE DEF reached, dialled
    <3> QED
      BY <3>1, <3>2
  <2>2. \A p \in dials' : p \in dials \/ \E y \in Nodes : y # n /\ p = <<n, y>>
    BY DEF Transfer
  <2>3. /\ \A c \in conn : \E x, y \in Nodes : x # y /\ c = {x, y}
        /\ \A p \in dials : \E x, y \in Nodes : x # y /\ p = <<x, y>>
    BY DEF TypeOK
  <2>4. \A p \in dials' : \E x, y \in Nodes : x # y /\ p = <<x, y>>
    BY <2>2, <2>3
  <2> QED
    BY <2>1, <2>3, <2>4
<1>4. ASSUME NEW x \in Nodes, NEW y \in Nodes
      PROVE  /\ \A i \in 1..Len(chan'[x][y]) : chan'[x][y][i] \in MessageOf(x)
             /\ \A i \in 1..Len(backlog'[x][y]) : backlog'[x][y][i] \in MessageOf(x)
  <2>1. /\ DOMAIN chan'[x][y] = 1..Len(chan'[x][y])
        /\ DOMAIN backlog'[x][y] = 1..Len(backlog'[x][y])
    BY <1>1
  <2> QED
    BY <1>2, <2>1 DEF InTransit, Range
<1>5. plan' \in Scenarios /\ stale' \subseteq Nodes \X Nodes /\ crossed' \in BOOLEAN
  BY <1>1 DEF TypeOK
<1>6. \A x, y \in Nodes : MessageOf(x)' = MessageOf(x)
  BY DEF MessageOf, ElectionMsg, ElectionOkMsg, CoordinatorMsg, LostMsg
<1> QED
  BY <1>1, <1>3, <1>4, <1>5, <1>6 DEF TypeOK

\* What start_election sends: nothing while an election is in progress, a call to
\* the higher members, or, where there is none, the announcement to the others.
LEMMA CallsLemma ==
  ASSUME TypeOK, NEW n \in Nodes, NEW members \in SUBSET Nodes
  PROVE  /\ Calls(n, members) \in [Nodes -> Seq(ElectionMessage)]
         /\ Calls(n, members)[n] = <<>>
         /\ \A p \in Nodes :
              Range(Calls(n, members)[p]) =
                IF election[n] THEN {}
                ELSE IF Higher(n, members) # {}
                     THEN IF p \in Higher(n, members) THEN {ElectionMsg(n)} ELSE {}
                     ELSE IF p \in members \ {n} THEN {CoordinatorMsg(n)} ELSE {}
<1>1. /\ <<>> \in Seq(ElectionMessage) /\ Range(<<>>) = {}
      /\ \A e \in ElectionMessage : <<e>> \in Seq(ElectionMessage) /\ Range(<<e>>) = {e}
  BY DEF Range
<1>2. ElectionMsg(n) \in ElectionMessage /\ CoordinatorMsg(n) \in ElectionMessage
  BY SentIsMessage DEF SentBy
<1>3. n \notin Higher(n, members)
  BY ScenariosAssumption DEF Higher
<1>4. CASE election[n]
  BY <1>1, <1>4 DEF Calls, Silent
<1>5. CASE ~election[n] /\ Higher(n, members) # {}
  <2> DEFINE out == [p \in Nodes |-> IF p \in Higher(n, members) THEN <<ElectionMsg(n)>> ELSE <<>>]
  <2>1. Calls(n, members) = out
    BY <1>5 DEF Calls
  <2>2. \A p \in Nodes : out[p] = IF p \in Higher(n, members) THEN <<ElectionMsg(n)>> ELSE <<>>
    OBVIOUS
  <2>3. out \in [Nodes -> Seq(ElectionMessage)]
    BY <1>1, <1>2
  <2> HIDE DEF out
  <2> QED
    BY <1>1, <1>2, <1>3, <1>5, <2>1, <2>2, <2>3
<1>6. CASE ~election[n] /\ Higher(n, members) = {}
  <2> DEFINE out == [p \in Nodes |-> IF p \in members \ {n} THEN <<CoordinatorMsg(n)>> ELSE <<>>]
  <2>1. Calls(n, members) = out
    BY <1>6 DEF Calls, Announce
  <2>2. \A p \in Nodes : out[p] = IF p \in members \ {n} THEN <<CoordinatorMsg(n)>> ELSE <<>>
    OBVIOUS
  <2>3. out \in [Nodes -> Seq(ElectionMessage)]
    BY <1>1, <1>2
  <2> HIDE DEF out
  <2> QED
    BY <1>1, <1>2, <1>6, <2>1, <2>2, <2>3
<1> QED
  BY <1>4, <1>5, <1>6

\* What anounce_coordinator sends.
LEMMA AnnounceLemma ==
  ASSUME NEW n \in Nodes, NEW members \in SUBSET Nodes
  PROVE  /\ Announce(n, members) \in [Nodes -> Seq(ElectionMessage)]
         /\ Announce(n, members)[n] = <<>>
         /\ \A p \in Nodes : Range(Announce(n, members)[p]) \subseteq {CoordinatorMsg(n)}
<1>1. /\ <<>> \in Seq(ElectionMessage) /\ Range(<<>>) = {}
      /\ \A e \in ElectionMessage : <<e>> \in Seq(ElectionMessage) /\ Range(<<e>>) = {e}
  BY DEF Range
<1>2. CoordinatorMsg(n) \in ElectionMessage
  BY SentIsMessage DEF SentBy
<1>3. \A p \in Nodes : Announce(n, members)[p] =
        IF p \in members \ {n} THEN <<CoordinatorMsg(n)>> ELSE <<>>
  BY DEF Announce
<1>4. Announce(n, members) \in [Nodes -> Seq(ElectionMessage)]
  BY <1>1, <1>2 DEF Announce
<1> QED
  BY <1>1, <1>2, <1>3, <1>4

\* What handle_election sends to a lower node m and to the members that n knows
Answers(m, n, members) ==
  [p \in Nodes |-> (IF p = m THEN <<ElectionOkMsg(n)>> ELSE <<>>) \o Calls(n, members)[p]]

\* What the answer to a call of m adds to what start_election sends.
LEMMA AnswerLemma ==
  ASSUME TypeOK, NEW m \in Nodes, NEW n \in Nodes, m # n, NEW members \in SUBSET Nodes
  PROVE  /\ Answers(m, n, members) \in [Nodes -> Seq(ElectionMessage)]
         /\ Answers(m, n, members)[n] = <<>>
         /\ \A p \in Nodes : \A e : e \in Range(Answers(m, n, members)[p]) <=>
              e \in Range(Calls(n, members)[p]) \/ (p = m /\ e = ElectionOkMsg(n))
<1> DEFINE answer(p) == IF p = m THEN <<ElectionOkMsg(n)>> ELSE <<>>
           call(p) == Calls(n, members)[p]
           out == Answers(m, n, members)
<1>1. ASSUME NEW p \in Nodes
      PROVE  /\ answer(p) \in Seq(ElectionMessage)
             /\ Range(answer(p)) = IF p = m THEN {ElectionOkMsg(n)} ELSE {}
  <2>1. ElectionOkMsg(n) \in ElectionMessage
    BY SentIsMessage DEF SentBy
  <2> QED
    BY <2>1 DEF Range
<1>2. \A p \in Nodes : call(p) \in Seq(ElectionMessage)
  <2>1. Calls(n, members) \in [Nodes -> Seq(ElectionMessage)]
    BY CallsLemma
  <2> QED
    BY <2>1
<1>3. answer(n) = <<>> /\ call(n) = <<>>
  BY CallsLemma
<1>4. out = [p \in Nodes |-> answer(p) \o call(p)]
  BY DEF Answers
<1> HIDE DEF answer, call, out
<1>5. ASSUME NEW p \in Nodes
      PROVE  /\ out[p] \in Seq(ElectionMessage)
             /\ Range(out[p]) = Range(answer(p)) \cup Range(call(p))
  <2>1. out[p] = answer(p) \o call(p)
    BY <1>4
  <2>2. answer(p) \in Seq(ElectionMessage) /\ call(p) \in Seq(ElectionMessage)
    BY <1>1, <1>2
  <2> QED
    BY <2>1, <2>2, RangeConcat
<1>6. out[n] = <<>>
  <2>1. out[n] = answer(n) \o call(n)
    BY <1>4
  <2>2. out[n] = <<>> \o <<>>
    BY <1>3, <2>1
  <2> QED
    BY <2>2
<1>7. out \in [Nodes -> Seq(ElectionMessage)]
  BY <1>4, <1>5
<1> QED
  BY <1>1, <1>5, <1>6, <1>7 DEF call, out

\* A handler that sends nothing
LEMMA SilentLemma ==
  /\ Silent \in [Nodes -> Seq(ElectionMessage)]
  /\ \A p \in Nodes : Silent[p] = <<>> /\ Range(Silent[p]) = {}
  BY DEF Silent, Range

\* A node that stops: nothing is on its way to it, what it sent is cut and followed
\* by the end of the stream, and the other channels are as before.
LEMMA StopsLemma ==
  ASSUME TypeOK, NEW n \in Nodes, NEW how \in {"crashed", "panicked"}, Stops(n, how)
  PROVE  /\ TypeOK'
         /\ ~Running(n)' /\ ~election'[n]
         /\ \A x \in Nodes \ {n} : role'[x] = role[x] /\ election'[x] = election[x]
         /\ \A x, y \in Nodes : x # n /\ y # n => InTransit(x, y)' = InTransit(x, y)
         /\ \A x, y \in Nodes : InTransit(x, y)' \subseteq InTransit(x, y) \cup {LostMsg}
         /\ \A x \in Nodes : InTransit(x, n)' = {}
         /\ \A x, y \in Nodes : <<x, y>> \in stale' => y = n \/ <<x, y>> \in stale
         /\ leader_addr' = leader_addr /\ cluster' = cluster /\ plan' = plan
         /\ crossed' = crossed
<1>1. PICK written \in Cuts(chan[n]), queued \in Cuts(backlog[n]) :
        chan' = [x \in Nodes |-> [y \in Nodes |->
          IF y = n THEN <<>>
          ELSE IF x # n THEN chan[x][y]
          ELSE SubSeq(chan[n][y], 1, written[y]) \o SubSeq(backlog[n][y], 1, queued[y])
                 \o (IF Linked(n, y) /\ Running(y) THEN <<LostMsg>> ELSE <<>>)]]
  BY DEF Stops
<1> DEFINE part(y) == SubSeq(chan[n][y], 1, written[y])
           rest(y) == SubSeq(backlog[n][y], 1, queued[y])
           end(y) == IF Linked(n, y) /\ Running(y) THEN <<LostMsg>> ELSE <<>>
<1>2. ASSUME NEW y \in Nodes
      PROVE  written[y] \in 0..Len(chan[n][y]) /\ queued[y] \in 0..Len(backlog[n][y])
  BY DEF Cuts, Through
<1>3. ASSUME NEW y \in Nodes
      PROVE  /\ part(y) \in Seq(ElectionMessage) /\ Range(part(y)) \subseteq Range(chan[n][y])
             /\ rest(y) \in Seq(ElectionMessage) /\ Range(rest(y)) \subseteq Range(backlog[n][y])
  <2>1. chan[n][y] \in Seq(ElectionMessage) /\ backlog[n][y] \in Seq(ElectionMessage)
    BY ChannelType
  <2> QED
    BY <1>2, <2>1, RangeSubSeq
<1>4. ASSUME NEW y \in Nodes
      PROVE  end(y) \in Seq(ElectionMessage) /\ Range(end(y)) \subseteq {LostMsg}
  <2>1. LostMsg \in ElectionMessage
    BY DEF ElectionMessage
  <2> QED
    BY <2>1 DEF Range
<1>5. chan' = [x \in Nodes |-> [y \in Nodes |->
        IF y = n THEN <<>> ELSE IF x # n THEN chan[x][y] ELSE part(y) \o rest(y) \o end(y)]]
  BY <1>1
<1> HIDE DEF part, rest, end
<1>6. <<>> \in Seq(ElectionMessage) /\ Range(<<>>) = {}
  BY DEF Range
<1>7. backlog' = [x \in Nodes |-> [y \in Nodes |-> IF n \in {x, y} THEN <<>> ELSE backlog[x][y]]]
  BY DEF Stops
<1>8. \A x, y \in Nodes : InTransit(x, y) = Range(chan[x][y]) \cup Range(backlog[x][y])
  BY DEF InTransit
<1>9. ASSUME NEW x \in Nodes, NEW y \in Nodes
      PROVE  /\ chan'[x][y] \in Seq(ElectionMessage) /\ backlog'[x][y] \in Seq(ElectionMessage)
             /\ InTransit(x, y)' \subseteq InTransit(x, y) \cup {LostMsg}
             /\ x # n /\ y # n => InTransit(x, y)' = InTransit(x, y)
             /\ y = n => InTransit(x, y)' = {}
  <2>1. CASE y = n
    <3>1. chan'[x][y] = <<>> /\ backlog'[x][y] = <<>>
      BY <1>5, <1>7, <2>1
    <3> QED
      BY <1>6, <2>1, <3>1 DEF InTransit
  <2>2. CASE y # n /\ x # n
    <3>1. chan'[x][y] = chan[x][y] /\ backlog'[x][y] = backlog[x][y]
      BY <1>5, <1>7, <2>2
    <3> QED
      BY <2>2, <3>1, ChannelType DEF InTransit
  <2>3. CASE y # n /\ x = n
    <3>1. chan'[x][y] = part(y) \o rest(y) \o end(y) /\ backlog'[x][y] = <<>>
      BY <1>5, <1>7, <2>3
    <3>2. /\ part(y) \o rest(y) \in Seq(ElectionMessage)
          /\ Range(part(y) \o rest(y)) = Range(part(y)) \cup Range(rest(y))
      BY <1>3, RangeConcat
    <3>3. /\ part(y) \o rest(y) \o end(y) \in Seq(ElectionMessage)
          /\ Range(part(y) \o rest(y) \o end(y)) = Range(part(y) \o rest(y)) \cup Range(end(y))
      <4> DEFINE both == part(y) \o rest(y)
      <4>1. both \in Seq(ElectionMessage) /\ end(y) \in Seq(ElectionMessage)
        BY <1>4, <3>2
      <4> HIDE DEF both
      <4>2. both \o end(y) \in Seq(ElectionMessage) /\ Range(both \o end(y)) = Range(both) \cup Range(end(y))
        BY <4>1, RangeConcat
      <4> QED
        BY <4>2 DEF both
    <3>4. InTransit(x, y)' = Range(part(y)) \cup Range(rest(y)) \cup Range(end(y))
      <4>1. InTransit(x, y)' = Range(chan'[x][y]) \cup Range(backlog'[x][y])
        BY DEF InTransit
      <4>2. Range(chan'[x][y]) = Range(part(y)) \cup Range(rest(y)) \cup Range(end(y))
        BY <3>1, <3>2, <3>3, Zenon
      <4>3. Range(backlog'[x][y]) = {}
        BY <1>6, <3>1, Zenon
      <4> QED
        BY <4>1, <4>2, <4>3
    <3> QED
      BY <1>3, <1>4, <1>6, <1>8, <2>3, <3>1, <3>3, <3>4
  <2> QED
    BY <2>1, <2>2, <2>3
<1>10. ASSUME NEW x \in Nodes PROVE chan'[x][x] = <<>>
  <2>1. CASE x = n
    BY <1>5, <2>1
  <2>2. CASE x # n
    BY <1>5, <2>2, ChannelType
  <2> QED
    BY <2>1, <2>2
<1>11. /\ role' = [role EXCEPT ![n] = how] /\ election' = [election EXCEPT ![n] = FALSE]
       /\ leader_addr' = leader_addr /\ cluster' = cluster /\ plan' = plan
       /\ crossed' = crossed
  BY DEF Stops
<1>12. /\ role \in [Nodes -> {"leader", "replica", "down", "crashed", "panicked"}]
       /\ election \in [Nodes -> BOOLEAN]
  BY DEF TypeOK
<1>13. /\ role' \in [Nodes -> {"leader", "replica", "down", "crashed", "panicked"}]
       /\ election' \in [Nodes -> BOOLEAN]
       /\ ~Running(n)' /\ ~election'[n]
       /\ \A x \in Nodes \ {n} : role'[x] = role[x] /\ election'[x] = election[x]
  BY <1>11, <1>12 DEF Running
<1>14. /\ \A c \in conn' : \E x, y \in Nodes : x # y /\ c = {x, y}
       /\ \A p \in dials' : \E x, y \in Nodes : x # y /\ p = <<x, y>>
  BY DEF Stops, TypeOK
<1>15. /\ stale' \subseteq Nodes \X Nodes
       /\ \A x, y \in Nodes : <<x, y>> \in stale' => y = n \/ <<x, y>> \in stale
  <2>1. stale \subseteq Nodes \X Nodes
    BY DEF TypeOK
  <2>2. stale' = {p \in stale : p[1] # n} \cup {<<y, n>> : y \in {z \in Nodes : Linked(n, z)}}
    BY DEF Stops
  <2>3. ASSUME NEW p \in stale'
        PROVE  p \in stale \/ \E y \in Nodes : p = <<y, n>>
    BY <2>2
  <2>4. \A y \in Nodes : <<y, n>> \in Nodes \X Nodes
    OBVIOUS
  <2>5. stale' \subseteq Nodes \X Nodes
    BY <2>1, <2>3, <2>4
  <2>6. ASSUME NEW x \in Nodes, NEW y \in Nodes, <<x, y>> \in stale'
        PROVE  y = n \/ <<x, y>> \in stale
    BY <2>3, <2>6
  <2> QED
    BY <2>5, <2>6
<1>16. ASSUME NEW x \in Nodes, NEW y \in Nodes
       PROVE  /\ \A i \in 1..Len(chan'[x][y]) : chan'[x][y][i] \in MessageOf(x)
              /\ \A i \in 1..Len(backlog'[x][y]) : backlog'[x][y][i] \in MessageOf(x)
  <2>1. InTransit(x, y) \subseteq SentBy(x) \cup {LostMsg}
    BY ChannelType
  <2>2. InTransit(x, y)' \subseteq MessageOf(x)
    BY <1>9, <2>1 DEF SentBy, MessageOf
  <2>3. /\ DOMAIN chan'[x][y] = 1..Len(chan'[x][y])
        /\ DOMAIN backlog'[x][y] = 1..Len(backlog'[x][y])
    BY <1>9
  <2> QED
    BY <2>2, <2>3 DEF InTransit, Range
<1>17. /\ chan' \in [Nodes -> [Nodes -> Seq(ElectionMessage)]]
       /\ backlog' \in [Nodes -> [Nodes -> Seq(ElectionMessage)]]
  BY <1>5, <1>7, <1>9
<1>18. /\ plan' \in Scenarios /\ leader_addr' \in [Nodes -> Nodes]
       /\ cluster' \in [Nodes -> SUBSET Nodes] /\ crossed' \in BOOLEAN
  BY <1>11 DEF TypeOK
<1>19. \A x, y \in Nodes : MessageOf(x)' = MessageOf(x)
  BY DEF MessageOf, ElectionMsg, ElectionOkMsg, CoordinatorMsg, LostMsg
<1>20. TypeOK'
  BY <1>10, <1>13, <1>14, <1>15, <1>16, <1>17, <1>18, <1>19 DEF TypeOK
<1> QED
  BY <1>9, <1>11, <1>13, <1>15, <1>20

\* An acceptor moves what is on a connection to the channel of the node; it may drop
\* the end of a channel or of a connection, and follows it by the end of the stream.
LEMMA AcceptType ==
  ASSUME TypeOK, NEW n \in Nodes, NEW m \in Nodes, Accepts(n, m)
  PROVE  TypeOK'
<1>1. <<m, n>> \in dials /\ m # n
  <2>1. <<m, n>> \in dials
    BY DEF Accepts, Accept, AcceptInstead, AcceptEnded
  <2> QED
    BY <2>1 DEF TypeOK
<1>2. ASSUME NEW x \in Nodes
      PROVE  /\ <<>> \in Seq(MessageOf(x)) /\ LostMsg \in MessageOf(x)
             /\ Seq(MessageOf(x)) \subseteq Seq(ElectionMessage)
  <2>1. MessageOf(x) \subseteq ElectionMessage /\ LostMsg \in MessageOf(x)
    BY DEF MessageOf, ElectionMsg, ElectionOkMsg, CoordinatorMsg, ElectionMessage
  <2> QED
    BY <2>1, SeqGrows
<1>3. ASSUME NEW x \in Nodes, NEW y \in Nodes
      PROVE  /\ chan[x][y] \in Seq(MessageOf(x)) /\ backlog[x][y] \in Seq(MessageOf(x))
  <2>1. /\ chan[x][y] \in Seq(ElectionMessage) /\ backlog[x][y] \in Seq(ElectionMessage)
    BY ChannelType
  <2>2. /\ \A i \in 1..Len(chan[x][y]) : chan[x][y][i] \in MessageOf(x)
        /\ \A i \in 1..Len(backlog[x][y]) : backlog[x][y][i] \in MessageOf(x)
    BY DEF TypeOK
  <2>3. \A t \in Seq(ElectionMessage) :
          (\A i \in 1..Len(t) : t[i] \in MessageOf(x)) => t \in Seq(MessageOf(x))
    <3> SUFFICES ASSUME NEW t \in Seq(ElectionMessage), \A i \in 1..Len(t) : t[i] \in MessageOf(x)
                 PROVE  t \in Seq(MessageOf(x))
      OBVIOUS
    <3>1. t \in [1..Len(t) -> MessageOf(x)] /\ Len(t) \in Nat
      OBVIOUS
    <3> QED
      BY <3>1
  <2> QED
    BY <2>1, <2>2, <2>3
<1>4. ASSUME NEW x \in Nodes, NEW y \in Nodes
      PROVE  /\ \A k \in Through(chan[x][y]) :
                  /\ SubSeq(chan[x][y], 1, k) \in Seq(MessageOf(x))
                  /\ Append(SubSeq(chan[x][y], 1, k), LostMsg) \in Seq(MessageOf(x))
             /\ \A k \in Through(backlog[x][y]) :
                  Append(SubSeq(backlog[x][y], 1, k), LostMsg) \in Seq(MessageOf(x))
  <2>1. /\ \A k \in 0..Len(chan[x][y]) : SubSeq(chan[x][y], 1, k) \in Seq(MessageOf(x))
        /\ \A k \in 0..Len(backlog[x][y]) : SubSeq(backlog[x][y], 1, k) \in Seq(MessageOf(x))
    BY <1>3, RangeSubSeq
  <2>2. \A t \in Seq(MessageOf(x)) : Append(t, LostMsg) \in Seq(MessageOf(x))
    BY <1>2
  <2> QED
    BY <2>1, <2>2 DEF Through
<1>5. /\ chan \in [Nodes -> [Nodes -> Seq(ElectionMessage)]]
      /\ backlog \in [Nodes -> [Nodes -> Seq(ElectionMessage)]]
      /\ \A x \in Nodes : chan[x][x] = <<>>
  BY DEF TypeOK
<1>6. /\ chan[m][n] \o backlog[m][n] \in Seq(MessageOf(m))
      /\ \A k \in Through(chan[m][n]) : SubSeq(chan[m][n], 1, k) \o backlog[m][n] \in Seq(MessageOf(m))
  BY <1>3, <1>4, RangeConcat
<1>7. /\ chan' \in [Nodes -> [Nodes -> Seq(ElectionMessage)]]
      /\ backlog' \in [Nodes -> [Nodes -> Seq(ElectionMessage)]]
      /\ \A x, y \in Nodes : chan'[x][y] \in Seq(MessageOf(x)) /\ backlog'[x][y] \in Seq(MessageOf(x))
      /\ \A x \in Nodes : chan'[x][x] = <<>>
  <2>1. CASE Accept(n, m)
    <3>1. /\ chan' = [chan EXCEPT ![m][n] = @ \o backlog[m][n]]
          /\ backlog' = [backlog EXCEPT ![m][n] = <<>>]
      BY <2>1 DEF Accept
    <3> QED
      BY <1>1, <1>2, <1>3, <1>5, <1>6, <3>1
  <2>2. CASE AcceptInstead(n, m)
    <3>1. PICK k \in Through(backlog[n][m]) :
            backlog' = [backlog EXCEPT ![m][n] = <<>>,
                                       ![n][m] = Append(SubSeq(@, 1, k), LostMsg)]
      BY <2>2 DEF AcceptInstead
    <3>2. chan' = [chan EXCEPT ![m][n] = @ \o backlog[m][n]]
      BY <2>2 DEF AcceptInstead
    <3>3. Append(SubSeq(backlog[n][m], 1, k), LostMsg) \in Seq(MessageOf(n))
      BY <1>4
    <3> QED
      BY <1>1, <1>2, <1>3, <1>5, <1>6, <3>1, <3>2, <3>3
  <2>3. CASE AcceptEnded(n, m)
    <3>1. PICK r \in Through(chan[m][n]), w \in Through(chan[n][m]) :
            chan' = [chan EXCEPT ![m][n] = SubSeq(@, 1, r) \o backlog[m][n],
                                 ![n][m] = Append(SubSeq(@, 1, w), LostMsg)]
      BY <2>3 DEF AcceptEnded
    <3>2. backlog' = [backlog EXCEPT ![m][n] = <<>>]
      BY <2>3 DEF AcceptEnded
    <3>3. Append(SubSeq(chan[n][m], 1, w), LostMsg) \in Seq(MessageOf(n))
      BY <1>4
    <3>4. SubSeq(chan[m][n], 1, r) \o backlog[m][n] \in Seq(MessageOf(m))
      BY <1>6
    <3> QED
      BY <1>1, <1>2, <1>3, <1>5, <3>1, <3>2, <3>3, <3>4
  <2> QED
    BY <2>1, <2>2, <2>3 DEF Accepts
<1>8. ASSUME NEW x \in Nodes, NEW y \in Nodes
      PROVE  /\ \A i \in 1..Len(chan'[x][y]) : chan'[x][y][i] \in MessageOf(x)
             /\ \A i \in 1..Len(backlog'[x][y]) : backlog'[x][y][i] \in MessageOf(x)
  <2>1. chan'[x][y] \in Seq(MessageOf(x)) /\ backlog'[x][y] \in Seq(MessageOf(x))
    BY <1>7
  <2> QED
    BY <2>1
<1>9. /\ \A c \in conn' : \E x, y \in Nodes : x # y /\ c = {x, y}
      /\ \A p \in dials' : \E x, y \in Nodes : x # y /\ p = <<x, y>>
      /\ stale' \subseteq Nodes \X Nodes
      /\ crossed' \in BOOLEAN
  <2>1. /\ conn' \subseteq conn \cup {{m, n}} /\ dials' \subseteq dials
        /\ stale' \subseteq stale \cup {<<m, n>>, <<n, m>>}
        /\ crossed' \in {crossed, TRUE}
    BY DEF Accepts, Accept, AcceptInstead, AcceptEnded
  <2>2. /\ \A c \in conn : \E x, y \in Nodes : x # y /\ c = {x, y}
        /\ \A p \in dials : \E x, y \in Nodes : x # y /\ p = <<x, y>>
        /\ stale \subseteq Nodes \X Nodes /\ crossed \in BOOLEAN
    BY DEF TypeOK
  <2>3. ASSUME NEW c \in conn' PROVE \E x, y \in Nodes : x # y /\ c = {x, y}
    <3>1. CASE c \in conn
      BY <2>2, <3>1
    <3>2. CASE c = {m, n}
      BY <1>1, <3>2
    <3> QED
      BY <2>1, <3>1, <3>2
  <2>4. \A p \in dials' : \E x, y \in Nodes : x # y /\ p = <<x, y>>
    BY <2>1, <2>2, Zenon
  <2>5. stale' \subseteq Nodes \X Nodes
    BY <2>1, <2>2
  <2>6. crossed' \in BOOLEAN
    BY <2>1, <2>2
  <2> QED
    BY <2>3, <2>4, <2>5, <2>6, Zenon
<1>10. UNCHANGED <<plan, role, leader_addr, cluster, election>>
  BY DEF Accepts, Accept, AcceptInstead, AcceptEnded
<1>11. \A x, y \in Nodes : MessageOf(x)' = MessageOf(x)
  BY DEF MessageOf, ElectionMsg, ElectionOkMsg, CoordinatorMsg, LostMsg
<1> QED
  BY <1>7, <1>8, <1>9, <1>10, <1>11 DEF TypeOK

-----------------------------------------------------------------------------
(* What a step of a handler preserves *)

\* Whoever takes a message and sends its own keeps MembersInv; it forgets no member
\* that runs.
LEMMA MembersStep ==
  ASSUME TypeOK, MembersInv, NEW n \in Nodes, NEW m \in Nodes \cup {Nobody},
         m \in Nodes => chan[m][n] # <<>>,
         NEW out, out \in [Nodes -> Seq(ElectionMessage)],
         \A y \in Nodes : Range(out[y]) \subseteq SentBy(n),
         Transfer(m, n, out),
         \A x \in Nodes : Running(x)' <=> Running(x),
         \A x, y \in Nodes : y \in cluster[x] /\ Running(y) => y \in cluster'[x]
  PROVE  MembersInv'
<1>1. /\ \A x, y \in Nodes : \A e \in InTransit(x, y)' :
           e \in InTransit(x, y) \/ (x = n /\ e \in Range(out[y]))
      /\ stale' \subseteq stale
  BY TransferLemma
<1>2. \A x, y \in Nodes : LostMsg \in InTransit(x, y)' => LostMsg \in InTransit(x, y)
  BY <1>1, MessagesDiffer
<1> QED
  BY <1>1, <1>2 DEF MembersInv

\* The answers to come: a call that is taken is answered, an answer that is taken
\* stops the timer, and whoever starts to wait has called every higher node.
LEMMA AnswersStep ==
  ASSUME TypeOK, MembersInv, AnswersInv, NEW n \in Nodes, NEW m \in Nodes \cup {Nobody},
         m \in Nodes => chan[m][n] # <<>>,
         NEW out, out \in [Nodes -> Seq(ElectionMessage)],
         Transfer(m, n, out),
         \A x \in Nodes : Running(x)' <=> Running(x),
         \A x \in Nodes \ {n} : election'[x] = election[x],
         m \in Nodes /\ Head(chan[m][n]) = ElectionMsg(m) /\ n > m =>
           ElectionOkMsg(n) \in Range(out[m]),
         m \in Nodes /\ Head(chan[m][n]) = ElectionOkMsg(m) => ~election'[n],
         election'[n] => \/ election[n]
                         \/ \A p \in Nodes : Running(p) /\ p > n => ElectionMsg(n) \in Range(out[p])
  PROVE  AnswersInv'
<1>1. /\ \A x, y \in Nodes : \A e \in InTransit(x, y) :
           e \in InTransit(x, y)' \/ (x = m /\ y = n /\ e = Head(chan[m][n]))
      /\ \A y \in Nodes : Running(y) /\ <<n, y>> \notin stale =>
           Range(out[y]) \subseteq InTransit(n, y)'
  BY TransferLemma
<1>2. \A y \in Nodes : Running(y) => Range(out[y]) \subseteq InTransit(n, y)'
  BY <1>1 DEF MembersInv
<1> SUFFICES ASSUME NEW k \in Nodes, NEW p \in Nodes,
                    Running(k), election'[k], Running(p), p > k
             PROVE  ElectionMsg(k) \in InTransit(k, p)' \/ ElectionOkMsg(p) \in InTransit(p, k)'
  BY DEF AnswersInv
<1>3. CASE election[k]
  <2>1. ElectionMsg(k) \in InTransit(k, p) \/ ElectionOkMsg(p) \in InTransit(p, k)
    BY <1>3 DEF AnswersInv
  <2>2. CASE ElectionMsg(k) \in InTransit(k, p)
    <3>1. CASE k = m /\ p = n /\ ElectionMsg(k) = Head(chan[m][n])
      BY <1>2, <3>1
    <3> QED
      BY <1>1, <2>2, <3>1
  <2>3. CASE ElectionOkMsg(p) \in InTransit(p, k)
    BY <1>1, <2>3
  <2> QED
    BY <2>1, <2>2, <2>3
<1>4. CASE ~election[k]
  <2>1. k = n
    BY <1>4
  <2> QED
    BY <1>2, <1>4, <2>1
<1> QED
  BY <1>3, <1>4

\* Whoever becomes the leader or announces itself is the highest node that runs:
\* then the leader is the highest, and only lower nodes hear of it.
LEMMA LeadsStep ==
  ASSUME TypeOK, NEW n \in Nodes, NEW m \in Nodes \cup {Nobody},
         m \in Nodes => chan[m][n] # <<>>,
         NEW out, out \in [Nodes -> Seq(ElectionMessage)], out[n] = <<>>,
         Transfer(m, n, out),
         \A x \in Nodes : Running(x)' <=> Running(x),
         \A x \in Nodes : role'[x] = "leader" => role[x] = "leader" \/ Highest(x),
         \A y \in Nodes : CoordinatorMsg(n) \in Range(out[y]) => Highest(n)
  PROVE  (HighestLeads => HighestLeads') /\ (HeardByLower => HeardByLower')
<1>1. \A x \in Nodes : Highest(x)' <=> Highest(x)
  BY DEF Highest
<1>2. HighestLeads => HighestLeads'
  BY <1>1 DEF HighestLeads
<1>3. \A x, y \in Nodes : \A e \in InTransit(x, y)' :
        e \in InTransit(x, y) \/ (x = n /\ e \in Range(out[y]))
  BY TransferLemma
<1>4. Range(out[n]) = {}
  BY DEF Range
<1>5. ASSUME HeardByLower, NEW x \in Nodes, NEW y \in Nodes,
             CoordinatorMsg(x) \in InTransit(x, y)', Running(y)'
      PROVE  y < x
  <2>1. CASE CoordinatorMsg(x) \in InTransit(x, y)
    BY <1>5, <2>1 DEF HeardByLower
  <2>2. CASE x = n /\ CoordinatorMsg(x) \in Range(out[y])
    <3>1. y # n /\ y <= n
      BY <1>4, <1>5, <2>2 DEF Highest
    <3>2. y \in Nat /\ n \in Nat
      BY ScenariosAssumption
    <3> QED
      BY <2>2, <3>1, <3>2
  <2> QED
    BY <1>3, <1>5, <2>1, <2>2
<1>6. HeardByLower => HeardByLower'
  BY <1>5 DEF HeardByLower
<1> QED
  BY <1>2, <1>6

-----------------------------------------------------------------------------
(* The steps *)

\* The timely part of the invariant, in one step that promotes only the highest
LEMMA CalmHead ==
  ASSUME TypeOK, Calm, NEW m \in Nodes, NEW n \in Nodes, chan[m][n] # <<>>
  PROVE  Head(chan[m][n]) = LostMsg
  BY HeadLemma DEF Calm

\* A node without a higher one among the members that it knows is the highest.
LEMMA NoHigher ==
  ASSUME MembersInv, NEW n \in Nodes, Running(n), NEW members,
         \A p \in cluster[n] : Running(p) => p \in members,
         Higher(n, members) = {}
  PROVE  Highest(n)
<1> SUFFICES ASSUME NEW p \in Nodes, Running(p) PROVE p <= n
  BY DEF Highest
<1>1. p \in members
  BY DEF MembersInv
<1>2. p \in Nat /\ n \in Nat
  BY ScenariosAssumption
<1> QED
  BY <1>1, <1>2 DEF Higher

\* What start_election does to the node, and what it means: it waits and has called
\* every higher node that runs, or it is the highest.
LEMMA StartLemma ==
  ASSUME TypeOK, MembersInv, NEW n \in Nodes, Running(n), NEW members \in SUBSET Nodes,
         \A p \in cluster[n] : Running(p) => p \in members,
         StartElection(n, members)
  PROVE  /\ role' \in [Nodes -> {"leader", "replica", "down", "crashed", "panicked"}]
         /\ election' \in [Nodes -> BOOLEAN]
         /\ \A x \in Nodes : Running(x)' <=> Running(x)
         /\ \A x \in Nodes \ {n} : election'[x] = election[x] /\ role'[x] = role[x]
         /\ \A x \in Nodes : role'[x] = "leader" => role[x] = "leader" \/ Highest(x)
         /\ \A x \in Nodes : role'[x] = "panicked" => role[x] = "panicked"
         /\ \A y \in Nodes : CoordinatorMsg(n) \in Range(Calls(n, members)[y]) => Highest(n)
         /\ \A y \in Nodes : Range(Calls(n, members)[y]) \subseteq {ElectionMsg(n), CoordinatorMsg(n)}
         /\ election'[n] => \/ election[n]
                            \/ \A p \in Nodes : Running(p) /\ p > n =>
                                 ElectionMsg(n) \in Range(Calls(n, members)[p])
<1>1. /\ role \in [Nodes -> {"leader", "replica", "down", "crashed", "panicked"}]
      /\ election \in [Nodes -> BOOLEAN]
  BY DEF TypeOK
<1>2. /\ election' = [election EXCEPT ![n] = Waits(n, members)]
      /\ role' = [role EXCEPT ![n] = IF Waits(n, members) THEN @ ELSE "leader"]
      /\ Waits(n, members) \in BOOLEAN
  BY <1>1 DEF StartElection, Waits
<1>3. /\ role' \in [Nodes -> {"leader", "replica", "down", "crashed", "panicked"}]
      /\ election' \in [Nodes -> BOOLEAN]
      /\ \A x \in Nodes : Running(x)' <=> Running(x)
      /\ \A x \in Nodes \ {n} : election'[x] = election[x] /\ role'[x] = role[x]
      /\ election'[n] = Waits(n, members)
      /\ role'[n] = IF Waits(n, members) THEN role[n] ELSE "leader"
  BY <1>1, <1>2 DEF Running
<1>4. ~Waits(n, members) => Highest(n)
  BY NoHigher DEF Waits
<1>5. \A p \in Nodes :
        Range(Calls(n, members)[p]) =
          IF election[n] THEN {}
          ELSE IF Higher(n, members) # {}
               THEN IF p \in Higher(n, members) THEN {ElectionMsg(n)} ELSE {}
               ELSE IF p \in members \ {n} THEN {CoordinatorMsg(n)} ELSE {}
  BY CallsLemma
<1>6. ASSUME NEW y \in Nodes, CoordinatorMsg(n) \in Range(Calls(n, members)[y])
      PROVE  Highest(n)
  BY <1>4, <1>5, <1>6, MessagesDiffer DEF Waits
<1>7. ASSUME election'[n], ~election[n], NEW p \in Nodes, Running(p), p > n
      PROVE  ElectionMsg(n) \in Range(Calls(n, members)[p])
  <2>1. p \in Higher(n, members)
    BY <1>7 DEF MembersInv, Higher
  <2> QED
    BY <1>5, <1>7, <2>1
<1>8. \A y \in Nodes : Range(Calls(n, members)[y]) \subseteq {ElectionMsg(n), CoordinatorMsg(n)}
  BY <1>5
<1> QED
  BY <1>3, <1>4, <1>6, <1>7, <1>8 DEF Running

\* Every step of a node that runs keeps the types: it changes what it knows, and sends
\* messages of its own to others.
LEMMA HandlerType ==
  ASSUME TypeOK, NEW m \in Nodes, NEW n \in Nodes,
         \/ HandleElection(m, n) \/ HandleElectionOk(m, n)
         \/ LeaderHandlesCoordinator(m, n) \/ ReplicaHandlesCoordinator(m, n)
         \/ HandleConnectionLost(m, n) \/ HandleElectionTimeout(n)
  PROVE  TypeOK'
<1> DEFINE Roles == {"leader", "replica", "down", "crashed", "panicked"}
<1>1. /\ role \in [Nodes -> Roles] /\ leader_addr \in [Nodes -> Nodes]
      /\ cluster \in [Nodes -> SUBSET Nodes] /\ election \in [Nodes -> BOOLEAN]
  BY DEF TypeOK
<1>2. /\ Silent \in [Nodes -> Seq(ElectionMessage)] /\ Silent[n] = <<>>
      /\ \A p \in Nodes : Range(Silent[p]) \subseteq SentBy(n)
  BY SilentLemma
<1>3. ASSUME NEW members \in SUBSET Nodes
      PROVE  /\ Calls(n, members) \in [Nodes -> Seq(ElectionMessage)] /\ Calls(n, members)[n] = <<>>
             /\ \A p \in Nodes : Range(Calls(n, members)[p]) \subseteq SentBy(n)
  <2>1. /\ Calls(n, members) \in [Nodes -> Seq(ElectionMessage)] /\ Calls(n, members)[n] = <<>>
        /\ \A p \in Nodes : Range(Calls(n, members)[p])
             = IF election[n] THEN {}
               ELSE IF Higher(n, members) # {}
                    THEN IF p \in Higher(n, members) THEN {ElectionMsg(n)} ELSE {}
                    ELSE IF p \in members \ {n} THEN {CoordinatorMsg(n)} ELSE {}
    BY CallsLemma
  <2>2. \A p \in Nodes : Range(Calls(n, members)[p]) \subseteq {ElectionMsg(n), CoordinatorMsg(n)}
    BY <2>1
  <2>3. ElectionMsg(n) \in SentBy(n) /\ CoordinatorMsg(n) \in SentBy(n)
    BY DEF SentBy
  <2> QED
    BY <2>1, <2>2, <2>3
<1>4. ASSUME NEW members \in SUBSET Nodes, StartElection(n, members)
      PROVE  role' \in [Nodes -> Roles] /\ election' \in [Nodes -> BOOLEAN]
  BY <1>1, <1>4 DEF StartElection, Waits
<1>5. cluster[n] \in SUBSET Nodes /\ cluster[n] \ {m} \in SUBSET Nodes
  BY <1>1
<1>6. Nobody \in Nodes => FALSE
  BY ScenariosAssumption DEF Nobody
<1>7. ASSUME NEW k \in Nodes \cup {Nobody}, k \in Nodes => chan[k][n] # <<>>,
             NEW out, out \in [Nodes -> Seq(ElectionMessage)], out[n] = <<>>,
             \A p \in Nodes : Range(out[p]) \subseteq SentBy(n),
             Transfer(k, n, out), plan' = plan,
             role' \in [Nodes -> Roles], leader_addr' \in [Nodes -> Nodes],
             cluster' \in [Nodes -> SUBSET Nodes], election' \in [Nodes -> BOOLEAN]
      PROVE  TypeOK'
  BY <1>7, TransferType
<1>8. CASE HandleElection(m, n)
  <2>1. /\ chan[m][n] # <<>> /\ plan' = plan /\ leader_addr' = leader_addr /\ cluster' = cluster
    BY <1>8 DEF HandleElection, Receives
  <2>2. CASE n > m /\ StartElection(n, cluster[n]) /\ Transfer(m, n, Answers(m, n, cluster[n]))
    <3>1. m # n
      BY <2>2, ScenariosAssumption
    <3>2. /\ Answers(m, n, cluster[n]) \in [Nodes -> Seq(ElectionMessage)]
          /\ Answers(m, n, cluster[n])[n] = <<>>
          /\ \A p \in Nodes : \A e : e \in Range(Answers(m, n, cluster[n])[p]) <=>
               e \in Range(Calls(n, cluster[n])[p]) \/ (p = m /\ e = ElectionOkMsg(n))
      BY <1>5, <3>1, AnswerLemma
    <3>3. ElectionOkMsg(n) \in SentBy(n)
      BY DEF SentBy
    <3>4. \A p \in Nodes : Range(Answers(m, n, cluster[n])[p]) \subseteq SentBy(n)
      BY <1>3, <1>5, <3>2, <3>3
    <3> QED
      BY <1>1, <1>4, <1>5, <1>7, <2>1, <2>2, <3>2, <3>4
  <2>3. CASE Transfer(m, n, Silent) /\ role' = role /\ election' = election
    BY <1>1, <1>2, <1>7, <2>1, <2>3
  <2> QED
    BY <1>8, <2>2, <2>3 DEF HandleElection, Answers
<1>9. CASE \/ HandleElectionOk(m, n) \/ LeaderHandlesCoordinator(m, n)
           \/ ReplicaHandlesCoordinator(m, n)
  <2>1. /\ chan[m][n] # <<>> /\ plan' = plan /\ cluster' = cluster
        /\ leader_addr' \in {leader_addr, [leader_addr EXCEPT ![n] = m]}
        /\ role' \in {role, [role EXCEPT ![n] = "replica"]}
        /\ election' = [election EXCEPT ![n] = FALSE] /\ Transfer(m, n, Silent)
    BY <1>9 DEF HandleElectionOk, LeaderHandlesCoordinator, ReplicaHandlesCoordinator, Receives
  <2>2. /\ leader_addr' \in [Nodes -> Nodes] /\ role' \in [Nodes -> Roles]
        /\ election' \in [Nodes -> BOOLEAN] /\ cluster' \in [Nodes -> SUBSET Nodes]
    BY <1>1, <2>1
  <2> QED
    BY <1>2, <1>7, <2>1, <2>2
<1>10. CASE HandleConnectionLost(m, n)
  <2>1. /\ chan[m][n] # <<>> /\ plan' = plan /\ leader_addr' = leader_addr
        /\ cluster' = [cluster EXCEPT ![n] = @ \ {m}]
    BY <1>10 DEF HandleConnectionLost, Receives
  <2>2. cluster' \in [Nodes -> SUBSET Nodes] /\ leader_addr' \in [Nodes -> Nodes]
    BY <1>1, <2>1
  <2>3. CASE StartElection(n, cluster[n] \ {m}) /\ Transfer(m, n, Calls(n, cluster[n] \ {m}))
    BY <1>3, <1>4, <1>5, <1>7, <2>1, <2>2, <2>3
  <2>4. CASE Transfer(m, n, Silent) /\ role' = role /\ election' = election
    BY <1>1, <1>2, <1>7, <2>1, <2>2, <2>4
  <2> QED
    BY <1>10, <2>3, <2>4 DEF HandleConnectionLost
<1>11. CASE HandleElectionTimeout(n)
  <2>1. /\ plan' = plan /\ leader_addr' = leader_addr /\ cluster' = cluster
        /\ election' = [election EXCEPT ![n] = FALSE] /\ role' = [role EXCEPT ![n] = "leader"]
        /\ Transfer(Nobody, n, Announce(n, cluster[n]))
    BY <1>11 DEF HandleElectionTimeout
  <2>2. /\ leader_addr' \in [Nodes -> Nodes] /\ role' \in [Nodes -> Roles]
        /\ election' \in [Nodes -> BOOLEAN] /\ cluster' \in [Nodes -> SUBSET Nodes]
    BY <1>1, <2>1
  <2>3. /\ Announce(n, cluster[n]) \in [Nodes -> Seq(ElectionMessage)]
        /\ Announce(n, cluster[n])[n] = <<>>
        /\ \A p \in Nodes : Range(Announce(n, cluster[n])[p]) \subseteq {CoordinatorMsg(n)}
    BY <1>5, AnnounceLemma
  <2>4. \A p \in Nodes : Range(Announce(n, cluster[n])[p]) \subseteq SentBy(n)
    BY <2>3 DEF SentBy
  <2> QED
    BY <1>6, <1>7, <2>1, <2>2, <2>3, <2>4
<1> QED
  BY <1>8, <1>9, <1>10, <1>11

\* A handler that sends nothing and promotes nobody keeps the invariant, but for
\* the first leader: it takes no call that is to be answered, and stops the timer
\* when it takes an answer.
LEMMA SilentStep ==
  ASSUME TypeOK, MembersInv, AnswersInv, NEW m \in Nodes, NEW n \in Nodes,
         chan[m][n] # <<>>, Transfer(m, n, Silent), plan' = plan,
         \A x \in Nodes : Running(x)' <=> Running(x),
         \A x \in Nodes : role'[x] \in {"leader", "panicked"} => role'[x] = role[x],
         \A x, y \in Nodes : y \in cluster[x] /\ Running(y) => y \in cluster'[x],
         \A x \in Nodes \ {n} : election'[x] = election[x],
         election'[n] => election[n] /\ Head(chan[m][n]) # ElectionOkMsg(m),
         Head(chan[m][n]) = ElectionMsg(m) => ~(n > m)
  PROVE  /\ MembersInv' /\ AnswersInv'
         /\ HighestLeads => HighestLeads'
         /\ HeardByLower => HeardByLower'
         /\ NoPanic => NoPanic'
<1>1. /\ Silent \in [Nodes -> Seq(ElectionMessage)]
      /\ \A p \in Nodes : Silent[p] = <<>> /\ Range(Silent[p]) = {}
  BY SilentLemma
<1>2. MembersInv'
  BY <1>1, MembersStep
<1>3. AnswersInv'
  BY <1>1, AnswersStep
<1>4. (HighestLeads => HighestLeads') /\ (HeardByLower => HeardByLower')
  BY <1>1, LeadsStep
<1>5. crossed' = crossed
  BY <1>1, TransferLemma
<1>6. NoPanic => NoPanic'
  BY <1>5 DEF NoPanic
<1> QED
  BY <1>2, <1>3, <1>4, <1>6

\* handle_election
LEMMA HandleElectionStep ==
  ASSUME EInv, ~crossed, TypeOK', NEW m \in Nodes, NEW n \in Nodes, HandleElection(m, n)
  PROVE  EInv'
<1>1. /\ TypeOK /\ MembersInv /\ AnswersInv /\ Running(n) /\ chan[m][n] # <<>>
      /\ Head(chan[m][n]) = ElectionMsg(m)
      /\ plan.timely => (Calm \/ HighestLeads) /\ HeardByLower /\ NoPanic
      /\ plan' = plan /\ leader_addr' = leader_addr /\ cluster' = cluster
  BY HeadLemma DEF EInv, HandleElection, Receives
<1>2. /\ leader_addr' \in [Nodes -> Nodes] /\ cluster' \in [Nodes -> SUBSET Nodes]
      /\ cluster[n] \in SUBSET Nodes /\ m \in Nat /\ n \in Nat
  BY <1>1, ScenariosAssumption DEF TypeOK
<1>3. ~Calm
  BY <1>1, CalmHead, MessagesDiffer DEF SentBy
<1>4. CASE n > m
  <2> DEFINE out == Answers(m, n, cluster[n])
  <2>1. StartElection(n, cluster[n]) /\ Transfer(m, n, out)
    BY <1>4 DEF HandleElection, Answers
  <2>2. m # n /\ TypeOK /\ cluster[n] \in SUBSET Nodes
    BY <1>1, <1>2, <1>4
  <2>3. /\ out \in [Nodes -> Seq(ElectionMessage)] /\ out[n] = <<>>
        /\ \A p \in Nodes : \A e : e \in Range(out[p]) <=>
             e \in Range(Calls(n, cluster[n])[p]) \/ (p = m /\ e = ElectionOkMsg(n))
    BY <2>2, AnswerLemma
  <2> HIDE DEF out
  <2>4. /\ role' \in [Nodes -> {"leader", "replica", "down", "crashed", "panicked"}]
        /\ election' \in [Nodes -> BOOLEAN]
        /\ \A x \in Nodes : Running(x)' <=> Running(x)
        /\ \A x \in Nodes \ {n} : election'[x] = election[x] /\ role'[x] = role[x]
        /\ \A x \in Nodes : role'[x] = "leader" => role[x] = "leader" \/ Highest(x)
        /\ \A x \in Nodes : role'[x] = "panicked" => role[x] = "panicked"
        /\ \A y \in Nodes : CoordinatorMsg(n) \in Range(Calls(n, cluster[n])[y]) => Highest(n)
        /\ \A y \in Nodes :
             Range(Calls(n, cluster[n])[y]) \subseteq {ElectionMsg(n), CoordinatorMsg(n)}
        /\ election'[n] => \/ election[n]
                           \/ \A p \in Nodes : Running(p) /\ p > n =>
                                ElectionMsg(n) \in Range(Calls(n, cluster[n])[p])
    BY <1>1, <1>2, <2>1, StartLemma
  <2>5. ASSUME NEW y \in Nodes PROVE Range(out[y]) \subseteq SentBy(n)
    <3>1. Range(Calls(n, cluster[n])[y]) \subseteq SentBy(n) /\ ElectionOkMsg(n) \in SentBy(n)
      BY <2>4 DEF SentBy
    <3> QED
      BY <2>3, <3>1
  <2>6. crossed' = crossed
    BY <1>1, <2>1, <2>3, TransferLemma
  <2>7. MembersInv'
    BY <1>1, <2>1, <2>3, <2>4, <2>5, MembersStep
  <2>8. AnswersInv'
    <3>1. ElectionOkMsg(n) \in Range(out[m])
      BY <2>3
    <3>2. Head(chan[m][n]) # ElectionOkMsg(m)
      BY <1>1, MessagesDiffer
    <3>3. election'[n] => \/ election[n]
                          \/ \A p \in Nodes : Running(p) /\ p > n =>
                               ElectionMsg(n) \in Range(out[p])
      BY <2>3, <2>4
    <3> QED
      BY <1>1, <2>1, <2>3, <2>4, <3>1, <3>2, <3>3, AnswersStep
  <2>9. (HighestLeads => HighestLeads') /\ (HeardByLower => HeardByLower')
    <3>1. ASSUME NEW y \in Nodes, CoordinatorMsg(n) \in Range(out[y]) PROVE Highest(n)
      <4>1. CoordinatorMsg(n) # ElectionOkMsg(n)
        BY MessagesDiffer
      <4>2. CoordinatorMsg(n) \in Range(Calls(n, cluster[n])[y])
        BY <2>3, <3>1, <4>1
      <4> QED
        BY <2>4, <4>2
    <3> QED
      BY <1>1, <2>1, <2>3, <2>4, <3>1, LeadsStep
  <2>10. NoPanic => NoPanic'
    BY <1>1, <2>4, <2>6 DEF NoPanic
  <2> QED
    BY <1>1, <1>3, <2>6, <2>7, <2>8, <2>9, <2>10 DEF EInv
<1>5. CASE ~(n > m)
  <2>1. Transfer(m, n, Silent) /\ role' = role /\ election' = election
    BY <1>5 DEF HandleElection
  <2>2. Head(chan[m][n]) # ElectionOkMsg(m)
    BY <1>1, MessagesDiffer
  <2>3. /\ role' \in [Nodes -> {"leader", "replica", "down", "crashed", "panicked"}]
        /\ election' \in [Nodes -> BOOLEAN]
        /\ \A x \in Nodes : Running(x)' <=> Running(x)
    BY <1>1, <2>1 DEF TypeOK, Running
  <2> QED
    BY <1>1, <1>2, <1>3, <1>5, <2>1, <2>2, <2>3, SilentStep DEF EInv
<1> QED
  BY <1>4, <1>5

\* handle_election_ok
LEMMA HandleElectionOkStep ==
  ASSUME EInv, ~crossed, TypeOK', NEW m \in Nodes, NEW n \in Nodes, HandleElectionOk(m, n)
  PROVE  EInv'
<1>1. /\ TypeOK /\ MembersInv /\ AnswersInv /\ chan[m][n] # <<>>
      /\ Head(chan[m][n]) = ElectionOkMsg(m)
      /\ plan.timely => (Calm \/ HighestLeads) /\ HeardByLower /\ NoPanic
  BY HeadLemma DEF EInv, HandleElectionOk, Receives
<1>2. /\ plan' = plan /\ leader_addr' = leader_addr /\ cluster' = cluster /\ role' = role
      /\ election' = [election EXCEPT ![n] = FALSE] /\ Transfer(m, n, Silent)
  BY DEF HandleElectionOk
<1>3. ~Calm
  BY <1>1, CalmHead, MessagesDiffer DEF SentBy
<1>4. Head(chan[m][n]) # ElectionMsg(m)
  BY <1>1, MessagesDiffer
<1>5. /\ role' \in [Nodes -> {"leader", "replica", "down", "crashed", "panicked"}]
      /\ leader_addr' \in [Nodes -> Nodes] /\ cluster' \in [Nodes -> SUBSET Nodes]
      /\ election' \in [Nodes -> BOOLEAN] /\ ~election'[n]
      /\ \A x \in Nodes \ {n} : election'[x] = election[x]
      /\ \A x \in Nodes : Running(x)' <=> Running(x)
  BY <1>1, <1>2 DEF TypeOK, Running
<1> QED
  BY <1>1, <1>2, <1>3, <1>4, <1>5, SilentStep DEF EInv

\* handle_coordinator, of a leader and of a replica
LEMMA HandleCoordinatorStep ==
  ASSUME EInv, ~crossed, TypeOK', NEW m \in Nodes, NEW n \in Nodes,
         LeaderHandlesCoordinator(m, n) \/ ReplicaHandlesCoordinator(m, n)
  PROVE  EInv'
<1>1. /\ TypeOK /\ MembersInv /\ AnswersInv /\ chan[m][n] # <<>> /\ Running(n)
      /\ Head(chan[m][n]) = CoordinatorMsg(m)
      /\ plan.timely => (Calm \/ HighestLeads) /\ HeardByLower /\ NoPanic
  BY HeadLemma DEF EInv, LeaderHandlesCoordinator, ReplicaHandlesCoordinator, Receives
<1>2. /\ plan' = plan /\ cluster' = cluster
      /\ leader_addr' \in {leader_addr, [leader_addr EXCEPT ![n] = m]}
      /\ role' \in {role, [role EXCEPT ![n] = "replica"]}
      /\ election' = [election EXCEPT ![n] = FALSE] /\ Transfer(m, n, Silent)
  BY DEF LeaderHandlesCoordinator, ReplicaHandlesCoordinator
<1>3. ~Calm
  BY <1>1, CalmHead, MessagesDiffer DEF SentBy
<1>4. Head(chan[m][n]) # ElectionMsg(m) /\ Head(chan[m][n]) # ElectionOkMsg(m)
  BY <1>1, MessagesDiffer
<1>5. /\ role' \in [Nodes -> {"leader", "replica", "down", "crashed", "panicked"}]
      /\ leader_addr' \in [Nodes -> Nodes] /\ cluster' \in [Nodes -> SUBSET Nodes]
      /\ election' \in [Nodes -> BOOLEAN] /\ ~election'[n]
      /\ \A x \in Nodes \ {n} : election'[x] = election[x]
  <2>1. /\ role \in [Nodes -> {"leader", "replica", "down", "crashed", "panicked"}]
        /\ leader_addr \in [Nodes -> Nodes] /\ cluster \in [Nodes -> SUBSET Nodes]
        /\ election \in [Nodes -> BOOLEAN]
    BY <1>1 DEF TypeOK
  <2>2. leader_addr' \in [Nodes -> Nodes]
    BY <1>2, <2>1
  <2>3. role' \in [Nodes -> {"leader", "replica", "down", "crashed", "panicked"}]
    BY <1>2, <2>1
  <2> QED
    BY <1>2, <2>1, <2>2, <2>3
<1>6. /\ \A x \in Nodes : Running(x)' <=> Running(x)
      /\ \A x \in Nodes : role'[x] \in {"leader", "panicked"} => role'[x] = role[x]
  <2>1. role \in [Nodes -> {"leader", "replica", "down", "crashed", "panicked"}]
    BY <1>1 DEF TypeOK
  <2>2. role' = role \/ role' = [role EXCEPT ![n] = "replica"]
    BY <1>2
  <2>3. role[n] \in {"leader", "replica"}
    BY <1>1 DEF Running
  <2>4. \A x \in Nodes : /\ role'[x] \in {"leader", "replica"} <=> role[x] \in {"leader", "replica"}
                         /\ role'[x] \in {"leader", "panicked"} => role'[x] = role[x]
    BY <2>1, <2>2, <2>3
  <2> QED
    BY <2>4 DEF Running
<1> QED
  BY <1>1, <1>2, <1>3, <1>4, <1>5, <1>6, SilentStep DEF EInv

\* handle_connection_lost_with
LEMMA HandleConnectionLostStep ==
  ASSUME EInv, ~crossed, TypeOK', NEW m \in Nodes, NEW n \in Nodes, HandleConnectionLost(m, n)
  PROVE  EInv'
<1>1. /\ TypeOK /\ MembersInv /\ AnswersInv /\ chan[m][n] # <<>> /\ Running(n)
      /\ Head(chan[m][n]) = LostMsg /\ LostMsg \in InTransit(m, n)
      /\ plan.timely => (Calm \/ HighestLeads) /\ HeardByLower /\ NoPanic
  BY HeadLemma DEF EInv, HandleConnectionLost, Receives
<1>2. plan' = plan /\ leader_addr' = leader_addr /\ cluster' = [cluster EXCEPT ![n] = @ \ {m}]
  BY DEF HandleConnectionLost
<1>3. ~Running(m)
  BY <1>1 DEF MembersInv
<1>4. Head(chan[m][n]) # ElectionMsg(m) /\ Head(chan[m][n]) # ElectionOkMsg(m)
  BY <1>1, MessagesDiffer DEF SentBy
<1> DEFINE members == cluster[n] \ {m}
<1>5. /\ leader_addr' \in [Nodes -> Nodes] /\ cluster' \in [Nodes -> SUBSET Nodes]
      /\ members \in SUBSET Nodes
      /\ \A x, y \in Nodes : y \in cluster[x] /\ Running(y) => y \in cluster'[x]
      /\ \A p \in cluster[n] : Running(p) => p \in members
  BY <1>1, <1>2, <1>3 DEF TypeOK
<1> HIDE DEF members
<1>6. CASE /\ role[n] = "replica" /\ leader_addr[n] = m
           /\ StartElection(n, members) /\ Transfer(m, n, Calls(n, members))
  <2>1. /\ Calls(n, members) \in [Nodes -> Seq(ElectionMessage)] /\ Calls(n, members)[n] = <<>>
    BY <1>1, <1>5, CallsLemma
  <2>2. /\ role' \in [Nodes -> {"leader", "replica", "down", "crashed", "panicked"}]
        /\ election' \in [Nodes -> BOOLEAN]
        /\ \A x \in Nodes : Running(x)' <=> Running(x)
        /\ \A x \in Nodes \ {n} : election'[x] = election[x] /\ role'[x] = role[x]
        /\ \A x \in Nodes : role'[x] = "leader" => role[x] = "leader" \/ Highest(x)
        /\ \A x \in Nodes : role'[x] = "panicked" => role[x] = "panicked"
        /\ \A y \in Nodes : CoordinatorMsg(n) \in Range(Calls(n, members)[y]) => Highest(n)
        /\ \A y \in Nodes : Range(Calls(n, members)[y]) \subseteq {ElectionMsg(n), CoordinatorMsg(n)}
        /\ election'[n] => \/ election[n]
                           \/ \A p \in Nodes : Running(p) /\ p > n =>
                                ElectionMsg(n) \in Range(Calls(n, members)[p])
    BY <1>1, <1>5, <1>6, StartLemma
  <2>3. \A y \in Nodes : Range(Calls(n, members)[y]) \subseteq SentBy(n)
    BY <2>2 DEF SentBy
  <2>4. crossed' = crossed
    BY <1>1, <1>6, <2>1, TransferLemma
  <2>5. MembersInv'
    BY <1>1, <1>5, <1>6, <2>1, <2>2, <2>3, MembersStep
  <2>6. AnswersInv'
    BY <1>1, <1>4, <1>6, <2>1, <2>2, AnswersStep
  <2>7. (HighestLeads => HighestLeads') /\ (HeardByLower => HeardByLower')
    BY <1>1, <1>6, <2>1, <2>2, LeadsStep
  <2>8. NoPanic => NoPanic'
    BY <1>2, <2>2, <2>4 DEF NoPanic
  <2>9. ~Calm
    BY <1>3, <1>6 DEF Calm, Running
  <2> QED
    BY <1>1, <1>2, <2>4, <2>5, <2>6, <2>7, <2>8, <2>9 DEF EInv
<1>7. CASE Transfer(m, n, Silent) /\ role' = role /\ election' = election
  <2>1. /\ role' \in [Nodes -> {"leader", "replica", "down", "crashed", "panicked"}]
        /\ election' \in [Nodes -> BOOLEAN]
        /\ \A x \in Nodes : Running(x)' <=> Running(x)
    BY <1>1, <1>7 DEF TypeOK, Running
  <2>2. /\ TypeOK' /\ MembersInv' /\ AnswersInv'
        /\ HighestLeads => HighestLeads'
        /\ HeardByLower => HeardByLower'
        /\ NoPanic => NoPanic'
    BY <1>1, <1>2, <1>4, <1>5, <1>7, <2>1, SilentStep
  <2>3. ASSUME NEW x \in Nodes, NEW y \in Nodes
        PROVE  InTransit(x, y)' \subseteq InTransit(x, y)
    BY <1>1, <1>7, SilentLemma, TransferLemma
  <2>4. Calm => Calm'
    BY <1>2, <1>7, <2>3 DEF Calm
  <2> QED
    BY <1>1, <1>2, <2>2, <2>4 DEF EInv
<1> QED
  BY <1>6, <1>7 DEF HandleConnectionLost, members

\* handle_election_timeout
LEMMA HandleElectionTimeoutStep ==
  ASSUME EInv, ~crossed, TypeOK', NEW n \in Nodes, HandleElectionTimeout(n)
  PROVE  EInv'
<1>1. /\ TypeOK /\ MembersInv /\ AnswersInv /\ Running(n) /\ election[n]
      /\ plan.timely => (Calm \/ HighestLeads) /\ HeardByLower /\ NoPanic
      /\ plan.timely => ~AnswerPending(n)
  BY DEF EInv, HandleElectionTimeout
<1>2. /\ plan' = plan /\ leader_addr' = leader_addr /\ cluster' = cluster
      /\ election' = [election EXCEPT ![n] = FALSE] /\ role' = [role EXCEPT ![n] = "leader"]
      /\ Transfer(Nobody, n, Announce(n, cluster[n]))
  BY DEF HandleElectionTimeout
<1>3. Nobody \notin Nodes /\ Nodes \subseteq Nat
  BY ScenariosAssumption DEF Nobody
<1>4. /\ role' \in [Nodes -> {"leader", "replica", "down", "crashed", "panicked"}]
      /\ leader_addr' \in [Nodes -> Nodes] /\ cluster' \in [Nodes -> SUBSET Nodes]
      /\ cluster[n] \in SUBSET Nodes
      /\ election' \in [Nodes -> BOOLEAN] /\ ~election'[n]
      /\ \A x \in Nodes \ {n} : election'[x] = election[x] /\ role'[x] = role[x]
      /\ role'[n] = "leader"
      /\ \A x \in Nodes : Running(x)' <=> Running(x)
  BY <1>1, <1>2 DEF TypeOK, Running
<1>5. /\ Announce(n, cluster[n]) \in [Nodes -> Seq(ElectionMessage)]
      /\ Announce(n, cluster[n])[n] = <<>>
      /\ \A p \in Nodes : Range(Announce(n, cluster[n])[p]) \subseteq {CoordinatorMsg(n)}
  BY <1>4, AnnounceLemma
<1>6. \A p \in Nodes : Range(Announce(n, cluster[n])[p]) \subseteq SentBy(n)
  BY <1>5 DEF SentBy
<1>7. crossed' = crossed
  BY <1>1, <1>2, <1>3, <1>5, TransferLemma
<1>8. MembersInv'
  BY <1>1, <1>2, <1>3, <1>4, <1>5, <1>6, MembersStep
<1>9. AnswersInv'
  BY <1>1, <1>2, <1>3, <1>4, <1>5, AnswersStep
<1>10. plan.timely => Highest(n)
  <2> SUFFICES ASSUME plan.timely, NEW p \in Nodes, Running(p), ~(p <= n) PROVE FALSE
    BY DEF Highest
  <2>1. p > n
    BY <1>3
  <2>2. ElectionMsg(n) \in InTransit(n, p) \/ ElectionOkMsg(p) \in InTransit(p, n)
    BY <1>1, <2>1 DEF AnswersInv
  <2> QED
    BY <1>1, <2>2 DEF AnswerPending, InTransit, Range
<1>11. ~Calm
  BY <1>1 DEF Calm
<1>12. plan.timely => (HighestLeads => HighestLeads') /\ (HeardByLower => HeardByLower')
  <2> SUFFICES ASSUME plan.timely
               PROVE  (HighestLeads => HighestLeads') /\ (HeardByLower => HeardByLower')
    OBVIOUS
  <2> DEFINE out == Announce(n, cluster[n])
  <2>1. /\ out \in [Nodes -> Seq(ElectionMessage)] /\ out[n] = <<>>
        /\ Transfer(Nobody, n, out)
    BY <1>2, <1>5
  <2>2. \A x \in Nodes : role'[x] = "leader" => role[x] = "leader" \/ Highest(x)
    BY <1>4, <1>10
  <2>3. \A y \in Nodes : CoordinatorMsg(n) \in Range(out[y]) => Highest(n)
    BY <1>10
  <2>4. \A x \in Nodes : Running(x)' <=> Running(x)
    BY <1>4
  <2> HIDE DEF out
  <2> QED
    BY <1>1, <1>3, <2>1, <2>2, <2>3, <2>4, LeadsStep
<1>13. NoPanic => NoPanic'
  BY <1>2, <1>4, <1>7 DEF NoPanic
<1> QED
  BY <1>1, <1>2, <1>7, <1>8, <1>9, <1>11, <1>12, <1>13 DEF EInv

\* A node that stops: it crashes, or panics where answers may come too late
LEMMA StopsStep ==
  ASSUME EInv, ~crossed, NEW n \in Nodes, NEW how \in {"crashed", "panicked"}, Stops(n, how),
         plan.timely => how # "panicked"
  PROVE  EInv'
<1>1. /\ TypeOK /\ MembersInv /\ AnswersInv
      /\ plan.timely => (Calm \/ HighestLeads) /\ HeardByLower /\ NoPanic
  BY DEF EInv
<1>2. /\ TypeOK'
      /\ ~Running(n)' /\ ~election'[n]
      /\ \A x \in Nodes \ {n} : role'[x] = role[x] /\ election'[x] = election[x]
      /\ \A x, y \in Nodes : x # n /\ y # n => InTransit(x, y)' = InTransit(x, y)
      /\ \A x, y \in Nodes : InTransit(x, y)' \subseteq InTransit(x, y) \cup {LostMsg}
      /\ \A x \in Nodes : InTransit(x, n)' = {}
      /\ \A x, y \in Nodes : <<x, y>> \in stale' => y = n \/ <<x, y>> \in stale
      /\ leader_addr' = leader_addr /\ cluster' = cluster /\ plan' = plan
      /\ crossed' = crossed
  BY <1>1, StopsLemma
<1>3. \A x \in Nodes : Running(x)' <=> Running(x) /\ x # n
  BY <1>2 DEF Running
<1>4. MembersInv'
  <2>1. ASSUME NEW x \in Nodes, NEW y \in Nodes, LostMsg \in InTransit(x, y)', Running(x)'
        PROVE  FALSE
    <3>1. x # n /\ Running(x)
      BY <1>3, <2>1
    <3>2. LostMsg \notin InTransit(x, y)
      BY <1>1, <3>1 DEF MembersInv
    <3>3. CASE y = n
      BY <1>2, <2>1, <3>3
    <3>4. CASE y # n
      BY <1>2, <2>1, <3>1, <3>2, <3>4
    <3> QED
      BY <3>3, <3>4
  <2> QED
    BY <1>1, <1>2, <1>3, <2>1 DEF MembersInv
<1>5. AnswersInv'
  BY <1>1, <1>2, <1>3 DEF AnswersInv
<1>6. HighestLeads => HighestLeads'
  BY <1>2, <1>3 DEF HighestLeads, Highest, Running
<1>7. HeardByLower => HeardByLower'
  BY <1>2, <1>3, MessagesDiffer DEF HeardByLower, SentBy
<1>8. plan.timely => (NoPanic => NoPanic')
  <2>1. plan.timely => role'[n] # "panicked"
    BY <1>1 DEF Stops, TypeOK
  <2> QED
    BY <1>2, <2>1 DEF NoPanic
<1>9. Calm => Calm' \/ HighestLeads'
  <2> SUFFICES ASSUME Calm PROVE Calm' \/ HighestLeads'
    OBVIOUS
  <2>1. PICK l \in Nodes :
          /\ role[l] = "leader"
          /\ \A x \in Nodes : /\ leader_addr[x] = l /\ ~election[x]
                              /\ role[x] = "leader" => x = l
          /\ \A x, y \in Nodes : InTransit(x, y) \subseteq {LostMsg}
    BY DEF Calm
  <2>2. role'[n] # "leader"
    BY <1>2 DEF Running
  <2>3. CASE n = l
    BY <1>2, <2>1, <2>2, <2>3 DEF HighestLeads
  <2>4. CASE n # l
    <3>1. role'[l] = "leader"
      BY <1>2, <2>1, <2>4
    <3>2. \A x \in Nodes : /\ leader_addr'[x] = l /\ ~election'[x]
                           /\ role'[x] = "leader" => x = l
      BY <1>2, <2>1, <2>2
    <3>3. \A x, y \in Nodes : InTransit(x, y)' \subseteq {LostMsg}
      BY <1>2, <2>1
    <3> QED
      BY <3>1, <3>2, <3>3 DEF Calm
  <2> QED
    BY <2>3, <2>4
<1> QED
  BY <1>1, <1>2, <1>4, <1>5, <1>6, <1>7, <1>8, <1>9 DEF EInv

\* An acceptor that drops no handler in use: what was on the connection is in the channel.
LEMMA AcceptStep ==
  ASSUME EInv, ~crossed, TypeOK', NEW n \in Nodes, NEW m \in Nodes, Accept(n, m)
  PROVE  EInv'
<1>1. /\ TypeOK /\ MembersInv /\ AnswersInv
      /\ plan.timely => (Calm \/ HighestLeads) /\ HeardByLower /\ NoPanic
  BY DEF EInv
<1>2. /\ chan' = [chan EXCEPT ![m][n] = @ \o backlog[m][n]]
      /\ backlog' = [backlog EXCEPT ![m][n] = <<>>]
      /\ stale' \subseteq stale
      /\ UNCHANGED <<plan, role, leader_addr, cluster, election, crossed>>
  BY DEF Accept
<1>3. ASSUME NEW x \in Nodes, NEW y \in Nodes
      PROVE  InTransit(x, y)' = InTransit(x, y)
  <2>1. /\ chan \in [Nodes -> [Nodes -> Seq(ElectionMessage)]]
        /\ backlog \in [Nodes -> [Nodes -> Seq(ElectionMessage)]]
    BY DEF TypeOK, EInv
  <2>2. CASE x = m /\ y = n
    <3>1. chan'[x][y] = chan[x][y] \o backlog[x][y] /\ backlog'[x][y] = <<>>
      BY <1>2, <2>1, <2>2
    <3>2. Range(chan[x][y] \o backlog[x][y]) = Range(chan[x][y]) \cup Range(backlog[x][y])
      <4>1. chan[x][y] \in Seq(ElectionMessage) /\ backlog[x][y] \in Seq(ElectionMessage)
        BY <2>1
      <4> QED
        BY <4>1, RangeConcat
    <3>3. Range(<<>>) = {}
      BY DEF Range
    <3>4. /\ InTransit(x, y)' = Range(chan'[x][y]) \cup Range(backlog'[x][y])
          /\ InTransit(x, y) = Range(chan[x][y]) \cup Range(backlog[x][y])
      BY DEF InTransit
    <3> QED
      BY <3>1, <3>2, <3>3, <3>4
  <2>3. CASE ~(x = m /\ y = n)
    <3>1. chan'[x][y] = chan[x][y] /\ backlog'[x][y] = backlog[x][y]
      BY <1>2, <2>1, <2>3
    <3> QED
      BY <3>1 DEF InTransit
  <2> QED
    BY <2>2, <2>3
<1>4. \A x \in Nodes : Running(x)' <=> Running(x)
  BY <1>2 DEF Running
<1>5. MembersInv' /\ AnswersInv'
  BY <1>1, <1>2, <1>3, <1>4 DEF MembersInv, AnswersInv
<1>6. Calm => Calm'
  BY <1>2, <1>3 DEF Calm
<1>7. HighestLeads => HighestLeads'
  BY <1>2, <1>4 DEF HighestLeads, Highest
<1>8. (HeardByLower => HeardByLower') /\ (NoPanic => NoPanic')
  <2>1. \A x \in Nodes : CoordinatorMsg(x)' = CoordinatorMsg(x)
    BY DEF CoordinatorMsg
  <2> QED
    BY <1>2, <1>3, <1>4, <2>1 DEF HeardByLower, NoPanic
<1> QED
  BY <1>1, <1>2, <1>5, <1>6, <1>7, <1>8 DEF EInv

-----------------------------------------------------------------------------
(* The theorems *)

\* The invariant holds at first: nothing is in transit, the members know each other
\* and one of them leads.
LEMMA EInit ==
  ASSUME Init
  PROVE  EInv
<1>1. PICK l \in plan.first :
        /\ role = [n \in Nodes |-> IF n = l THEN "leader"
                                  ELSE IF n \in plan.members THEN "replica" ELSE "down"]
        /\ leader_addr = [n \in Nodes |-> l]
        /\ conn = {{l, n} : n \in plan.members \ {l}}
  BY DEF Init
<1>2. /\ plan \in Scenarios
      /\ cluster = [n \in Nodes |-> IF n \in plan.members THEN plan.members ELSE {}]
      /\ election = [n \in Nodes |-> FALSE]
      /\ chan = [m \in Nodes |-> [n \in Nodes |-> <<>>]]
      /\ stale = {} /\ dials = {} /\ crossed = FALSE
      /\ backlog = [m \in Nodes |-> [n \in Nodes |-> <<>>]]
  BY DEF Init
<1>3. plan.members \in SUBSET Nodes /\ l \in Nodes /\ l \in plan.members
  BY <1>1, <1>2, ScenariosAssumption
<1>4. \A m, n \in Nodes : chan[m][n] = <<>> /\ backlog[m][n] = <<>> /\ InTransit(m, n) = {}
  BY <1>2 DEF InTransit, Range
<1>5. TypeOK
  <2>1. \A c \in conn : \E m, n \in Nodes : m # n /\ c = {m, n}
    BY <1>1, <1>3
  <2>2. /\ chan \in [Nodes -> [Nodes -> Seq(ElectionMessage)]]
        /\ backlog \in [Nodes -> [Nodes -> Seq(ElectionMessage)]]
    BY <1>2
  <2>3. /\ role \in [Nodes -> {"leader", "replica", "down", "crashed", "panicked"}]
        /\ leader_addr \in [Nodes -> Nodes] /\ cluster \in [Nodes -> SUBSET Nodes]
        /\ election \in [Nodes -> BOOLEAN] /\ stale \subseteq Nodes \X Nodes
    BY <1>1, <1>2, <1>3
  <2>4. \A m, n \in Nodes : /\ \A i \in 1..Len(chan[m][n]) : FALSE
                             /\ \A j \in 1..Len(backlog[m][n]) : FALSE
    BY <1>4
  <2> QED
    BY <1>2, <1>4, <2>1, <2>2, <2>3, <2>4 DEF TypeOK
<1>6. \A n \in Nodes : Running(n) <=> n \in plan.members
  BY <1>1, <1>3 DEF Running
<1>7. MembersInv
  BY <1>2, <1>3, <1>4, <1>6 DEF MembersInv
<1>8. AnswersInv
  BY <1>2 DEF AnswersInv
<1>9. Calm
  BY <1>1, <1>2, <1>3, <1>4 DEF Calm
<1>10. HeardByLower /\ NoPanic
  BY <1>1, <1>4 DEF HeardByLower, NoPanic
<1> QED
  BY <1>5, <1>7, <1>8, <1>9, <1>10 DEF EInv

\* Every step keeps the invariant.
LEMMA ENext ==
  ASSUME EInv, [Next]_vars
  PROVE  EInv'
<1>1. TypeOK
  BY DEF EInv
<1>2. ASSUME NEW m \in Nodes, NEW n \in Nodes, Panic(m, n)
      PROVE  EInv'
  <2>1. /\ Stops(n, "panicked") /\ m < n /\ Running(n)
        /\ CoordinatorMsg(m) \in InTransit(m, n)
    BY <1>1, <1>2, HeadLemma DEF Panic, Receives
  <2>2. TypeOK' /\ crossed' = crossed
    BY <1>1, <2>1, StopsLemma
  <2>3. CASE crossed
    BY <2>2, <2>3 DEF EInv
  <2>4. CASE ~crossed
    <3>1. ~plan.timely
      <4>1. m \in Nat /\ n \in Nat
        BY ScenariosAssumption
      <4> QED
        BY <2>1, <2>4, <4>1 DEF EInv, HeardByLower
    <3> QED
      BY <2>1, <2>4, <3>1, StopsStep
  <2> QED
    BY <2>3, <2>4
<1>3. ASSUME NEW n \in Nodes, Crash(n)
      PROVE  EInv'
  <2>1. Stops(n, "crashed")
    BY <1>3 DEF Crash
  <2>2. TypeOK' /\ crossed' = crossed
    BY <1>1, <2>1, StopsLemma
  <2>3. CASE crossed
    BY <2>2, <2>3 DEF EInv
  <2>4. CASE ~crossed
    BY <2>1, <2>4, StopsStep
  <2> QED
    BY <2>3, <2>4
<1>4. ASSUME NEW m \in Nodes, NEW n \in Nodes, Accepts(n, m)
      PROVE  EInv'
  <2>1. TypeOK'
    BY <1>1, <1>4, AcceptType
  <2>2. CASE crossed'
    BY <2>1, <2>2 DEF EInv
  <2>3. CASE ~crossed'
    <3>1. Accept(n, m)
      BY <1>4, <2>3 DEF Accepts, AcceptInstead, AcceptEnded
    <3>2. ~crossed
      BY <2>3, <3>1 DEF Accept
    <3> QED
      BY <2>1, <3>1, <3>2, AcceptStep
  <2> QED
    BY <2>2, <2>3
<1>5. ASSUME NEW m \in Nodes, NEW n \in Nodes,
             \/ HandleElection(m, n) \/ HandleElectionOk(m, n)
             \/ LeaderHandlesCoordinator(m, n) \/ ReplicaHandlesCoordinator(m, n)
             \/ HandleConnectionLost(m, n) \/ HandleElectionTimeout(n)
      PROVE  EInv'
  <2>1. TypeOK'
    BY <1>1, <1>5, HandlerType
  <2>2. crossed' = crossed
    <3>1. ASSUME NEW k, NEW out, Transfer(k, n, out) PROVE crossed' = crossed
      BY <3>1 DEF Transfer
    <3> QED
      BY <1>5, <3>1 DEF HandleElection, HandleElectionOk, LeaderHandlesCoordinator,
                       ReplicaHandlesCoordinator, HandleConnectionLost, HandleElectionTimeout
  <2>3. CASE crossed
    BY <2>1, <2>2, <2>3 DEF EInv
  <2>4. CASE ~crossed
    <3>1. CASE HandleElection(m, n)
      BY <2>1, <2>4, <3>1, HandleElectionStep
    <3>2. CASE HandleElectionOk(m, n)
      BY <2>1, <2>4, <3>2, HandleElectionOkStep
    <3>3. CASE LeaderHandlesCoordinator(m, n) \/ ReplicaHandlesCoordinator(m, n)
      BY <2>1, <2>4, <3>3, HandleCoordinatorStep
    <3>4. CASE HandleConnectionLost(m, n)
      BY <2>1, <2>4, <3>4, HandleConnectionLostStep
    <3>5. CASE HandleElectionTimeout(n)
      BY <2>1, <2>4, <3>5, HandleElectionTimeoutStep
    <3> QED
      BY <1>5, <3>1, <3>2, <3>3, <3>4, <3>5
  <2> QED
    BY <2>3, <2>4
<1>6. CASE UNCHANGED vars
  <2>1. /\ UNCHANGED <<plan, role, leader_addr, cluster, election>>
        /\ UNCHANGED <<chan, conn, stale, dials, backlog, crossed>>
    BY <1>6 DEF vars, net
  <2>2. TypeOK' = TypeOK
    BY <2>1 DEF TypeOK, MessageOf, ElectionMsg, ElectionOkMsg, CoordinatorMsg, LostMsg
  <2>3. \A x, y \in Nodes : InTransit(x, y)' = InTransit(x, y)
    BY <2>1 DEF InTransit
  <2>4. MembersInv' = MembersInv /\ AnswersInv' = AnswersInv
    BY <2>1, <2>3 DEF MembersInv, AnswersInv, Running, ElectionMsg, ElectionOkMsg, LostMsg
  <2>5. Calm' = Calm /\ HighestLeads' = HighestLeads
    BY <2>1, <2>3 DEF Calm, HighestLeads, Highest, Running, LostMsg
  <2>6. HeardByLower' = HeardByLower /\ NoPanic' = NoPanic
    BY <2>1, <2>3 DEF HeardByLower, NoPanic, Running, CoordinatorMsg
  <2> QED
    BY <2>1, <2>2, <2>4, <2>5, <2>6 DEF EInv
<1> QED
  BY <1>2, <1>3, <1>4, <1>5, <1>6 DEF Next, Receive

\* The inductive invariant of the election holds in every state.
THEOREM EInvariance == Spec => []EInv
<1>1. Init => EInv
  BY EInit
<1>2. EInv /\ [Next]_vars => EInv'
  BY ENext
<1> QED
  BY <1>1, <1>2, PTL DEF Spec

\* The state of every node, channel and stream keeps its type; no node sends to itself.
THEOREM ETypeCorrect == Spec => []TypeOK
<1>1. EInv => TypeOK
  BY DEF EInv
<1> QED
  BY <1>1, EInvariance, PTL

\* As long as answers come in time and no acceptor drops a stream that is in use, no
\* replica hears of a leader with a lower id, and the panic of
\* Replica::handle_coordinator is out of reach, whoever crashes and when.
THEOREM PanicFree == Spec => []NoPanic
<1>1. EInv => NoPanic
  BY DEF EInv, NoPanic
<1> QED
  BY <1>1, EInvariance, PTL

\* As long as answers come in time and no acceptor drops a stream that is in use, no
\* two nodes that run lead at the same time, whether connections are accepted at once
\* or later: the leader is the first one, or the highest node that runs.
THEOREM ElectsOneLeader == Spec => []OneLeader
<1>1. EInv => OneLeader
  <2> SUFFICES ASSUME EInv, plan.timely, ~crossed, NEW m \in Nodes, NEW n \in Nodes,
                      role[m] = "leader", role[n] = "leader"
               PROVE  m = n
    BY DEF OneLeader, OneLeads
  <2>1. CASE Calm
    BY <2>1 DEF Calm
  <2>2. CASE HighestLeads
    <3>1. m <= n /\ n <= m
      BY <2>2 DEF HighestLeads, Highest, Running
    <3>2. m \in Nat /\ n \in Nat
      BY ScenariosAssumption
    <3> QED
      BY <3>1, <3>2
  <2> QED
    BY <2>1, <2>2 DEF EInv
<1> QED
  BY <1>1, EInvariance, PTL

-----------------------------------------------------------------------------
(* Sequences, and the highest id *)

\* What the operators on sequences return.
LEMMA SeqFacts ==
  ASSUME NEW T, NEW s \in Seq(T)
  PROVE  /\ <<>> \in Seq(T)
         /\ s # <<>> => Head(s) \in T /\ Tail(s) \in Seq(T)
         /\ \A e \in T : <<e>> \in Seq(T) /\ Append(s, e) \in Seq(T)
         /\ \A t \in Seq(T) : s \o t \in Seq(T)
         /\ \A i, k \in Nat : i >= 1 /\ k <= Len(s) => SubSeq(s, i, k) \in Seq(T)
         /\ Len(s) \in Nat /\ \A i \in 1..Len(s) : s[i] \in T
<1>1. s # <<>> => Head(s) \in T /\ Tail(s) \in Seq(T)
  OBVIOUS
<1>2. \A e \in T : <<e>> \in Seq(T) /\ Append(s, e) \in Seq(T)
  OBVIOUS
<1>3. \A t \in Seq(T) : s \o t \in Seq(T)
  OBVIOUS
<1>4. ASSUME NEW i \in Nat, NEW k \in Nat, i >= 1, k <= Len(s)
      PROVE  SubSeq(s, i, k) \in Seq(T)
  BY <1>4
<1>5. Len(s) \in Nat /\ \A i \in 1..Len(s) : s[i] \in T
  OBVIOUS
<1> QED
  BY <1>1, <1>2, <1>3, <1>4, <1>5

\* A bounded set of ids has a highest one.
LEMMA MaxFact ==
  ASSUME NEW D, D # {}, NEW k \in Nat, D \subseteq 1..k
  PROVE  Max(D) \in D
<1> DEFINE B == {b \in Nat : D \subseteq 1..b}
<1>1. B \in SUBSET Nat /\ k \in B
  BY D \subseteq 1..k
<1> HIDE DEF B
<1>2. \E x \in B : \A y \in B : ~(<<y, x>> \in OpToRel(<, Nat))
  BY <1>1, NatLessThanWellFounded, WFMin
<1>3. PICK b \in B : \A y \in B : ~(y < b)
  BY <1>1, <1>2 DEF OpToRel
<1>4. b \in Nat /\ D \subseteq 1..b
  BY DEF B
<1>5. b \in D
  <2> SUFFICES ASSUME b \notin D PROVE FALSE
    OBVIOUS
  <2>1. b >= 1
    <3>1. PICK d \in D : TRUE
      BY D # {}
    <3>2. b \in Nat /\ d \in 1..b
      BY <1>4
    <3> QED
      BY <3>2
  <2>2. D \subseteq 1..(b - 1) /\ b - 1 \in Nat
    BY <1>4, <2>1
  <2> QED
    BY <1>3, <1>4, <2>2 DEF B
<1>6. \A y \in D : b >= y
  BY <1>4
<1>7. \E x \in D : \A y \in D : x >= y
  BY <1>5, <1>6
<1> QED
  BY <1>7 DEF Max

-----------------------------------------------------------------------------
(* Sending *)

Roles == {"down", "leader", "replica", "leader_off", "replica_off", "crashed", "panicked"}

\* What a node sends in an election are messages.
LEMMA CallsOK ==
  ASSUME NEW S, NEW n \in Nodes, NEW members
  PROVE  /\ \A p \in Nodes : Calls(n, members)[p] \in Seq(Message(S))
         /\ \A p \in Nodes : Announce(n, members)[p] \in Seq(Message(S))
         /\ \A p \in Nodes : Silent[p] \in Seq(Message(S))
         /\ \A p \in Nodes : <<ElectionOkMsg(p)>> \in Seq(Message(S))
         /\ LostMsg \in Message(S)
<1>1. \A p \in Nodes : ElectionMsg(p) \in Message(S) /\ ElectionOkMsg(p) \in Message(S)
                       /\ CoordinatorMsg(p) \in Message(S)
  BY DEF Message, ElectionMsg, ElectionOkMsg, CoordinatorMsg
<1>2. LostMsg \in Message(S)
  BY DEF Message, LostMsg
<1>3. \A e \in Message(S) : <<e>> \in Seq(Message(S))
  OBVIOUS
<1>4. <<>> \in Seq(Message(S))
  OBVIOUS
<1> HIDE DEF Message
<1>5. \A p \in Nodes : Announce(n, members)[p] \in Seq(Message(S))
  BY <1>1, <1>3, <1>4 DEF Announce
<1>6. \A p \in Nodes : Calls(n, members)[p] \in Seq(Message(S))
  BY <1>1, <1>3, <1>4, <1>5 DEF Calls, Silent
<1> QED
  BY <1>1, <1>2, <1>3, <1>4, <1>5, <1>6 DEF Silent

\* A node takes a message that is there and sends messages.
LEMMA TransferOK ==
  ASSUME NEW S, ChannelsInv(S), NEW m, NEW n \in Nodes, NEW out,
         m \in Nodes => chan[m][n] # <<>>,
         \A p \in Nodes : out[p] \in Seq(Message(S)),
         Transfer(m, n, out)
  PROVE  ChannelsInv(S)'
<1> DEFINE T == Message(S)
           taken(x, y) == IF x = m /\ y = n THEN Tail(chan[x][y]) ELSE chan[x][y]
           new(y) == Accepted(n, y, out[y])
<1>1. \A x, y \in Nodes : chan[x][y] \in Seq(T) /\ backlog[x][y] \in Seq(T)
  BY DEF ChannelsInv
<1> HIDE DEF T
<1>2. \A y \in Nodes : new(y) \in Seq(T)
  BY SeqFacts DEF Accepted, T
<1>3. \A x, y \in Nodes : taken(x, y) \in Seq(T)
  BY <1>1, SeqFacts
<1>4. /\ \E at \in SUBSET Nodes :
           chan' = [x \in Nodes |-> [y \in Nodes |->
                      taken(x, y) \o (IF x = n /\ y \in at THEN new(y) ELSE <<>>)]]
      /\ \E at \in SUBSET Nodes :
           backlog' = [x \in Nodes |-> [y \in Nodes |->
                         backlog[x][y] \o (IF x = n /\ y \in at THEN new(y) ELSE <<>>)]]
  <2> DEFINE reached == {y \in Nodes : Running(y) /\ Accepted(n, y, out[y]) # <<>>}
             dialled == {y \in reached : plan.crossing /\ y # n /\ {n, y} \notin conn}
  <2>1. /\ chan' = [x \in Nodes |-> [y \in Nodes |->
                      taken(x, y) \o (IF x = n /\ y \in reached \ dialled THEN new(y) ELSE <<>>)]]
        /\ backlog' = [x \in Nodes |-> [y \in Nodes |->
                         backlog[x][y] \o (IF x = n /\ y \in dialled THEN new(y) ELSE <<>>)]]
    BY DEF Transfer
  <2>2. (reached \ dialled) \in SUBSET Nodes /\ dialled \in SUBSET Nodes
    OBVIOUS
  <2> HIDE DEF reached, dialled, taken, new
  <2> QED
    BY <2>1, <2>2
<1>5. \A s, t \in Seq(T) : s \o t \in Seq(T) /\ s \o <<>> \in Seq(T)
  OBVIOUS
<1> HIDE DEF taken, new
<1>6. chan' \in [Nodes -> [Nodes -> Seq(T)]]
  BY <1>2, <1>3, <1>4, <1>5
<1>7. backlog' \in [Nodes -> [Nodes -> Seq(T)]]
  BY <1>1, <1>2, <1>4, <1>5
<1> QED
  BY <1>6, <1>7 DEF ChannelsInv, T

-----------------------------------------------------------------------------
(* Roles and what is stored *)

\* Node n changes its role, or does not; nothing else is known of the others.
RoleStep(n) ==
  /\ role' \in [Nodes -> Roles]
  /\ \A x \in Nodes \ {n} : role'[x] = role[x]

\* A step that changes what one node has stored, in the form of its role.
LEMMA StoredStep ==
  ASSUME NEW S, StoredInv(S), NEW n \in Nodes, RoleStep(n), DOMAIN operations' = Nodes,
         \A x \in Nodes \ {n} : operations'[x] = operations[x],
         operations'[n] \in [DOMAIN operations'[n] -> Stored(S, Leads(n)')],
         \E k \in Nat : DOMAIN operations'[n] \subseteq 1..k
  PROVE  StoredInv(S)'
<1>1. ASSUME NEW x \in Nodes, x # n
      PROVE  /\ operations'[x] \in [DOMAIN operations'[x] -> Stored(S, Leads(x)')]
             /\ \E k \in Nat : DOMAIN operations'[x] \subseteq 1..k
  <2>1. Leads(x)' = Leads(x)
    BY <1>1 DEF Leads, RoleStep
  <2>2. operations'[x] = operations[x]
    BY <1>1
  <2> QED
    BY <2>1, <2>2 DEF StoredInv
<1> QED
  BY <1>1 DEF StoredInv

\* A node whose role is of the same kind keeps what it has stored.
LEMMA StoredKept ==
  ASSUME NEW S, StoredInv(S), NEW n \in Nodes, RoleStep(n), Leads(n)' = Leads(n),
         UNCHANGED operations
  PROVE  StoredInv(S)'
BY StoredStep DEF StoredInv

\* into_leader and into_replica leave nothing stored and an id to begin with.
LEMMA RoleChangeOK ==
  ASSUME NEW S, NodesInv, StoredInv(S), NEW n \in Nodes, RoleStep(n), NEW ops,
         ops \in [DOMAIN ops -> Stored(S, Leads(n))], NEW k \in Nat, DOMAIN ops \subseteq 1..k,
         RoleChange(n, ops)
  PROVE  StoredInv(S)' /\ current_op_id' \in [Nodes -> Ids]
<1>1. Max(DOMAIN ops \cup {1}) \in Ids
  <2>1. DOMAIN ops \cup {1} \subseteq 1..(k + 1) /\ k + 1 \in Nat
    OBVIOUS
  <2>2. Max(DOMAIN ops \cup {1}) \in DOMAIN ops \cup {1}
    BY <2>1, MaxFact
  <2> QED
    BY <2>1, <2>2 DEF Ids
<1>2. current_op_id' \in [Nodes -> Ids]
  BY <1>1 DEF RoleChange, NodesInv
<1>3. /\ DOMAIN operations' = Nodes
      /\ \A x \in Nodes \ {n} : operations'[x] = operations[x]
      /\ operations'[n] = IF Leads(n)' = Leads(n) THEN ops ELSE Empty
  BY DEF RoleChange, StoredInv
<1>4. Empty \in [DOMAIN Empty -> Stored(S, Leads(n)')] /\ DOMAIN Empty \subseteq 1..k
  BY DEF Empty
<1>5. CASE Leads(n)' = Leads(n)
  BY <1>2, <1>3, <1>5, StoredStep
<1>6. CASE Leads(n)' # Leads(n)
  BY <1>2, <1>3, <1>4, <1>6, StoredStep
<1> QED
  BY <1>5, <1>6

\* What a node has stored, with one operation more.
LEMMA StoredOps ==
  ASSUME NEW S, StoredInv(S), NEW n \in Nodes, NEW id \in Ids, NEW e \in Stored(S, Leads(n))
  PROVE  LET ops == Insert(operations[n], id, e)
         IN  /\ ops \in [DOMAIN ops -> Stored(S, Leads(n))]
             /\ \E k \in Nat : DOMAIN ops \subseteq 1..k
<1> DEFINE ops == Insert(operations[n], id, e)
<1>1. /\ DOMAIN ops = {id} \cup DOMAIN operations[n]
      /\ \A i \in DOMAIN ops : ops[i] = IF i = id THEN e ELSE operations[n][i]
      /\ ops = [i \in DOMAIN ops |-> ops[i]]
  BY DEF Insert
<1>2. operations[n] \in [DOMAIN operations[n] -> Stored(S, Leads(n))]
  BY DEF StoredInv
<1>3. ops \in [DOMAIN ops -> Stored(S, Leads(n))]
  <2>1. \A i \in DOMAIN ops : ops[i] \in Stored(S, Leads(n))
    BY <1>1, <1>2
  <2> HIDE DEF ops
  <2> QED
    BY <1>1, <2>1
<1>4. PICK k \in Nat : DOMAIN operations[n] \subseteq 1..k
  BY DEF StoredInv
<1>5. DOMAIN ops \subseteq 1..(k + id) /\ k + id \in Nat
  BY <1>1, <1>4 DEF Ids
<1> QED
  BY <1>3, <1>5

\* A part of a function.
LEMMA RestrictFact ==
  ASSUME NEW T, NEW f, f \in [DOMAIN f -> T], NEW D \in SUBSET DOMAIN f
  PROVE  Restrict(f, D) \in [D -> T] /\ DOMAIN Restrict(f, D) = D
BY DEF Restrict

\* start_election: a node that does not wait leads.
LEMMA StartElectionOK ==
  ASSUME NodesInv, NEW n \in Nodes, NEW members, StartElection(n, members)
  PROVE  RoleStep(n) /\ role'[n] \in {role[n], "leader"}
BY DEF NodesInv, StartElection, RoleStep, Roles

\* The end of a handler, after a send that may have failed.
LEMMA EndsOK ==
  ASSUME NEW S, NodesInv, ChannelsInv(S), NEW m, NEW n \in Nodes, NEW members \in SUBSET Nodes,
         NEW out, NEW failed, m \in Nodes => chan[m][n] # <<>>,
         \A p \in Nodes : out[p] \in Seq(Message(S)), Ends(m, n, members, out, failed)
  PROVE  /\ ChannelsInv(S)' /\ RoleStep(n)
         /\ cluster' \in [Nodes -> SUBSET Nodes] /\ leader_addr' = leader_addr
         /\ \/ role'[n] = role[n]
            \/ role[n] = "replica" /\ role'[n] = "leader" /\ failed \in Nodes
<1> DEFINE lost   == <<n, failed>> \in stale
           left   == IF lost THEN members \ {failed} ELSE members
           elects == lost /\ role[n] = "replica" /\ leader_addr[n] = failed
           sent   == [p \in Nodes |-> out[p] \o (IF elects THEN Calls(n, left)[p] ELSE <<>>)]
<1>1. /\ cluster' = [cluster EXCEPT ![n] = left]
      /\ \/ elects /\ StartElection(n, left)
         \/ ~elects /\ UNCHANGED <<election, role>>
      /\ Transfer(m, n, sent)
      /\ UNCHANGED leader_addr
  BY DEF Ends
<1>2. cluster' \in [Nodes -> SUBSET Nodes]
  BY <1>1 DEF NodesInv
<1>3. \A p \in Nodes : Calls(n, left)[p] \in Seq(Message(S)) /\ <<>> \in Seq(Message(S))
  BY CallsOK, SeqFacts
<1>4. \A p \in Nodes : sent[p] \in Seq(Message(S))
  <2> HIDE DEF elects, left
  <2> SUFFICES ASSUME NEW p \in Nodes PROVE sent[p] \in Seq(Message(S))
    OBVIOUS
  <2>1. (IF elects THEN Calls(n, left)[p] ELSE <<>>) \in Seq(Message(S))
    BY <1>3
  <2>2. out[p] \in Seq(Message(S))
    OBVIOUS
  <2> QED
    BY <2>1, <2>2, SeqFacts
<1> HIDE DEF sent
<1>5. ChannelsInv(S)'
  BY <1>1, <1>4, TransferOK
<1>6. CASE elects /\ StartElection(n, left)
  <2>1. RoleStep(n) /\ role'[n] \in {role[n], "leader"}
    BY <1>6, StartElectionOK
  <2>2. role[n] = "replica" /\ failed \in Nodes
    BY <1>6 DEF NodesInv
  <2> QED
    BY <1>1, <1>2, <1>5, <2>1, <2>2
<1>7. CASE ~elects /\ UNCHANGED <<election, role>>
  <2>1. RoleStep(n) /\ role'[n] = role[n]
    BY <1>7 DEF NodesInv, RoleStep, Roles
  <2> QED
    BY <1>1, <1>2, <1>5, <2>1
<1> QED
  BY <1>1, <1>6, <1>7

\* Sending one message, and sending it to several nodes.
LEMMA OneMessage ==
  ASSUME NEW S, NEW msg \in Message(S)
  PROVE  /\ \A p : \A q \in Nodes : Send(p, msg)[q] \in Seq(Message(S))
         /\ \A ps : \A q \in Nodes : Cast(ps, msg)[q] \in Seq(Message(S))
         /\ \A q \in Nodes : Silent[q] \in Seq(Message(S))
<1> DEFINE T == Message(S)
<1>1. msg \in T
  OBVIOUS
<1> HIDE DEF T
<1>2. <<msg>> \in Seq(T) /\ <<>> \in Seq(T)
  BY <1>1
<1> QED
  BY <1>2 DEF Send, Cast, Silent, T

\* A handler that sends one message: what it leaves, whether the send fails or not.
LEMMA SendsToOK ==
  ASSUME NEW S, NodesInv, ChannelsInv(S), NEW m, NEW n \in Nodes, NEW p, NEW msg \in Message(S),
         m \in Nodes => chan[m][n] # <<>>, SendsTo(m, n, p, msg)
  PROVE  /\ ChannelsInv(S)' /\ RoleStep(n)
         /\ cluster' \in [Nodes -> SUBSET Nodes] /\ leader_addr' = leader_addr
<1>1. cluster[n] \in SUBSET Nodes
  BY DEF NodesInv
<1>2. \A q \in Nodes : Send(p, msg)[q] \in Seq(Message(S))
  BY OneMessage
<1>3. PICK failed : Ends(m, n, cluster[n], Send(p, msg), failed)
  BY DEF SendsTo
<1> QED
  BY <1>1, <1>2, <1>3, EndsOK

\* A leader sends a message to the members; the first send that fails ends the handler.
LEMMA BroadcastsOK ==
  ASSUME NEW S, NodesInv, ChannelsInv(S), NEW m, NEW n \in Nodes, NEW members \in SUBSET Nodes,
         NEW ps, NEW msg \in Message(S), NEW complete, role[n] = "leader",
         m \in Nodes => chan[m][n] # <<>>, Broadcasts(m, n, members, ps, msg, complete)
  PROVE  /\ ChannelsInv(S)' /\ RoleStep(n) /\ role'[n] = role[n]
         /\ cluster' \in [Nodes -> SUBSET Nodes] /\ leader_addr' = leader_addr
<1>1. \A qs : \A q \in Nodes : Cast(qs, msg)[q] \in Seq(Message(S))
  BY OneMessage
<1>2. PICK qs, failed : Ends(m, n, members, Cast(qs, msg), failed)
  BY DEF Broadcasts
<1> QED
  BY <1>1, <1>2, EndsOK

\* A handler that sends nothing.
LEMMA EndsSilent ==
  ASSUME NEW S, NodesInv, ChannelsInv(S), NEW m, NEW n \in Nodes, NEW members \in SUBSET Nodes,
         m \in Nodes => chan[m][n] # <<>>, Ends(m, n, members, Silent, Nobody)
  PROVE  /\ ChannelsInv(S)' /\ RoleStep(n) /\ role'[n] = role[n]
         /\ cluster' \in [Nodes -> SUBSET Nodes] /\ leader_addr' = leader_addr
<1>1. \A q \in Nodes : Silent[q] \in Seq(Message(S))
  BY CallsOK
<1>2. Nobody \notin Nodes
  BY ScenariosAssumption DEF Nobody
<1> QED
  BY <1>1, <1>2, EndsOK

-----------------------------------------------------------------------------
(* Messages and commands *)

\* The message that a node receives is one of those that may be in the channel.
LEMMA MessageHead ==
  ASSUME NEW S, ChannelsInv(S), NEW m \in Nodes, NEW n \in Nodes, NEW type, Receives(m, n, type)
  PROVE  /\ chan[m][n] # <<>> /\ Head(chan[m][n]) \in Message(S)
         /\ Head(chan[m][n]).type = type
<1>1. chan[m][n] \in Seq(Message(S)) /\ chan[m][n] # <<>> /\ Head(chan[m][n]).type = type
  BY DEF ChannelsInv, Receives
<1> QED
  BY <1>1, SeqFacts

\* What a message of each type carries.
LEMMA MessageFields ==
  ASSUME NEW S, NEW x \in Message(S)
  PROVE  /\ x.type = "Log" => x.id \in Ids /\ x.op \in Operation(S)
         /\ x.type = "Ack" => x.id \in Ids
         /\ x.type = "Request" => x.op \in Operation(S) /\ x.addr \in Nodes
         /\ x.type = "Response" => x.op \in Operation(S)
         /\ x.type = "Join" => x.addr \in Nodes
         /\ x.type = "ClusterView" => x.members \in SUBSET Nodes /\ x.leader \in Nodes
                                      /\ x.state \in Snapshot(S)
         /\ x.type = "ClusterUpdate" => x.member \in Nodes
BY DEF Message

\* The messages that the handlers make.
LEMMA MakeMessages ==
  ASSUME NEW S
  PROVE  /\ \A id \in Ids, op \in Operation(S) : LogMsg(id, op) \in Message(S)
         /\ \A id \in Ids : AckMsg(id) \in Message(S)
         /\ \A op \in Operation(S), p \in Nodes : RequestMsg(op, p) \in Message(S)
         /\ \A op \in Operation(S) : ResponseMsg(op) \in Message(S)
         /\ \A p \in Nodes : JoinMsg(p) \in Message(S) /\ UpdateMsg(p) \in Message(S)
         /\ \A ps \in SUBSET Nodes, p \in Nodes, snap \in Snapshot(S) :
              ViewMsg(ps, p, snap) \in Message(S)
BY DEF Message, LogMsg, AckMsg, RequestMsg, ResponseMsg, JoinMsg, UpdateMsg, ViewMsg

\* The commands that the nodes make, and what each carries.
LEMMA CommandFields ==
  ASSUME NEW S
  PROVE  /\ \A id \in Ids, op \in Operation(S) : ChargeCmd(id, op) \in Command(S)
         /\ \A p \in Nodes : GetCmd(p) \in Command(S)
         /\ \A snap \in Snapshot(S) : ReplaceCmd(snap) \in Command(S)
         /\ \A x \in Command(S) :
              /\ x.type = "Charge" => x.id \in Ids /\ x.op \in Operation(S)
              /\ x.type = "GetDatabase" => x.addr \in Nodes
              /\ x.type = "ReplaceDatabase" => x.state \in Snapshot(S)
BY DEF Command, ChargeCmd, GetCmd, ReplaceCmd

\* A command that is sent to the database of a node.
LEMMA ExecuteOK ==
  ASSUME NEW S, DatabasesInv(S), NEW n \in Nodes, NEW cmd \in Command(S), Execute(n, cmd),
         UNCHANGED <<events, asked, state>>
  PROVE  DatabasesInv(S)'
<1>1. db[n] \in Seq(Command(S)) /\ db' = [db EXCEPT ![n] = Append(@, cmd)]
  BY DEF DatabasesInv, Execute
<1>2. Append(db[n], cmd) \in Seq(Command(S))
  BY <1>1, SeqFacts
<1> QED
  BY <1>1, <1>2 DEF DatabasesInv

\* A step that leaves the databases alone.
LEMMA SameDatabases ==
  ASSUME NEW S, DatabasesInv(S), UNCHANGED <<db, events, asked, state>>
  PROVE  DatabasesInv(S)'
BY DEF DatabasesInv

-----------------------------------------------------------------------------
(* The steps *)

\* What the steps preserve, given the charges S that pumps have made.
Core(S) == NodesInv /\ ChannelsInv(S) /\ DatabasesInv(S) /\ StoredInv(S)

\* What a step of n leaves of the roles, leaders and members.
LEMMA NodesStep ==
  ASSUME NodesInv, NEW n \in Nodes, RoleStep(n), plan' = plan,
         cluster' \in [Nodes -> SUBSET Nodes], leader_addr' \in [Nodes -> Nodes],
         current_op_id' \in [Nodes -> Ids]
  PROVE  NodesInv'
BY DEF NodesInv, RoleStep, Roles

\* What is stored, as into_leader and into_replica find it.
LEMMA StoredNow ==
  ASSUME NEW S, StoredInv(S), NEW n \in Nodes
  PROVE  /\ operations[n] \in [DOMAIN operations[n] -> Stored(S, Leads(n))]
         /\ \E k \in Nat : DOMAIN operations[n] \subseteq 1..k
BY DEF StoredInv

\* A change of role, or none, with what is stored.
LEMMA RoleChangeCore ==
  ASSUME NEW S, Core(S), NEW n \in Nodes, RoleStep(n), RoleChange(n, operations[n]),
         plan' = plan, cluster' \in [Nodes -> SUBSET Nodes], leader_addr' \in [Nodes -> Nodes],
         ChannelsInv(S)', DatabasesInv(S)'
  PROVE  Core(S)'
<1>1. PICK k \in Nat : DOMAIN operations[n] \subseteq 1..k
  BY StoredNow DEF Core
<1>2. operations[n] \in [DOMAIN operations[n] -> Stored(S, Leads(n))]
  BY StoredNow DEF Core
<1>3. StoredInv(S)' /\ current_op_id' \in [Nodes -> Ids]
  BY <1>1, <1>2, RoleChangeOK DEF Core
<1> QED
  BY <1>3, NodesStep DEF Core

\* A step in which a node keeps its kind of role and what it has stored.
LEMMA KeptCore ==
  ASSUME NEW S, Core(S), NEW n \in Nodes, RoleStep(n), Leads(n)' = Leads(n),
         UNCHANGED <<plan, operations>>, current_op_id' \in [Nodes -> Ids],
         cluster' \in [Nodes -> SUBSET Nodes], leader_addr' \in [Nodes -> Nodes],
         ChannelsInv(S)', DatabasesInv(S)'
  PROVE  Core(S)'
<1>1. StoredInv(S)'
  BY StoredKept DEF Core
<1> QED
  BY <1>1, NodesStep DEF Core

\* The handlers of the election and its timer
LEMMA ElectionHandlerOK ==
  ASSUME NEW S, NodesInv, ChannelsInv(S), NEW n \in Nodes,
         \/ \E m \in Nodes : \/ HandleElection(m, n) \/ HandleElectionOk(m, n)
                             \/ LeaderHandlesCoordinator(m, n) \/ ReplicaHandlesCoordinator(m, n)
                             \/ HandleConnectionLost(m, n)
         \/ HandleElectionTimeout(n)
  PROVE  /\ ChannelsInv(S)' /\ RoleStep(n) /\ plan' = plan
         /\ cluster' \in [Nodes -> SUBSET Nodes] /\ leader_addr' \in [Nodes -> Nodes]
<1>0. /\ role \in [Nodes -> Roles] /\ leader_addr \in [Nodes -> Nodes]
      /\ cluster \in [Nodes -> SUBSET Nodes]
  BY DEF NodesInv, Roles
<1>1. \A p \in Nodes : Silent[p] \in Seq(Message(S))
  BY CallsOK
<1>2. Nobody \notin Nodes
  BY ScenariosAssumption DEF Nobody
<1>3. role' = role => RoleStep(n)
  BY <1>0 DEF RoleStep
<1>4. ASSUME NEW m \in Nodes, HandleElection(m, n)
      PROVE  /\ ChannelsInv(S)' /\ RoleStep(n) /\ plan' = plan
             /\ cluster' \in [Nodes -> SUBSET Nodes] /\ leader_addr' \in [Nodes -> Nodes]
  <2>1. chan[m][n] # <<>>
    BY <1>4 DEF HandleElection, Receives
  <2>2. UNCHANGED <<plan, leader_addr, cluster>>
    BY <1>4 DEF HandleElection
  <2>3. CASE n > m
    <3> DEFINE out == [p \in Nodes |-> (IF p = m THEN <<ElectionOkMsg(n)>> ELSE <<>>)
                                         \o Calls(n, cluster[n])[p]]
    <3>1. StartElection(n, cluster[n]) /\ Transfer(m, n, out)
      BY <1>4, <2>3 DEF HandleElection
    <3>2. \A p \in Nodes : out[p] \in Seq(Message(S))
      <4> SUFFICES ASSUME NEW p \in Nodes PROVE out[p] \in Seq(Message(S))
        OBVIOUS
      <4>1. Calls(n, cluster[n])[p] \in Seq(Message(S)) /\ <<ElectionOkMsg(n)>> \in Seq(Message(S))
        BY CallsOK
      <4>2. (IF p = m THEN <<ElectionOkMsg(n)>> ELSE <<>>) \in Seq(Message(S))
        BY <4>1, SeqFacts
      <4> QED
        BY <4>1, <4>2, SeqFacts
    <3> HIDE DEF out
    <3>3. ChannelsInv(S)'
      BY <2>1, <3>1, <3>2, TransferOK
    <3>4. RoleStep(n)
      BY <3>1, StartElectionOK
    <3> QED
      BY <1>0, <2>2, <3>3, <3>4
  <2>4. CASE ~(n > m)
    <3>1. Transfer(m, n, Silent) /\ role' = role
      BY <1>4, <2>4 DEF HandleElection
    <3>2. ChannelsInv(S)'
      BY <1>1, <2>1, <3>1, TransferOK
    <3> QED
      BY <1>0, <1>3, <2>2, <3>1, <3>2
  <2> QED
    BY <2>3, <2>4
<1>5. ASSUME NEW m \in Nodes,
             \/ HandleElectionOk(m, n) \/ LeaderHandlesCoordinator(m, n)
             \/ ReplicaHandlesCoordinator(m, n)
      PROVE  /\ ChannelsInv(S)' /\ RoleStep(n) /\ plan' = plan
             /\ cluster' \in [Nodes -> SUBSET Nodes] /\ leader_addr' \in [Nodes -> Nodes]
  <2>1. chan[m][n] # <<>> /\ Transfer(m, n, Silent) /\ UNCHANGED <<plan, cluster>>
    BY <1>5 DEF HandleElectionOk, LeaderHandlesCoordinator, ReplicaHandlesCoordinator, Receives
  <2>2. ChannelsInv(S)'
    BY <1>1, <2>1, TransferOK
  <2>3. leader_addr' \in [Nodes -> Nodes]
    BY <1>0, <1>5 DEF HandleElectionOk, LeaderHandlesCoordinator, ReplicaHandlesCoordinator
  <2>4. role' = role \/ role' = [role EXCEPT ![n] = "replica"]
    BY <1>5 DEF HandleElectionOk, LeaderHandlesCoordinator, ReplicaHandlesCoordinator
  <2>5. RoleStep(n)
    BY <1>0, <2>4 DEF RoleStep, Roles
  <2> QED
    BY <1>0, <2>1, <2>2, <2>3, <2>5
<1>6. ASSUME NEW m \in Nodes, HandleConnectionLost(m, n)
      PROVE  /\ ChannelsInv(S)' /\ RoleStep(n) /\ plan' = plan
             /\ cluster' \in [Nodes -> SUBSET Nodes] /\ leader_addr' \in [Nodes -> Nodes]
  <2>1. chan[m][n] # <<>> /\ UNCHANGED <<plan, leader_addr>>
        /\ cluster' = [cluster EXCEPT ![n] = @ \ {m}]
    BY <1>6 DEF HandleConnectionLost, Receives
  <2>2. cluster' \in [Nodes -> SUBSET Nodes]
    BY <1>0, <2>1
  <2>3. CASE /\ StartElection(n, cluster[n] \ {m})
             /\ Transfer(m, n, Calls(n, cluster[n] \ {m}))
    <3>1. \A p \in Nodes : Calls(n, cluster[n] \ {m})[p] \in Seq(Message(S))
      BY CallsOK
    <3>2. ChannelsInv(S)'
      BY <2>1, <2>3, <3>1, TransferOK
    <3>3. RoleStep(n)
      BY <2>3, StartElectionOK
    <3> QED
      BY <1>0, <2>1, <2>2, <3>2, <3>3
  <2>4. CASE Transfer(m, n, Silent) /\ UNCHANGED <<election, role>>
    <3>1. ChannelsInv(S)'
      BY <1>1, <2>1, <2>4, TransferOK
    <3> QED
      BY <1>0, <1>3, <2>1, <2>2, <2>4, <3>1
  <2> QED
    BY <1>6, <2>3, <2>4 DEF HandleConnectionLost
<1>7. ASSUME HandleElectionTimeout(n)
      PROVE  /\ ChannelsInv(S)' /\ RoleStep(n) /\ plan' = plan
             /\ cluster' \in [Nodes -> SUBSET Nodes] /\ leader_addr' \in [Nodes -> Nodes]
  <2>1. /\ Transfer(Nobody, n, Announce(n, cluster[n])) /\ UNCHANGED <<plan, leader_addr, cluster>>
        /\ role' = [role EXCEPT ![n] = "leader"]
    BY <1>7 DEF HandleElectionTimeout
  <2>2. \A p \in Nodes : Announce(n, cluster[n])[p] \in Seq(Message(S))
    BY CallsOK
  <2>3. ChannelsInv(S)'
    BY <1>2, <2>1, <2>2, TransferOK
  <2>4. RoleStep(n)
    BY <1>0, <2>1 DEF RoleStep, Roles
  <2> QED
    BY <1>0, <2>1, <2>3, <2>4
<1> QED
  BY <1>4, <1>5, <1>6, <1>7

\* The steps of an election, and the timer OFFLINE.
LEMMA ElectionStepOK ==
  ASSUME NEW S, Core(S), NEW n \in Nodes, ElectionStep(n) \/ OfflineTimeout(n)
  PROVE  Core(S)'
<1>1. RoleChange(n, operations[n]) /\ UNCHANGED <<db, asked, events, state>>
  BY DEF ElectionStep, OfflineTimeout
<1>2. DatabasesInv(S)'
  BY <1>1, SameDatabases DEF Core
<1>3. CASE ElectionStep(n)
  <2>1. /\ ChannelsInv(S)' /\ RoleStep(n) /\ plan' = plan
        /\ cluster' \in [Nodes -> SUBSET Nodes] /\ leader_addr' \in [Nodes -> Nodes]
    BY <1>3, ElectionHandlerOK DEF ElectionStep, Core
  <2> QED
    BY <1>1, <1>2, <2>1, RoleChangeCore
<1>4. CASE OfflineTimeout(n)
  <2>1. /\ role' = [role EXCEPT ![n] = "leader_off"]
        /\ UNCHANGED <<leader_addr, cluster, chan, backlog, plan>>
    BY <1>4 DEF OfflineTimeout, env, net
  <2>2. RoleStep(n)
    BY <2>1 DEF RoleStep, Roles, Core, NodesInv
  <2>3. /\ ChannelsInv(S)' /\ plan' = plan
        /\ cluster' \in [Nodes -> SUBSET Nodes] /\ leader_addr' \in [Nodes -> Nodes]
    BY <2>1 DEF Core, NodesInv, ChannelsInv
  <2> QED
    BY <1>1, <1>2, <2>2, <2>3, RoleChangeCore
<1> QED
  BY <1>3, <1>4

\* Leader::handle_request
LEMMA LeaderRequestOK ==
  ASSUME NEW S, Core(S), NEW m, NEW n \in Nodes, m \in Nodes => chan[m][n] # <<>>,
         NEW op \in Operation(S), NEW addr \in Nodes, LeaderRequest(m, n, op, addr),
         UNCHANGED <<events, asked, state, plan>>
  PROVE  Core(S)'
<1> DEFINE id == current_op_id[n]
           e  == [op |-> op, addr |-> addr, acks |-> 0]
<1>0. /\ NodesInv /\ ChannelsInv(S) /\ DatabasesInv(S) /\ StoredInv(S) /\ id \in Ids
      /\ cluster[n] \in SUBSET Nodes
  BY DEF Core, NodesInv
<1>1. role[n] = "leader" /\ operations' = [operations EXCEPT ![n] = Insert(@, id, e)]
  BY DEF LeaderRequest
<1>2. /\ ChannelsInv(S)' /\ RoleStep(n) /\ role'[n] = role[n]
      /\ cluster' \in [Nodes -> SUBSET Nodes] /\ leader_addr' = leader_addr
      /\ current_op_id' \in [Nodes -> Ids] /\ DatabasesInv(S)'
  <2>1. CASE /\ Execute(n, ChargeCmd(id, op)) /\ Ends(m, n, cluster[n], Silent, Nobody)
             /\ UNCHANGED current_op_id
    <3>1. DatabasesInv(S)'
      BY <1>0, <2>1, ExecuteOK, CommandFields
    <3>2. /\ ChannelsInv(S)' /\ RoleStep(n) /\ role'[n] = role[n]
          /\ cluster' \in [Nodes -> SUBSET Nodes] /\ leader_addr' = leader_addr
      BY <1>0, <2>1, EndsSilent
    <3> QED
      BY <1>0, <2>1, <3>1, <3>2 DEF NodesInv
  <2>2. CASE /\ \E complete \in BOOLEAN :
                  /\ Broadcasts(m, n, cluster[n], cluster[n] \ {n}, LogMsg(id, op), complete)
                  /\ current_op_id' = [current_op_id EXCEPT ![n] = IF complete THEN @ + 1 ELSE @]
             /\ UNCHANGED db
    <3>1. DatabasesInv(S)'
      BY <1>0, <2>2, SameDatabases
    <3>2. PICK complete \in BOOLEAN :
            /\ Broadcasts(m, n, cluster[n], cluster[n] \ {n}, LogMsg(id, op), complete)
            /\ current_op_id' = [current_op_id EXCEPT ![n] = IF complete THEN @ + 1 ELSE @]
      BY <2>2
    <3>3. LogMsg(id, op) \in Message(S)
      BY <1>0, MakeMessages
    <3>4. /\ ChannelsInv(S)' /\ RoleStep(n) /\ role'[n] = role[n]
          /\ cluster' \in [Nodes -> SUBSET Nodes] /\ leader_addr' = leader_addr
      BY <1>0, <1>1, <3>2, <3>3, BroadcastsOK
    <3>5. current_op_id' \in [Nodes -> Ids]
      BY <1>0, <3>2 DEF NodesInv, Ids
    <3> QED
      BY <3>1, <3>4, <3>5
  <2> QED
    BY <2>1, <2>2 DEF LeaderRequest
<1>3. Leads(n) /\ Leads(n)'
  BY <1>1, <1>2 DEF Leads
<1>4. StoredInv(S)'
  <2>1. e \in Stored(S, Leads(n))
    BY <1>3 DEF Stored
  <2>2. /\ Insert(operations[n], id, e) \in [DOMAIN Insert(operations[n], id, e) -> Stored(S, Leads(n))]
        /\ \E k \in Nat : DOMAIN Insert(operations[n], id, e) \subseteq 1..k
    BY <1>0, <2>1, StoredOps
  <2>3. /\ DOMAIN operations' = Nodes /\ operations'[n] = Insert(operations[n], id, e)
        /\ \A x \in Nodes \ {n} : operations'[x] = operations[x]
    BY <1>0, <1>1 DEF StoredInv
  <2> HIDE DEF e, id
  <2> QED
    BY <1>0, <1>2, <1>3, <2>2, <2>3, StoredStep
<1>5. NodesInv'
  BY <1>0, <1>2, NodesStep DEF NodesInv
<1> QED
  BY <1>2, <1>4, <1>5 DEF Core

\* Replica::handle_request
LEMMA ReplicaRequestOK ==
  ASSUME NEW S, Core(S), NEW m, NEW n \in Nodes, m \in Nodes => chan[m][n] # <<>>,
         NEW op \in Operation(S), NEW addr \in Nodes, ReplicaRequest(m, n, op, addr),
         UNCHANGED <<events, asked, state, plan>>
  PROVE  Core(S)'
<1>1. RequestMsg(op, addr) \in Message(S)
  BY MakeMessages
<1>2. /\ ChannelsInv(S)' /\ RoleStep(n)
      /\ cluster' \in [Nodes -> SUBSET Nodes] /\ leader_addr' = leader_addr
  BY <1>1, SendsToOK DEF ReplicaRequest, Core
<1>3. DatabasesInv(S)' /\ RoleChange(n, operations[n])
  BY SameDatabases DEF ReplicaRequest, Core
<1>4. leader_addr' \in [Nodes -> Nodes]
  BY <1>2 DEF Core, NodesInv
<1> QED
  BY <1>2, <1>3, <1>4, RoleChangeCore

\* handle_request of a leader (it stores and sends Logs) and of a replica (it passes it on).
LEMMA HandleRequestOK ==
  ASSUME NEW S, Core(S), NEW m \in Nodes, NEW n \in Nodes, HandleRequest(m, n)
  PROVE  Core(S)'
<1> DEFINE msg == Head(chan[m][n])
<1>1. chan[m][n] # <<>> /\ msg \in Message(S) /\ msg.type = "Request"
  BY MessageHead DEF HandleRequest, Core
<1>2. msg.op \in Operation(S) /\ msg.addr \in Nodes
  BY <1>1, MessageFields
<1>3. /\ LeaderRequest(m, n, msg.op, msg.addr) \/ ReplicaRequest(m, n, msg.op, msg.addr)
      /\ UNCHANGED <<events, asked, state, plan>>
  BY DEF HandleRequest, env
<1> HIDE DEF msg
<1> QED
  BY <1>1, <1>2, <1>3, LeaderRequestOK, ReplicaRequestOK

\* Replica::handle_log and commit_operation
LEMMA HandleLogOK ==
  ASSUME NEW S, Core(S), NEW m \in Nodes, NEW n \in Nodes, HandleLog(m, n)
  PROVE  Core(S)'
<1> DEFINE msg == Head(chan[m][n])
           id  == msg.id
           ops == Insert(operations[n], id, msg.op)
<1>1. chan[m][n] # <<>> /\ msg \in Message(S) /\ msg.type = "Log"
  BY MessageHead DEF HandleLog, Core
<1>2. id \in Ids /\ msg.op \in Operation(S)
  BY <1>1, MessageFields
<1>3. /\ role[n] = "replica" /\ UNCHANGED <<events, asked, state, plan>>
      /\ \/ /\ id = 1 /\ SendsTo(m, n, leader_addr[n], AckMsg(1)) /\ RoleChange(n, ops)
            /\ UNCHANGED db
         \/ /\ id > 1 /\ Ends(m, n, cluster[n], Silent, Nobody)
            /\ RoleChange(n, Restrict(ops, DOMAIN ops \ {id - 1}))
            /\ \/ id - 1 \in DOMAIN ops /\ Execute(n, ChargeCmd(id - 1, ops[id - 1]))
               \/ id - 1 \notin DOMAIN ops /\ UNCHANGED db
  BY DEF HandleLog, env
<1>4. Stored(S, Leads(n)) = Operation(S)
  BY <1>3 DEF Leads, Stored
<1>5. /\ NodesInv /\ ChannelsInv(S) /\ DatabasesInv(S) /\ StoredInv(S)
      /\ cluster[n] \in SUBSET Nodes /\ leader_addr \in [Nodes -> Nodes]
  BY DEF Core, NodesInv
<1> HIDE DEF msg
<1>6. /\ ops \in [DOMAIN ops -> Stored(S, Leads(n))]
      /\ \E k \in Nat : DOMAIN ops \subseteq 1..k
  <2>1. msg.op \in Stored(S, Leads(n)) /\ id \in Ids
    BY <1>2, <1>4
  <2> QED
    BY <1>5, <2>1, StoredOps
<1>7. PICK k \in Nat : DOMAIN ops \subseteq 1..k
  BY <1>6
<1> HIDE DEF ops, id
<1>8. CASE /\ id = 1 /\ SendsTo(m, n, leader_addr[n], AckMsg(1)) /\ RoleChange(n, ops)
           /\ UNCHANGED db
  <2>1. AckMsg(1) \in Message(S)
    BY MakeMessages DEF Ids
  <2>2. /\ ChannelsInv(S)' /\ RoleStep(n)
        /\ cluster' \in [Nodes -> SUBSET Nodes] /\ leader_addr' = leader_addr
    BY <1>1, <1>5, <1>8, <2>1, SendsToOK
  <2>3. StoredInv(S)' /\ current_op_id' \in [Nodes -> Ids]
    BY <1>5, <1>6, <1>7, <1>8, <2>2, RoleChangeOK
  <2>4. NodesInv'
    BY <1>3, <1>5, <2>2, <2>3, NodesStep
  <2>5. DatabasesInv(S)'
    BY <1>3, <1>5, <1>8, SameDatabases
  <2> QED
    BY <2>2, <2>3, <2>4, <2>5 DEF Core
<1>9. CASE /\ id > 1 /\ Ends(m, n, cluster[n], Silent, Nobody)
           /\ RoleChange(n, Restrict(ops, DOMAIN ops \ {id - 1}))
           /\ \/ id - 1 \in DOMAIN ops /\ Execute(n, ChargeCmd(id - 1, ops[id - 1]))
              \/ id - 1 \notin DOMAIN ops /\ UNCHANGED db
  <2> DEFINE rest == Restrict(ops, DOMAIN ops \ {id - 1})
  <2>1. /\ ChannelsInv(S)' /\ RoleStep(n)
        /\ cluster' \in [Nodes -> SUBSET Nodes] /\ leader_addr' = leader_addr
    BY <1>1, <1>5, <1>9, EndsSilent
  <2>2. rest \in [DOMAIN ops \ {id - 1} -> Stored(S, Leads(n))]
        /\ DOMAIN rest = DOMAIN ops \ {id - 1}
    BY <1>6, RestrictFact
  <2>3. rest \in [DOMAIN rest -> Stored(S, Leads(n))] /\ DOMAIN rest \subseteq 1..k
    BY <1>7, <2>2
  <2>4. RoleChange(n, rest)
    BY <1>9
  <2> HIDE DEF rest
  <2>5. StoredInv(S)' /\ current_op_id' \in [Nodes -> Ids]
    BY <1>5, <2>1, <2>3, <2>4, RoleChangeOK
  <2>6. NodesInv'
    BY <1>3, <1>5, <2>1, <2>5, NodesStep
  <2>7. DatabasesInv(S)'
    <3>1. CASE UNCHANGED db
      BY <1>3, <1>5, <3>1, SameDatabases
    <3>2. CASE id - 1 \in DOMAIN ops /\ Execute(n, ChargeCmd(id - 1, ops[id - 1]))
      <4>1. id - 1 \in Ids /\ ops[id - 1] \in Operation(S)
        BY <1>2, <1>4, <1>6, <1>9, <3>2 DEF Ids
      <4>2. ChargeCmd(id - 1, ops[id - 1]) \in Command(S)
        BY <4>1, CommandFields
      <4> QED
        BY <1>3, <1>5, <3>2, <4>2, ExecuteOK
    <3> QED
      BY <1>9, <3>1, <3>2
  <2> QED
    BY <2>1, <2>5, <2>6, <2>7 DEF Core
<1> QED
  BY <1>3, <1>8, <1>9

\* Leader::handle_ack
LEMMA HandleAckOK ==
  ASSUME NEW S, Core(S), NEW m \in Nodes, NEW n \in Nodes, HandleAck(m, n)
  PROVE  Core(S)'
<1> DEFINE id == Head(chan[m][n]).id
<1>1. chan[m][n] # <<>>
  BY DEF HandleAck, Receives
<1>2. /\ NodesInv /\ ChannelsInv(S) /\ DatabasesInv(S) /\ StoredInv(S)
      /\ cluster[n] \in SUBSET Nodes /\ leader_addr \in [Nodes -> Nodes]
      /\ current_op_id \in [Nodes -> Ids]
  BY DEF Core, NodesInv
<1>3. /\ role[n] = "leader" /\ Ends(m, n, cluster[n], Silent, Nobody)
      /\ UNCHANGED <<current_op_id, events, asked, state, plan>>
  BY DEF HandleAck, env
<1>4. /\ ChannelsInv(S)' /\ RoleStep(n) /\ role'[n] = role[n]
      /\ cluster' \in [Nodes -> SUBSET Nodes] /\ leader_addr' = leader_addr
  BY <1>1, <1>2, <1>3, EndsSilent
<1>5. Leads(n) /\ Leads(n)'
  BY <1>3, <1>4 DEF Leads
<1>6. CASE id \notin DOMAIN operations[n]
  <2>1. UNCHANGED <<operations, db>>
    BY <1>6 DEF HandleAck
  <2>2. DatabasesInv(S)'
    BY <1>2, <1>3, <2>1, SameDatabases
  <2> QED
    BY <1>2, <1>3, <1>4, <1>5, <2>1, <2>2, KeptCore
<1>7. CASE id \in DOMAIN operations[n]
  <2>1. /\ operations' = [operations EXCEPT ![n][id].acks = @ + 1]
        /\ Execute(n, ChargeCmd(id, operations[n][id].op)) \/ UNCHANGED db
    BY <1>7 DEF HandleAck
  <2> HIDE DEF id
  <2>2. /\ operations[n] \in [DOMAIN operations[n] -> [op : Operation(S), addr : Nodes, acks : Nat]]
        /\ \E k \in Nat : DOMAIN operations[n] \subseteq 1..k
    BY <1>2, <1>5, StoredNow DEF Stored
  <2>3. operations[n][id] \in [op : Operation(S), addr : Nodes, acks : Nat] /\ id \in Ids
    BY <1>7, <2>2 DEF Ids
  <2>4. [operations[n][id] EXCEPT !.acks = operations[n][id].acks + 1]
          \in [op : Operation(S), addr : Nodes, acks : Nat]
    BY <2>3
  <2>5. /\ DOMAIN operations' = Nodes
        /\ operations'[n] = [operations[n] EXCEPT ![id] =
                               [operations[n][id] EXCEPT !.acks = operations[n][id].acks + 1]]
        /\ \A x \in Nodes \ {n} : operations'[x] = operations[x]
    BY <1>2, <2>1 DEF StoredInv
  <2>6. /\ DOMAIN operations'[n] = DOMAIN operations[n]
        /\ operations'[n] \in [DOMAIN operations[n] -> [op : Operation(S), addr : Nodes, acks : Nat]]
    BY <2>2, <2>4, <2>5
  <2>7. StoredInv(S)'
    <3>1. Stored(S, Leads(n)') = [op : Operation(S), addr : Nodes, acks : Nat]
      BY <1>5 DEF Stored
    <3>2. operations'[n] \in [DOMAIN operations'[n] -> Stored(S, Leads(n)')]
      BY <2>6, <3>1
    <3>3. \E k \in Nat : DOMAIN operations'[n] \subseteq 1..k
      BY <2>2, <2>6
    <3> QED
      BY <1>2, <1>4, <2>5, <3>2, <3>3, StoredStep
  <2>8. DatabasesInv(S)'
    <3>1. CASE UNCHANGED db
      BY <1>2, <1>3, <3>1, SameDatabases
    <3>2. CASE Execute(n, ChargeCmd(id, operations[n][id].op))
      <4>1. ChargeCmd(id, operations[n][id].op) \in Command(S)
        BY <2>3, CommandFields
      <4> QED
        BY <1>2, <1>3, <3>2, <4>1, ExecuteOK
    <3> QED
      BY <2>1, <3>1, <3>2
  <2>9. NodesInv'
    BY <1>2, <1>3, <1>4, NodesStep
  <2> QED
    BY <1>4, <2>7, <2>8, <2>9 DEF Core
<1> QED
  BY <1>6, <1>7

\* Replica::handle_response
LEMMA HandleResponseOK ==
  ASSUME NEW S, Core(S), NEW m \in Nodes, NEW n \in Nodes, HandleResponse(m, n)
  PROVE  Core(S)' /\ Head(chan[m][n]).op \in Operation(S)
<1>1. chan[m][n] # <<>> /\ Head(chan[m][n]) \in Message(S) /\ Head(chan[m][n]).type = "Response"
  BY MessageHead DEF HandleResponse, Core
<1>2. /\ Ends(m, n, cluster[n], Silent, Nobody)
      /\ UNCHANGED <<current_op_id, operations, db, events, asked, state, plan>>
  BY DEF HandleResponse, env, data
<1>3. NodesInv /\ ChannelsInv(S) /\ cluster[n] \in SUBSET Nodes
  BY DEF Core, NodesInv
<1>4. /\ ChannelsInv(S)' /\ RoleStep(n) /\ role'[n] = role[n]
      /\ cluster' \in [Nodes -> SUBSET Nodes] /\ leader_addr' = leader_addr
  BY <1>1, <1>2, <1>3, EndsSilent
<1>5. Leads(n)' = Leads(n) /\ DatabasesInv(S)'
  BY <1>2, <1>4, SameDatabases DEF Leads, Core
<1>6. leader_addr' \in [Nodes -> Nodes] /\ current_op_id' \in [Nodes -> Ids]
  BY <1>2, <1>4 DEF Core, NodesInv
<1> QED
  BY <1>1, <1>2, <1>4, <1>5, <1>6, KeptCore, MessageFields

\* Replica::start
LEMMA StartOK ==
  ASSUME NEW S, Core(S), NEW n \in Nodes, Start(n)
  PROVE  Core(S)'
<1>1. PICK l \in Nodes :
        /\ leader_addr' = [leader_addr EXCEPT ![n] = l]
        /\ cluster' = [cluster EXCEPT ![n] = {l}]
        /\ Transfer(Nobody, n, Send(l, JoinMsg(n)))
  BY DEF Start
<1>2. /\ role[n] = "down" /\ role' = [role EXCEPT ![n] = "replica"]
      /\ UNCHANGED <<current_op_id, operations, db, events, asked, state, plan>>
  BY DEF Start, env, data
<1>3. \A q \in Nodes : Send(l, JoinMsg(n))[q] \in Seq(Message(S))
  BY MakeMessages, OneMessage
<1>4. Nobody \notin Nodes
  BY ScenariosAssumption DEF Nobody
<1>5. ChannelsInv(S)'
  BY <1>1, <1>3, <1>4, TransferOK DEF Core
<1>6. RoleStep(n) /\ role'[n] = "replica"
  BY <1>2 DEF RoleStep, Roles, Core, NodesInv
<1>7. Leads(n)' = Leads(n)
  BY <1>2, <1>6 DEF Leads
<1>8. /\ leader_addr' \in [Nodes -> Nodes] /\ cluster' \in [Nodes -> SUBSET Nodes]
      /\ current_op_id' \in [Nodes -> Ids] /\ DatabasesInv(S)'
  BY <1>1, <1>2, SameDatabases DEF Core, NodesInv
<1> QED
  BY <1>2, <1>5, <1>6, <1>7, <1>8, KeptCore

\* Leader::handle_join and Replica::handle_join
LEMMA HandleJoinOK ==
  ASSUME NEW S, Core(S), NEW m \in Nodes, NEW n \in Nodes, HandleJoin(m, n)
  PROVE  Core(S)'
<1> DEFINE addr    == Head(chan[m][n]).addr
           members == cluster[n] \cup {addr}
<1>1. chan[m][n] # <<>> /\ Head(chan[m][n]) \in Message(S) /\ Head(chan[m][n]).type = "Join"
  BY MessageHead DEF HandleJoin, Core
<1>2. addr \in Nodes
  BY <1>1, MessageFields
<1>3. /\ NodesInv /\ ChannelsInv(S) /\ DatabasesInv(S) /\ StoredInv(S)
      /\ members \in SUBSET Nodes /\ leader_addr \in [Nodes -> Nodes]
      /\ current_op_id \in [Nodes -> Ids]
  BY <1>2 DEF Core, NodesInv
<1>4. UNCHANGED <<events, asked, state, plan>>
  BY DEF HandleJoin, env
<1>5. CASE /\ role[n] = "leader" /\ Execute(n, GetCmd(addr))
           /\ \E complete \in BOOLEAN :
                Broadcasts(m, n, members, Told(n, members, addr), UpdateMsg(addr), complete)
           /\ UNCHANGED <<current_op_id, operations>>
  <2>1. PICK complete \in BOOLEAN :
          Broadcasts(m, n, members, Told(n, members, addr), UpdateMsg(addr), complete)
    BY <1>5
  <2>2. UpdateMsg(addr) \in Message(S)
    BY <1>2, MakeMessages
  <2>3. GetCmd(addr) \in Command(S)
    BY <1>2, CommandFields
  <2> HIDE DEF addr, members
  <2>4. /\ ChannelsInv(S)' /\ RoleStep(n) /\ role'[n] = role[n]
        /\ cluster' \in [Nodes -> SUBSET Nodes] /\ leader_addr' = leader_addr
    BY <1>1, <1>3, <1>5, <2>1, <2>2, BroadcastsOK
  <2>5. DatabasesInv(S)'
    BY <1>3, <1>4, <1>5, <2>3, ExecuteOK
  <2>6. Leads(n)' = Leads(n)
    BY <2>4 DEF Leads
  <2> QED
    BY <1>3, <1>4, <1>5, <2>4, <2>5, <2>6, KeptCore
<1>6. CASE /\ role[n] = "replica" /\ SendsTo(m, n, leader_addr[n], JoinMsg(addr))
           /\ RoleChange(n, operations[n]) /\ UNCHANGED db
  <2>1. JoinMsg(addr) \in Message(S)
    BY <1>2, MakeMessages
  <2> HIDE DEF addr, members
  <2>2. /\ ChannelsInv(S)' /\ RoleStep(n)
        /\ cluster' \in [Nodes -> SUBSET Nodes] /\ leader_addr' = leader_addr
    BY <1>1, <1>3, <1>6, <2>1, SendsToOK
  <2>3. DatabasesInv(S)'
    BY <1>3, <1>4, <1>6, SameDatabases
  <2> QED
    BY <1>3, <1>4, <1>6, <2>2, <2>3, RoleChangeCore
<1> QED
  BY <1>5, <1>6 DEF HandleJoin

\* handle_cluster_update: a member more.
LEMMA HandleClusterUpdateOK ==
  ASSUME NEW S, Core(S), NEW m \in Nodes, NEW n \in Nodes, HandleClusterUpdate(m, n)
  PROVE  Core(S)'
<1> DEFINE members == IF role[n] = "leader" THEN cluster[n]
                      ELSE cluster[n] \cup {Head(chan[m][n]).member}
<1>1. chan[m][n] # <<>> /\ Head(chan[m][n]) \in Message(S) /\ Head(chan[m][n]).type = "ClusterUpdate"
  BY MessageHead DEF HandleClusterUpdate, Core
<1>2. members \in SUBSET Nodes
  BY <1>1, MessageFields DEF Core, NodesInv
<1>3. /\ Ends(m, n, members, Silent, Nobody)
      /\ UNCHANGED <<current_op_id, operations, db, events, asked, state, plan>>
  BY DEF HandleClusterUpdate, env, data
<1> HIDE DEF members
<1>4. /\ ChannelsInv(S)' /\ RoleStep(n) /\ role'[n] = role[n]
      /\ cluster' \in [Nodes -> SUBSET Nodes] /\ leader_addr' = leader_addr
  BY <1>1, <1>2, <1>3, EndsSilent DEF Core
<1>5. Leads(n)' = Leads(n) /\ DatabasesInv(S)'
  BY <1>3, <1>4, SameDatabases DEF Leads, Core
<1>6. leader_addr' \in [Nodes -> Nodes] /\ current_op_id' \in [Nodes -> Ids]
  BY <1>3, <1>4 DEF Core, NodesInv
<1> QED
  BY <1>3, <1>4, <1>5, <1>6, KeptCore

\* handle_cluster_view: the members, the leader and the database of the leader.
LEMMA HandleClusterViewOK ==
  ASSUME NEW S, Core(S), NEW m \in Nodes, NEW n \in Nodes, HandleClusterView(m, n)
  PROVE  Core(S)'
<1> DEFINE view   == Head(chan[m][n])
           elects == role[n] = "leader" \/ view.leader > n
           out    == IF elects THEN Calls(n, view.members) ELSE Silent
<1>1. chan[m][n] # <<>> /\ view \in Message(S) /\ view.type = "ClusterView"
  BY MessageHead DEF HandleClusterView, Core
<1>2. view.members \in SUBSET Nodes /\ view.leader \in Nodes /\ view.state \in Snapshot(S)
  BY <1>1, MessageFields
<1>3. /\ Install(n, view) /\ Transfer(m, n, out)
      /\ leader_addr' = [leader_addr EXCEPT ![n] = IF role[n] = "replica" THEN view.leader ELSE @]
      /\ UNCHANGED <<role, current_op_id, operations, asked, events, state, plan>>
  BY DEF HandleClusterView, env
<1>4. \A p \in Nodes : out[p] \in Seq(Message(S))
  BY CallsOK
<1>5. ReplaceCmd(view.state) \in Command(S)
  BY <1>2, CommandFields
<1> HIDE DEF out, view
<1>6. ChannelsInv(S)'
  BY <1>1, <1>3, <1>4, TransferOK DEF Core, view
<1>7. DatabasesInv(S)' /\ cluster' = [cluster EXCEPT ![n] = view.members]
  BY <1>3, <1>5, ExecuteOK DEF Install, Core
<1>8. /\ RoleStep(n) /\ Leads(n)' = Leads(n)
      /\ leader_addr' \in [Nodes -> Nodes] /\ cluster' \in [Nodes -> SUBSET Nodes]
      /\ current_op_id' \in [Nodes -> Ids]
  BY <1>2, <1>3, <1>7 DEF RoleStep, Roles, Leads, Core, NodesInv
<1> QED
  BY <1>3, <1>6, <1>7, <1>8, KeptCore

-----------------------------------------------------------------------------
(* OFFLINE mode, and the end of a node *)

\* How much of a queue is left when a stream is cut.
LEMMA CutsFact ==
  ASSUME NEW queues, NEW k \in Cuts(queues), NEW p \in Nodes
  PROVE  k[p] \in 0..Len(queues[p])
BY DEF Cuts, Through

\* What is left of a queue, and of the end of the stream after it.
LEMMA CutQueue ==
  ASSUME NEW S, NEW q \in Seq(Message(S)), NEW k \in 0..Len(q)
  PROVE  /\ SubSeq(q, 1, k) \in Seq(Message(S))
         /\ SubSeq(q, 1, k) \o <<>> \in Seq(Message(S))
         /\ SubSeq(q, 1, k) \o <<LostMsg>> \in Seq(Message(S))
         /\ <<>> \in Seq(Message(S))
<1>1. LostMsg \in Message(S)
  BY DEF Message, LostMsg
<1> DEFINE T == Message(S)
<1>2. q \in Seq(T) /\ LostMsg \in T
  BY <1>1
<1> HIDE DEF T
<1>3. SubSeq(q, 1, k) \in Seq(T) /\ <<>> \in Seq(T) /\ <<LostMsg>> \in Seq(T)
  BY <1>2
<1>4. \A s, t \in Seq(T) : s \o t \in Seq(T)
  OBVIOUS
<1> QED
  BY <1>3, <1>4 DEF T

\* A node that crashes or panics: the ends of its streams are in the channels.
LEMMA StopsOK ==
  ASSUME NEW S, NodesInv, ChannelsInv(S), NEW n \in Nodes, NEW how \in Roles, Stops(n, how)
  PROVE  /\ ChannelsInv(S)' /\ RoleStep(n)
         /\ UNCHANGED <<plan, leader_addr, cluster>>
<1> DEFINE T == Message(S)
           end(y) == IF Linked(n, y) /\ Running(y) THEN <<LostMsg>> ELSE <<>>
<1>1. PICK written \in Cuts(chan[n]), queued \in Cuts(backlog[n]) :
        chan' = [x \in Nodes |-> [y \in Nodes |->
          IF y = n THEN <<>>
          ELSE IF x # n THEN chan[x][y]
          ELSE SubSeq(chan[n][y], 1, written[y]) \o SubSeq(backlog[n][y], 1, queued[y]) \o end(y)]]
  BY DEF Stops
<1>2. /\ \A x, y \in Nodes : chan[x][y] \in Seq(T) /\ backlog[x][y] \in Seq(T)
      /\ backlog' = [x \in Nodes |-> [y \in Nodes |-> IF n \in {x, y} THEN <<>> ELSE backlog[x][y]]]
  BY DEF ChannelsInv, Stops
<1>3. ASSUME NEW y \in Nodes
      PROVE  SubSeq(chan[n][y], 1, written[y]) \o SubSeq(backlog[n][y], 1, queued[y]) \o end(y) \in Seq(T)
  <2>1. written[y] \in 0..Len(chan[n][y]) /\ queued[y] \in 0..Len(backlog[n][y])
    BY CutsFact
  <2>2. SubSeq(chan[n][y], 1, written[y]) \in Seq(T) /\ SubSeq(backlog[n][y], 1, queued[y]) \in Seq(T)
    BY <1>2, <2>1, CutQueue
  <2>3. end(y) \in Seq(T)
    <3>1. LostMsg \in T
      BY DEF Message, LostMsg
    <3> HIDE DEF T
    <3>2. <<>> \in Seq(T) /\ <<LostMsg>> \in Seq(T)
      BY <3>1
    <3> QED
      BY <3>2
  <2>4. \A s, t, u \in Seq(T) : s \o t \o u \in Seq(T)
    <3> HIDE DEF T
    <3> QED
      OBVIOUS
  <2> HIDE DEF T, end
  <2> QED
    BY <2>2, <2>3, <2>4
<1>4. ChannelsInv(S)'
  <2> HIDE DEF T, end
  <2>1. chan' \in [Nodes -> [Nodes -> Seq(T)]]
    BY <1>1, <1>2, <1>3
  <2>2. backlog' \in [Nodes -> [Nodes -> Seq(T)]]
    BY <1>2
  <2> QED
    BY <2>1, <2>2 DEF ChannelsInv, T
<1>5. RoleStep(n)
  BY DEF Stops, RoleStep, Roles, NodesInv
<1> QED
  BY <1>4, <1>5 DEF Stops

\* A node that stops leaves nothing behind.
LEMMA WipeOK ==
  ASSUME NEW S, Core(S), NEW n \in Nodes, NEW how \in Roles, Stops(n, how), Wipe(n)
  PROVE  Core(S)'
<1>1. ChannelsInv(S)' /\ RoleStep(n) /\ UNCHANGED <<plan, leader_addr, cluster>>
  BY StopsOK DEF Core
<1>2. DatabasesInv(S)'
  <2>1. <<>> \in Seq(Command(S)) /\ <<>> \in Seq(Outcome(S)) /\ NoActors \in Snapshot(S)
    BY DEF Snapshot
  <2> QED
    BY <2>1 DEF Wipe, Core, DatabasesInv
<1>3. StoredInv(S)'
  <2>1. /\ DOMAIN operations' = Nodes /\ operations'[n] = Empty
        /\ \A x \in Nodes \ {n} : operations'[x] = operations[x]
    BY DEF Wipe, Core, StoredInv
  <2>2. Empty \in [DOMAIN Empty -> Stored(S, Leads(n)')] /\ DOMAIN Empty \subseteq 1..0 /\ 0 \in Nat
    BY DEF Empty
  <2> QED
    BY <1>1, <2>1, <2>2, StoredStep DEF Core
<1>4. current_op_id' \in [Nodes -> Ids]
  BY DEF Wipe, Core, NodesInv, Ids
<1>5. NodesInv'
  BY <1>1, <1>4, NodesStep DEF Core, NodesInv
<1> QED
  BY <1>1, <1>2, <1>3, <1>5 DEF Core

\* CCrash, MessagePanic and ResultPanic
LEMMA StoppedOK ==
  ASSUME NEW S, Core(S), NEW n \in Nodes,
         CCrash(n) \/ (\E m \in Nodes : MessagePanic(m, n)) \/ ResultPanic(n)
  PROVE  Core(S)' /\ Wipe(n)
<1>1. Wipe(n) /\ (Stops(n, "crashed") \/ Stops(n, "panicked"))
  BY DEF CCrash, Crash, MessagePanic, Panic, ResultPanic
<1> QED
  BY <1>1, WipeOK DEF Roles

\* handle_disconnect_node
LEMMA DisconnectOK ==
  ASSUME NEW S, Core(S), NEW n \in Nodes, Disconnect(n)
  PROVE  Core(S)'
<1>1. PICK sent \in Cuts(chan[n]), got \in Cuts([y \in Nodes |-> chan[y][n]]) :
        chan' = [x \in Nodes |-> [y \in Nodes |->
          IF y = n THEN SubSeq(chan[x][n], 1, got[x])
          ELSE IF x # n THEN chan[x][y]
          ELSE SubSeq(chan[n][y], 1, sent[y])
                 \o (IF {n, y} \in conn /\ Running(y) THEN <<LostMsg>> ELSE <<>>)]]
  BY DEF Disconnect
<1>2. \A x, y \in Nodes : chan[x][y] \in Seq(Message(S))
  BY DEF ChannelsInv, Core
<1>3. ASSUME NEW x \in Nodes, NEW y \in Nodes
      PROVE  (IF y = n THEN SubSeq(chan[x][n], 1, got[x])
              ELSE IF x # n THEN chan[x][y]
              ELSE SubSeq(chan[n][y], 1, sent[y])
                     \o (IF {n, y} \in conn /\ Running(y) THEN <<LostMsg>> ELSE <<>>))
                \in Seq(Message(S))
  <2>1. sent[y] \in 0..Len(chan[n][y])
    BY CutsFact
  <2>2. got[x] \in 0..Len(chan[x][n])
    <3>1. got[x] \in 0..Len([z \in Nodes |-> chan[z][n]][x])
      BY CutsFact
    <3> QED
      BY <3>1
  <2>3. /\ SubSeq(chan[n][y], 1, sent[y]) \o <<>> \in Seq(Message(S))
        /\ SubSeq(chan[n][y], 1, sent[y]) \o <<LostMsg>> \in Seq(Message(S))
    BY <1>2, <2>1, CutQueue
  <2>4. SubSeq(chan[x][n], 1, got[x]) \in Seq(Message(S))
    BY <1>2, <2>2, CutQueue
  <2> QED
    BY <1>2, <2>3, <2>4
<1>4. ChannelsInv(S)'
  <2>1. chan' \in [Nodes -> [Nodes -> Seq(Message(S))]]
    BY <1>1, <1>3
  <2>2. backlog' \in [Nodes -> [Nodes -> Seq(Message(S))]]
    BY DEF Disconnect, ChannelsInv, Core
  <2> QED
    BY <2>1, <2>2 DEF ChannelsInv
<1>5. /\ role' = [role EXCEPT ![n] = IF @ = "leader" THEN "leader_off" ELSE "replica_off"]
      /\ role[n] \in {"leader", "replica"}
      /\ UNCHANGED <<leader_addr, cluster, current_op_id, operations, db, events, asked, state, plan>>
  BY DEF Disconnect, data, Running
<1>6. RoleStep(n) /\ Leads(n)' = Leads(n)
  BY <1>5 DEF RoleStep, Roles, Leads, Core, NodesInv
<1>7. /\ DatabasesInv(S)' /\ leader_addr' \in [Nodes -> Nodes]
      /\ cluster' \in [Nodes -> SUBSET Nodes] /\ current_op_id' \in [Nodes -> Ids]
  BY <1>5, SameDatabases DEF Core, NodesInv
<1> QED
  BY <1>4, <1>5, <1>6, <1>7, KeptCore

\* handle_connect_node
LEMMA ConnectOK ==
  ASSUME NEW S, Core(S), NEW n \in Nodes, Connect(n)
  PROVE  Core(S)'
<1>1. PICK asks :
        Transfer(Nobody, n, [p \in Nodes |->
          IF p \notin asks THEN <<>>
          ELSE IF <<n, p>> \in stale THEN <<JoinMsg(n), JoinMsg(n)>> ELSE <<JoinMsg(n)>>])
  BY DEF Connect
<1> DEFINE out == [p \in Nodes |->
             IF p \notin asks THEN <<>>
             ELSE IF <<n, p>> \in stale THEN <<JoinMsg(n), JoinMsg(n)>> ELSE <<JoinMsg(n)>>]
<1>2. \A p \in Nodes : out[p] \in Seq(Message(S))
  <2>1. JoinMsg(n) \in Message(S)
    BY MakeMessages
  <2> DEFINE T == Message(S)
  <2>2. JoinMsg(n) \in T
    BY <2>1
  <2> HIDE DEF T
  <2>3. <<JoinMsg(n), JoinMsg(n)>> \in Seq(T) /\ <<JoinMsg(n)>> \in Seq(T) /\ <<>> \in Seq(T)
    BY <2>2
  <2> QED
    BY <2>3 DEF T
<1>3. Transfer(Nobody, n, out)
  BY <1>1
<1> HIDE DEF out
<1>4. Nobody \notin Nodes
  BY ScenariosAssumption DEF Nobody
<1>5. ChannelsInv(S)'
  BY <1>2, <1>3, <1>4, TransferOK DEF Core
<1>6. /\ role' = [role EXCEPT ![n] = IF @ = "leader_off" THEN "leader" ELSE "replica"]
      /\ role[n] \in {"leader_off", "replica_off"}
      /\ UNCHANGED <<leader_addr, cluster, current_op_id, operations, db, events, asked, state, plan>>
  BY DEF Connect, data, env, Started, Running
<1>7. RoleStep(n) /\ Leads(n)' = Leads(n)
  BY <1>6 DEF RoleStep, Roles, Leads, Core, NodesInv
<1>8. /\ DatabasesInv(S)' /\ leader_addr' \in [Nodes -> Nodes]
      /\ cluster' \in [Nodes -> SUBSET Nodes] /\ current_op_id' \in [Nodes -> Ids]
  BY <1>6, SameDatabases DEF Core, NodesInv
<1> QED
  BY <1>5, <1>6, <1>7, <1>8, KeptCore

-----------------------------------------------------------------------------
(* The database *)

\* What the card of a node holds are charges.
LEMMA HeldOK ==
  ASSUME NEW S, DatabasesInv(S), NEW n \in Nodes
  PROVE  Held(n) \in Seq(S) /\ Held(n) \in Snapshot(S) /\ state[n] \in Snapshot(S)
<1>1. state[n] \in {NoActors} \cup Seq(S)
  BY DEF DatabasesInv, Snapshot
<1>2. Held(n) \in Seq(S)
  BY <1>1 DEF Held
<1> QED
  BY <1>1, <1>2 DEF Snapshot

\* The event of a database reaches the node when it is one.
LEMMA EmitOK ==
  ASSUME NEW S, DatabasesInv(S), NEW n \in Nodes, NEW e \in Outcome(S), Emit(n, e)
  PROVE  events' \in [Nodes -> Seq(Outcome(S))]
<1>1. events[n] \in Seq(Outcome(S)) /\ events' = [events EXCEPT ![n] = Append(@, e)]
  BY DEF DatabasesInv, Emit
<1>2. Append(events[n], e) \in Seq(Outcome(S))
  BY <1>1, SeqFacts
<1> QED
  BY <1>1, <1>2 DEF DatabasesInv

\* A command that overtakes others, and the queue without it and from there on.
LEMMA CommandAt ==
  ASSUME NEW S, DatabasesInv(S), NEW n \in Nodes, NEW i \in DOMAIN db[n]
  PROVE  /\ db[n][i] \in Command(S) /\ RemoveAt(db[n], i) \in Seq(Command(S))
         /\ SubSeq(db[n], i + 1, Len(db[n])) \in Seq(Command(S))
<1> DEFINE T == Command(S)
           s == db[n]
<1>1. s \in Seq(T) /\ i \in DOMAIN s
  BY DEF DatabasesInv
<1> HIDE DEF T, s
<1>2. s[i] \in T /\ i \in 1..Len(s) /\ Len(s) \in Nat
  BY <1>1
<1>3. i - 1 \in Nat /\ i - 1 <= Len(s) /\ i + 1 \in Nat /\ i + 1 >= 1
  BY <1>2
<1>4. SubSeq(s, 1, i - 1) \in Seq(T) /\ SubSeq(s, i + 1, Len(s)) \in Seq(T)
  BY <1>1, <1>2, <1>3, SeqFacts
<1>5. RemoveAt(s, i) \in Seq(T)
  BY <1>4 DEF RemoveAt
<1> QED
  BY <1>2, <1>4, <1>5 DEF T, s

\* The events that a database makes, and what each carries.
LEMMA OutcomeFields ==
  ASSUME NEW S
  PROVE  /\ \A id \in Ids : [type |-> "Charge", id |-> id] \in Outcome(S)
         /\ \A p \in Nodes, snap \in Snapshot(S) :
              [type |-> "GetDatabase", addr |-> p, state |-> snap] \in Outcome(S)
         /\ [type |-> "ReplaceDatabase"] \in Outcome(S)
         /\ NoActors \in Snapshot(S)
         /\ \A x \in Outcome(S) :
              /\ x.type = "Charge" => x.id \in Ids
              /\ x.type = "GetDatabase" => x.addr \in Nodes /\ x.state \in Snapshot(S)
BY DEF Outcome, Snapshot

\* The steps of the database disturb nothing else.
LEMMA DatabaseCore ==
  ASSUME NEW S, Core(S), UNCHANGED <<vars, current_op_id, operations>>, DatabasesInv(S)'
  PROVE  Core(S)'
<1>1. NodesInv' /\ ChannelsInv(S)'
  BY DEF Core, NodesInv, ChannelsInv, vars, net
<1>2. StoredInv(S)'
  BY DEF Core, StoredInv, Leads, vars
<1> QED
  BY <1>1, <1>2 DEF Core

\* A database executes a command or answers what it was asked.
LEMMA DatabaseOK ==
  ASSUME NEW S, Core(S), NEW n \in Nodes, Database(n)
  PROVE  Core(S)' /\ UNCHANGED <<offline_queue, history>>
<1>0. DatabasesInv(S)
  BY DEF Core
<1>1. UNCHANGED <<vars, current_op_id, operations>> /\ UNCHANGED <<offline_queue, history>>
  BY DEF Database, DbCharge, DbGet, DbCollect, DbReplace
<1>2. CASE DbCharge(n)
  <2> DEFINE cmd == Head(db[n])
  <2>1. /\ db[n] # <<>> /\ cmd.type = "Charge"
        /\ state' = [state EXCEPT ![n] = Append(Held(n), cmd.op.req)]
        /\ Emit(n, [type |-> "Charge", id |-> cmd.id])
        /\ db' = [db EXCEPT ![n] = Tail(@)] /\ UNCHANGED asked
    BY <1>2 DEF DbCharge
  <2>2. db[n] \in Seq(Command(S))
    BY <1>0 DEF DatabasesInv
  <2>3. cmd \in Command(S) /\ Tail(db[n]) \in Seq(Command(S))
    BY <2>1, <2>2, SeqFacts
  <2>4. cmd.id \in Ids /\ cmd.op.req \in S
    BY <2>1, <2>3, CommandFields DEF Operation
  <2> HIDE DEF cmd
  <2>5. events' \in [Nodes -> Seq(Outcome(S))]
    BY <1>0, <2>1, <2>4, OutcomeFields, EmitOK
  <2>6. Append(Held(n), cmd.op.req) \in Snapshot(S)
    BY <1>0, <2>4, HeldOK, SeqFacts DEF Snapshot
  <2>7. DatabasesInv(S)'
    BY <1>0, <2>1, <2>3, <2>5, <2>6 DEF DatabasesInv
  <2> QED
    BY <1>1, <2>7, DatabaseCore
<1>3. CASE DbGet(n)
  <2>1. PICK i \in 1..Len(db[n]) :
          /\ Overtakes(n, i, "GetDatabase")
          /\ db' = [db EXCEPT ![n] = RemoveAt(@, i)]
          /\ \/ /\ i = 1 /\ state[n] = NoActors
                /\ Emit(n, [type |-> "GetDatabase", addr |-> db[n][i].addr, state |-> NoActors])
                /\ UNCHANGED asked
             \/ /\ i > 1 \/ state[n] # NoActors
                /\ \E s \in {Held(n)} \cup (IF asked[n] = NoSnapshot THEN {} ELSE {asked[n].state}) :
                     asked' = [asked EXCEPT ![n] = [addr |-> db[n][i].addr, state |-> s]]
                /\ UNCHANGED events
    BY <1>3 DEF DbGet
  <2>2. UNCHANGED state
    BY <1>3 DEF DbGet
  <2>3. i \in DOMAIN db[n] /\ db[n][i].type = "GetDatabase"
    BY <2>1 DEF Overtakes
  <2>4. db[n][i] \in Command(S) /\ RemoveAt(db[n], i) \in Seq(Command(S))
    BY <1>0, <2>3, CommandAt
  <2>5. db[n][i].addr \in Nodes
    BY <2>3, <2>4, CommandFields
  <2>6. db' \in [Nodes -> Seq(Command(S))]
    BY <1>0, <2>1, <2>4 DEF DatabasesInv
  <2>7. events' \in [Nodes -> Seq(Outcome(S))]
    <3>1. [type |-> "GetDatabase", addr |-> db[n][i].addr, state |-> NoActors] \in Outcome(S)
      BY <2>5, OutcomeFields
    <3> QED
      BY <1>0, <2>1, <3>1, EmitOK DEF DatabasesInv
  <2>8. asked' \in [Nodes -> {NoSnapshot} \cup [addr : Nodes \cup {Replaced}, state : Snapshot(S)]]
    <3>1. ASSUME NEW s \in {Held(n)} \cup (IF asked[n] = NoSnapshot THEN {} ELSE {asked[n].state})
          PROVE  s \in Snapshot(S)
      <4>1. Held(n) \in Snapshot(S)
        BY <1>0, HeldOK
      <4>2. asked[n] # NoSnapshot => asked[n].state \in Snapshot(S)
        BY <1>0 DEF DatabasesInv
      <4> QED
        BY <4>1, <4>2
    <3> DEFINE U == {NoSnapshot} \cup [addr : Nodes \cup {Replaced}, state : Snapshot(S)]
    <3>2. asked \in [Nodes -> U]
      BY <1>0 DEF DatabasesInv
    <3>3. \A s \in Snapshot(S) : [addr |-> db[n][i].addr, state |-> s] \in U
      BY <2>5
    <3> HIDE DEF U
    <3>4. CASE UNCHANGED asked
      BY <3>2, <3>4 DEF U
    <3>5. ASSUME NEW s \in {Held(n)} \cup (IF asked[n] = NoSnapshot THEN {} ELSE {asked[n].state}),
                 asked' = [asked EXCEPT ![n] = [addr |-> db[n][i].addr, state |-> s]]
          PROVE  asked' \in [Nodes -> U]
      <4>1. [addr |-> db[n][i].addr, state |-> s] \in U
        BY <3>1, <3>3
      <4> QED
        BY <3>2, <3>5, <4>1
    <3> QED
      BY <2>1, <3>4, <3>5 DEF U
  <2>9. DatabasesInv(S)'
    BY <1>0, <2>2, <2>6, <2>7, <2>8 DEF DatabasesInv
  <2> QED
    BY <1>1, <2>9, DatabaseCore
<1>4. CASE DbCollect(n)
  <2> DEFINE e == IF asked[n].addr = Replaced THEN [type |-> "ReplaceDatabase"]
                  ELSE [type |-> "GetDatabase", addr |-> asked[n].addr, state |-> asked[n].state]
  <2>1. /\ asked[n] # NoSnapshot /\ Emit(n, e)
        /\ asked' = [asked EXCEPT ![n] = NoSnapshot] /\ UNCHANGED <<db, state>>
    BY <1>4 DEF DbCollect
  <2>2. asked[n] \in [addr : Nodes \cup {Replaced}, state : Snapshot(S)]
    BY <1>0, <2>1 DEF DatabasesInv
  <2>3. e \in Outcome(S)
    BY <2>2, OutcomeFields
  <2> HIDE DEF e
  <2>4. events' \in [Nodes -> Seq(Outcome(S))]
    BY <1>0, <2>1, <2>3, EmitOK
  <2>5. DatabasesInv(S)'
    BY <1>0, <2>1, <2>4 DEF DatabasesInv
  <2> QED
    BY <1>1, <2>5, DatabaseCore
<1>5. CASE DbReplace(n)
  <2>1. PICK i \in 1..Len(db[n]) :
          /\ Overtakes(n, i, "ReplaceDatabase")
          /\ \/ /\ db[n][i].state = NoActors
                /\ db' = [db EXCEPT ![n] = RemoveAt(@, i)]
                /\ UNCHANGED state
             \/ /\ db[n][i].state # NoActors
                /\ db' = [db EXCEPT ![n] = SubSeq(@, i + 1, Len(@))]
                /\ state' = [state EXCEPT ![n] = db[n][i].state]
    BY <1>5 DEF DbReplace
  <2>2. /\ asked' = [asked EXCEPT ![n] = IF @ = NoSnapshot THEN @ ELSE [@ EXCEPT !.addr = Replaced]]
        /\ Emit(n, [type |-> "ReplaceDatabase"])
    BY <1>5 DEF DbReplace
  <2>3. i \in DOMAIN db[n] /\ db[n][i].type = "ReplaceDatabase"
    BY <2>1 DEF Overtakes
  <2>4. /\ db[n][i] \in Command(S) /\ RemoveAt(db[n], i) \in Seq(Command(S))
        /\ SubSeq(db[n], i + 1, Len(db[n])) \in Seq(Command(S))
    BY <1>0, <2>3, CommandAt
  <2>5. db[n][i].state \in Snapshot(S)
    BY <2>3, <2>4, CommandFields
  <2>6. db' \in [Nodes -> Seq(Command(S))] /\ state' \in [Nodes -> Snapshot(S)]
    BY <1>0, <2>1, <2>4, <2>5 DEF DatabasesInv
  <2>7. events' \in [Nodes -> Seq(Outcome(S))]
    BY <1>0, <2>2, OutcomeFields, EmitOK
  <2>8. asked' \in [Nodes -> {NoSnapshot} \cup [addr : Nodes \cup {Replaced}, state : Snapshot(S)]]
    BY <1>0, <2>2 DEF DatabasesInv
  <2>9. DatabasesInv(S)'
    BY <2>6, <2>7, <2>8 DEF DatabasesInv
  <2> QED
    BY <1>1, <2>9, DatabaseCore
<1> QED
  BY <1>1, <1>2, <1>3, <1>4, <1>5 DEF Database

-----------------------------------------------------------------------------
(* The results *)

\* A node sends a sequence of messages to each of the others.
LEMMA SendsOK ==
  ASSUME NEW S, ChannelsInv(S), NEW n \in Nodes, NEW out,
         \A p \in Nodes : out[p] \in Seq(Message(S)), Sends(n, out)
  PROVE  ChannelsInv(S)'
<1>1. Nobody \notin Nodes
  BY ScenariosAssumption DEF Nobody
<1>2. CASE Running(n)
  BY <1>1, <1>2, TransferOK DEF Sends
<1>3. CASE ~Running(n)
  BY <1>3 DEF Sends, ChannelsInv, net
<1> QED
  BY <1>2, <1>3

\* The first result is taken.
LEMMA ResultHead ==
  ASSUME NEW S, DatabasesInv(S), NEW n \in Nodes, NEW type, Result(n, type)
  PROVE  Head(events[n]) \in Outcome(S) /\ Head(events[n]).type = type /\ events[n] # <<>>
<1>1. events[n] \in Seq(Outcome(S)) /\ events[n] # <<>> /\ Head(events[n]).type = type
  BY DEF DatabasesInv, Result
<1> QED
  BY <1>1, SeqFacts

\* A node takes the first event of its database.
LEMMA EventsTail ==
  ASSUME NEW S, DatabasesInv(S), NEW n \in Nodes, events[n] # <<>>,
         events' = [events EXCEPT ![n] = Tail(@)], UNCHANGED <<db, asked, state>>
  PROVE  DatabasesInv(S)'
<1>1. events[n] \in Seq(Outcome(S))
  BY DEF DatabasesInv
<1>2. Tail(events[n]) \in Seq(Outcome(S))
  BY <1>1, SeqFacts
<1> QED
  BY <1>2 DEF DatabasesInv

\* A result disturbs neither roles nor members.
LEMMA ResultCore ==
  ASSUME NEW S, Core(S), NEW n \in Nodes, ChannelsInv(S)', DatabasesInv(S)',
         UNCHANGED <<role, leader_addr, cluster, plan, current_op_id, operations>>
  PROVE  Core(S)'
<1>1. RoleStep(n) /\ Leads(n)' = Leads(n)
  BY DEF RoleStep, Roles, Leads, Core, NodesInv
<1>2. /\ leader_addr' \in [Nodes -> Nodes] /\ cluster' \in [Nodes -> SUBSET Nodes]
      /\ current_op_id' \in [Nodes -> Ids]
  BY DEF Core, NodesInv
<1> QED
  BY <1>1, <1>2, KeptCore

\* The charge of a result, of those that pumps have made, is answered or its answer sent.
LEMMA LeaderChargeResultOK ==
  ASSUME NEW S, Core(S), NEW n \in Nodes, LeaderChargeResult(n),
         events' = [events EXCEPT ![n] = Tail(@)],
         UNCHANGED <<role, leader_addr, cluster, plan>>
  PROVE  /\ Core(S)' /\ UNCHANGED offline_queue
         /\ answered' = answered \/ \E q \in S : answered' = answered \cup {q}
<1> DEFINE id   == Head(events[n]).id
           done == operations[n][id]
<1>1. /\ Leads(n) /\ Result(n, "Charge") /\ id \in DOMAIN operations[n]
      /\ operations' = [operations EXCEPT ![n] = Restrict(@, DOMAIN @ \ {id})]
      /\ \/ answered' = answered \cup {done.op.req} /\ Sends(n, Silent)
         \/ Sends(n, Send(done.addr, ResponseMsg(done.op))) /\ UNCHANGED answered
      /\ UNCHANGED <<current_op_id, db, asked, state, offline_queue>>
  BY DEF LeaderChargeResult
<1>2. NodesInv /\ ChannelsInv(S) /\ DatabasesInv(S) /\ StoredInv(S)
  BY DEF Core
<1>3. /\ operations[n] \in [DOMAIN operations[n] -> [op : Operation(S), addr : Nodes, acks : Nat]]
      /\ \E k \in Nat : DOMAIN operations[n] \subseteq 1..k
  BY <1>1, <1>2, StoredNow DEF Stored
<1>4. done.op \in Operation(S) /\ done.op.req \in S
  BY <1>1, <1>3 DEF Operation
<1>5. ResponseMsg(done.op) \in Message(S)
  BY <1>4, MakeMessages
<1> HIDE DEF done, id
<1>6. ChannelsInv(S)'
  <2>1. /\ \A q \in Nodes : Send(done.addr, ResponseMsg(done.op))[q] \in Seq(Message(S))
        /\ \A q \in Nodes : Silent[q] \in Seq(Message(S))
    BY <1>5, OneMessage
  <2> QED
    BY <1>1, <1>2, <2>1, SendsOK
<1>7. DatabasesInv(S)'
  BY <1>1, <1>2, ResultHead, EventsTail
<1>8. StoredInv(S)'
  <2>1. /\ DOMAIN operations' = Nodes
        /\ operations'[n] = Restrict(operations[n], DOMAIN operations[n] \ {id})
        /\ \A x \in Nodes \ {n} : operations'[x] = operations[x]
    BY <1>1, <1>2 DEF StoredInv
  <2>2. /\ operations'[n] \in [DOMAIN operations[n] \ {id}
                                 -> [op : Operation(S), addr : Nodes, acks : Nat]]
        /\ DOMAIN operations'[n] = DOMAIN operations[n] \ {id}
    <3> DEFINE R == Restrict(operations[n], DOMAIN operations[n] \ {id})
    <3>1. /\ R \in [DOMAIN operations[n] \ {id} -> [op : Operation(S), addr : Nodes, acks : Nat]]
          /\ DOMAIN R = DOMAIN operations[n] \ {id}
      BY <1>3, RestrictFact
    <3> QED
      BY <2>1, <3>1
  <2>3. Stored(S, Leads(n)') = [op : Operation(S), addr : Nodes, acks : Nat]
    BY <1>1 DEF Stored, Leads
  <2>4. operations'[n] \in [DOMAIN operations'[n] -> Stored(S, Leads(n)')]
    BY <2>2, <2>3
  <2>5. \E k \in Nat : DOMAIN operations'[n] \subseteq 1..k
    BY <1>3, <2>2
  <2>6. RoleStep(n)
    BY <1>2 DEF RoleStep, Roles, NodesInv
  <2> QED
    BY <1>2, <2>1, <2>4, <2>5, <2>6, StoredStep
<1>9. NodesInv'
  BY <1>1, <1>2 DEF NodesInv
<1> QED
  BY <1>1, <1>4, <1>6, <1>7, <1>8, <1>9 DEF Core

\* A view with the snapshot that was collected is sent.
LEMMA LeaderViewResultOK ==
  ASSUME NEW S, Core(S), NEW n \in Nodes, LeaderViewResult(n),
         events' = [events EXCEPT ![n] = Tail(@)],
         UNCHANGED <<role, leader_addr, cluster, plan>>
  PROVE  Core(S)'
<1> DEFINE addr == Head(events[n]).addr
           view == ViewMsg(cluster[n], n, Head(events[n]).state)
           twice == [p \in Nodes |-> IF p # addr THEN <<>>
                       ELSE IF <<n, p>> \in stale THEN <<view, view>> ELSE <<view>>]
           back(got) == [Silent EXCEPT ![n] = got \o <<LostMsg>>]
<1>1. /\ Result(n, "GetDatabase")
      /\ Sends(n, twice) \/ \E got \in {<<>>, <<view>>} : Sends(n, back(got))
      /\ UNCHANGED <<current_op_id, operations, db, asked, state>>
  BY DEF LeaderViewResult
<1>2. DatabasesInv(S) /\ ChannelsInv(S) /\ cluster[n] \in SUBSET Nodes
  BY DEF Core, NodesInv
<1>3. Head(events[n]).state \in Snapshot(S) /\ events[n] # <<>>
  BY <1>1, <1>2, ResultHead, OutcomeFields
<1>4. view \in Message(S) /\ LostMsg \in Message(S)
  BY <1>2, <1>3, MakeMessages, CallsOK
<1> HIDE DEF view
<1> DEFINE T == Message(S)
<1>5. view \in T /\ LostMsg \in T
  BY <1>4
<1> HIDE DEF T
<1>6. /\ <<view, view>> \in Seq(T) /\ <<view>> \in Seq(T) /\ <<>> \in Seq(T)
      /\ <<LostMsg>> \in Seq(T)
      /\ <<>> \o <<LostMsg>> \in Seq(T) /\ <<view>> \o <<LostMsg>> \in Seq(T)
  BY <1>5
<1>7. \A p \in Nodes : twice[p] \in Seq(T)
  BY <1>6
<1>8. ASSUME NEW got \in {<<>>, <<view>>}
      PROVE  \A p \in Nodes : back(got)[p] \in Seq(T)
  <2>1. got \o <<LostMsg>> \in Seq(T)
    BY <1>6
  <2> HIDE DEF view
  <2> QED
    BY <1>6, <2>1 DEF Silent
<1> HIDE DEF twice, back
<1>9. ChannelsInv(S)'
  BY <1>1, <1>2, <1>7, <1>8, SendsOK DEF T
<1>10. DatabasesInv(S)'
  BY <1>1, <1>2, <1>3, EventsTail
<1> QED
  BY <1>1, <1>9, <1>10, ResultCore

\* The results of a replica, and that of a replacement.
LEMMA ReplicaResultOK ==
  ASSUME NEW S, Core(S), NEW n \in Nodes, ReplicaResult(n) \/ LeaderReplaceResult(n),
         events' = [events EXCEPT ![n] = Tail(@)],
         UNCHANGED <<role, leader_addr, cluster, plan>>
  PROVE  Core(S)'
<1>1. UNCHANGED <<current_op_id, operations, db, asked, state>> /\ events[n] # <<>>
  BY DEF ReplicaResult, LeaderReplaceResult, Result
<1>2. DatabasesInv(S) /\ ChannelsInv(S)
  BY DEF Core
<1>3. DatabasesInv(S)'
  BY <1>1, <1>2, EventsTail
<1>4. CASE LeaderReplaceResult(n)
  <2>1. ChannelsInv(S)'
    BY <1>2, <1>4 DEF LeaderReplaceResult, ChannelsInv, net
  <2> QED
    BY <1>1, <1>3, <2>1, ResultCore
<1>5. CASE ReplicaResult(n)
  <2>1. PICK type \in {"Charge", "GetDatabase"} :
          /\ Result(n, type)
          /\ Sends(n, Send(leader_addr[n],
               AckMsg((IF type = "Charge" THEN Head(events[n]).id ELSE 0) + 1)))
    BY <1>5 DEF ReplicaResult
  <2> DEFINE id == IF type = "Charge" THEN Head(events[n]).id ELSE 0
  <2>2. type = "Charge" => Head(events[n]).id \in Ids
    BY <1>2, <2>1, ResultHead, OutcomeFields
  <2>3. id + 1 \in Ids
    BY <2>2 DEF Ids
  <2>4. AckMsg(id + 1) \in Message(S)
    BY <2>3, MakeMessages
  <2>5. Sends(n, Send(leader_addr[n], AckMsg(id + 1)))
    BY <2>1
  <2> HIDE DEF id
  <2>6. \A q \in Nodes : Send(leader_addr[n], AckMsg(id + 1))[q] \in Seq(Message(S))
    BY <2>4, OneMessage
  <2>7. ChannelsInv(S)'
    BY <1>2, <2>5, <2>6, SendsOK
  <2> QED
    BY <1>1, <1>3, <2>7, ResultCore
<1> QED
  BY <1>4, <1>5

\* The queue of the OFFLINE time is sent, or is shorter by what could not be sent.
LEMMA ReplicaReplayOK ==
  ASSUME NEW S, Core(S), NEW n \in Nodes, ReplicaReplay(n),
         NEW A \in SUBSET S, QueuesInv(A),
         events' = [events EXCEPT ![n] = Tail(@)],
         UNCHANGED <<role, leader_addr, cluster, plan>>
  PROVE  Core(S)' /\ QueuesInv(A)'
<1> DEFINE queue == offline_queue[n]
           msgs  == [i \in DOMAIN queue |-> RequestMsg([req |-> queue[i], replay |-> TRUE], n)]
<1>1. /\ UNCHANGED <<current_op_id, operations, db, asked, state>> /\ events[n] # <<>>
      /\ \/ /\ queue # <<>> /\ offline_queue' = [offline_queue EXCEPT ![n] = Tail(@)]
            /\ Sends(n, Send(leader_addr[n], Head(msgs)))
         \/ /\ offline_queue' = [offline_queue EXCEPT ![n] = <<>>]
            /\ Sends(n, [Silent EXCEPT ![leader_addr[n]] = msgs])
  BY DEF ReplicaReplay, Result
<1>2. DatabasesInv(S) /\ ChannelsInv(S) /\ queue \in Seq(A) /\ leader_addr[n] \in Nodes
  BY DEF Core, QueuesInv, NodesInv
<1>3. DatabasesInv(S)'
  BY <1>1, <1>2, EventsTail
<1>4. \A i \in 1..Len(queue) : queue[i] \in S
  BY <1>2
<1>5. msgs \in Seq(Message(S))
  <2>1. \A i \in 1..Len(queue) : [req |-> queue[i], replay |-> TRUE] \in Operation(S)
    BY <1>4 DEF Operation
  <2>2. \A i \in 1..Len(queue) : RequestMsg([req |-> queue[i], replay |-> TRUE], n) \in Message(S)
    BY <2>1, MakeMessages
  <2>3. DOMAIN queue = 1..Len(queue) /\ Len(queue) \in Nat
    BY <1>2
  <2>4. msgs \in [1..Len(queue) -> Message(S)]
    BY <2>2, <2>3
  <2> QED
    BY <2>3, <2>4
<1>6. QueuesInv(A)'
  <2>1. <<>> \in Seq(A) /\ (queue # <<>> => Tail(queue) \in Seq(A))
    BY <1>2, SeqFacts
  <2> QED
    BY <1>1, <2>1 DEF QueuesInv
<1>7. CASE queue # <<>> /\ Sends(n, Send(leader_addr[n], Head(msgs)))
  <2>1. msgs # <<>>
    <3>1. Len(queue) # 0 /\ DOMAIN msgs = 1..Len(queue) /\ Len(queue) \in Nat
      BY <1>2, <1>7
    <3>2. 1 \in DOMAIN msgs
      BY <3>1
    <3> HIDE DEF msgs
    <3> QED
      BY <1>5, <3>2
  <2> HIDE DEF msgs, queue
  <2>2. Head(msgs) \in Message(S)
    BY <1>5, <2>1, SeqFacts
  <2>3. \A q \in Nodes : Send(leader_addr[n], Head(msgs))[q] \in Seq(Message(S))
    BY <2>2, OneMessage
  <2>4. ChannelsInv(S)'
    BY <1>2, <1>7, <2>3, SendsOK
  <2> QED
    BY <1>1, <1>3, <1>6, <2>4, ResultCore
<1>8. CASE Sends(n, [Silent EXCEPT ![leader_addr[n]] = msgs])
  <2> HIDE DEF msgs, queue
  <2>1. \A q \in Nodes : [Silent EXCEPT ![leader_addr[n]] = msgs][q] \in Seq(Message(S))
    <3>1. \A q \in Nodes : Silent[q] \in Seq(Message(S))
      BY CallsOK
    <3> QED
      BY <1>5, <3>1 DEF Silent
  <2>2. ChannelsInv(S)'
    BY <1>2, <1>8, <2>1, SendsOK
  <2> QED
    BY <1>1, <1>3, <1>6, <2>2, ResultCore
<1> QED
  BY <1>1, <1>7, <1>8

\* A node handles an event of its database; only charges made are answered.
LEMMA HandleResultOK ==
  ASSUME NEW S, Core(S), NEW n \in Nodes, HandleResult(n), NEW A \in SUBSET S, QueuesInv(A),
         answered = A
  PROVE  Core(S)' /\ QueuesInv(A)' /\ A \subseteq answered' /\ answered' \subseteq S
<1>1. /\ events' = [events EXCEPT ![n] = Tail(@)]
      /\ UNCHANGED <<role, leader_addr, cluster, plan>>
  BY DEF HandleResult, env
<1>2. CASE LeaderChargeResult(n)
  <2>1. /\ Core(S)' /\ UNCHANGED offline_queue
        /\ answered' = answered \/ \E q \in S : answered' = answered \cup {q}
    BY <1>1, <1>2, LeaderChargeResultOK
  <2> QED
    BY <2>1 DEF QueuesInv
<1>3. CASE LeaderViewResult(n) \/ LeaderReplaceResult(n) \/ ReplicaResult(n)
  <2>1. Core(S)'
    BY <1>1, <1>3, LeaderViewResultOK, ReplicaResultOK
  <2>2. UNCHANGED <<offline_queue, answered>>
    BY <1>3 DEF LeaderViewResult, LeaderReplaceResult, ReplicaResult, history
  <2> QED
    BY <2>1, <2>2 DEF QueuesInv
<1>4. CASE ReplicaReplay(n)
  <2>1. Core(S)' /\ QueuesInv(A)'
    BY <1>1, <1>4, ReplicaReplayOK
  <2>2. UNCHANGED answered
    BY <1>4 DEF ReplicaReplay, history
  <2> QED
    BY <2>1, <2>2
<1> QED
  BY <1>2, <1>3, <1>4 DEF HandleResult

-----------------------------------------------------------------------------
(* Charges *)

\* What is of the charges S is of more charges.
LEMMA CoreGrows ==
  ASSUME NEW S, NEW T, S \subseteq T, Core(S)
  PROVE  Core(T)
<1>1. Seq(S) \subseteq Seq(T) /\ Operation(S) \subseteq Operation(T)
  BY SeqGrows DEF Operation
<1>2. Snapshot(S) \subseteq Snapshot(T)
  BY <1>1 DEF Snapshot
<1>3. Message(S) \subseteq Message(T)
  <2> SUFFICES ASSUME NEW x \in Message(S) PROVE x \in Message(T)
    OBVIOUS
  <2> QED
    BY <1>1, <1>2 DEF Message
<1>4. Command(S) \subseteq Command(T)
  BY <1>1, <1>2 DEF Command
<1>5. Outcome(S) \subseteq Outcome(T)
  BY <1>2 DEF Outcome
<1>6. /\ Seq(Message(S)) \subseteq Seq(Message(T)) /\ Seq(Command(S)) \subseteq Seq(Command(T))
      /\ Seq(Outcome(S)) \subseteq Seq(Outcome(T))
  BY <1>3, <1>4, <1>5, SeqGrows
<1>7. ChannelsInv(T)
  BY <1>6 DEF Core, ChannelsInv
<1>8. DatabasesInv(T)
  <2> DEFINE U(X) == {NoSnapshot} \cup [addr : Nodes \cup {Replaced}, state : Snapshot(X)]
  <2>1. U(S) \subseteq U(T)
    BY <1>2
  <2>2. asked \in [Nodes -> U(S)]
    BY DEF Core, DatabasesInv
  <2> HIDE DEF U
  <2>3. asked \in [Nodes -> U(T)]
    BY <2>1, <2>2
  <2> QED
    BY <1>2, <1>6, <2>3 DEF Core, DatabasesInv, U
<1>9. StoredInv(T)
  <2>1. \A leads \in BOOLEAN : Stored(S, leads) \subseteq Stored(T, leads)
    BY <1>1 DEF Stored
  <2>2. \A n \in Nodes : Leads(n) \in BOOLEAN
    BY DEF Leads
  <2> QED
    BY <2>1, <2>2 DEF Core, StoredInv
<1> QED
  BY <1>7, <1>8, <1>9 DEF Core

\* handle_charge_request
LEMMA ChargeOK ==
  ASSUME NEW S, Core(S), NEW n \in Nodes, NEW q \in S, Charge(n, q)
  PROVE  Core(S)'
<1>1. /\ UNCHANGED <<asked, events, state, plan>>
      /\ \/ LeaderRequest(Nobody, n, [req |-> q, replay |-> FALSE], n)
         \/ ReplicaRequest(Nobody, n, [req |-> q, replay |-> FALSE], n)
         \/ UNCHANGED <<vars, current_op_id, operations, db>>
  BY DEF Charge, env
<1>2. Nobody \notin Nodes
  BY ScenariosAssumption DEF Nobody
<1>3. [req |-> q, replay |-> FALSE] \in Operation(S)
  BY DEF Operation
<1>4. CASE UNCHANGED <<vars, current_op_id, operations, db>>
  <2>1. DatabasesInv(S)'
    BY <1>1, <1>4, SameDatabases DEF Core
  <2> QED
    BY <1>4, <2>1, DatabaseCore
<1> QED
  BY <1>1, <1>2, <1>3, <1>4, LeaderRequestOK, ReplicaRequestOK

\* A pump makes a charge: nothing that was queued or answered is lost.
LEMMA ChargeHistory ==
  ASSUME QueuesInv(answered), answered \subseteq submitted, NEW n \in Nodes, NEW q, Charge(n, q)
  PROVE  QueuesInv(answered)' /\ (answered \subseteq submitted)'
<1>1. PICK A : A = answered'
  OBVIOUS
<1>2. /\ submitted' = submitted \cup {q}
      /\ \/ UNCHANGED <<offline_queue, answered>>
         \/ Queue(n, q)
  BY DEF Charge
<1>3. CASE UNCHANGED <<offline_queue, answered>>
  BY <1>2, <1>3 DEF QueuesInv
<1>4. CASE Queue(n, q)
  <2>1. A = answered \cup {q} /\ offline_queue' = [offline_queue EXCEPT ![n] = Append(@, q)]
    BY <1>1, <1>4 DEF Queue
  <2>2. Seq(answered) \subseteq Seq(A)
    BY <2>1, SeqGrows
  <2>3. offline_queue \in [Nodes -> Seq(A)] /\ q \in A
    BY <2>1, <2>2 DEF QueuesInv
  <2>4. Append(offline_queue[n], q) \in Seq(A)
    BY <2>3, SeqFacts
  <2>5. offline_queue' \in [Nodes -> Seq(A)]
    BY <2>1, <2>3, <2>4
  <2> QED
    BY <1>1, <1>2, <2>1, <2>5 DEF QueuesInv
<1> QED
  BY <1>2, <1>3, <1>4

-----------------------------------------------------------------------------
(* Theorems *)

\* The clusters that are started.
LEMMA CInitOK == CInit => CInv
<1> SUFFICES ASSUME CInit PROVE CInv
  OBVIOUS
<1>1. plan \in Scenarios /\ plan.members \in SUBSET Nodes /\ plan.leader \in Nodes
  BY ScenariosAssumption, PlansAssumption DEF CInit
<1>2. NodesInv
  BY <1>1 DEF CInit, NodesInv, Ids
<1>3. ChannelsInv(submitted)
  <2>1. <<>> \in Seq(Message(submitted))
    OBVIOUS
  <2> QED
    BY <2>1 DEF CInit, ChannelsInv
<1>4. DatabasesInv(submitted)
  <2>1. /\ <<>> \in Seq(Command(submitted)) /\ <<>> \in Seq(Outcome(submitted))
        /\ NoActors \in Snapshot(submitted)
    BY DEF Snapshot
  <2> QED
    BY <2>1 DEF CInit, DatabasesInv
<1>5. StoredInv(submitted)
  <2>1. \A T : Empty \in [DOMAIN Empty -> T] /\ DOMAIN Empty \subseteq 1..0 /\ 0 \in Nat
    BY DEF Empty
  <2>2. \A n \in Nodes : operations[n] = Empty /\ DOMAIN operations = Nodes
    BY DEF CInit
  <2>3. DOMAIN operations = Nodes
    BY DEF CInit
  <2> QED
    BY <2>1, <2>2, <2>3 DEF StoredInv
<1>6. QueuesInv(answered) /\ answered \subseteq submitted
  <2>1. <<>> \in Seq(answered)
    OBVIOUS
  <2> QED
    BY <2>1 DEF CInit, QueuesInv
<1> QED
  BY <1>2, <1>3, <1>4, <1>5, <1>6 DEF CInv

\* The charges that are there after a step.
LEMMA CoreNow ==
  ASSUME NEW S, S = submitted', Core(S)'
  PROVE  /\ NodesInv'
         /\ ChannelsInv(submitted)' /\ DatabasesInv(submitted)' /\ StoredInv(submitted)'
BY DEF Core, ChannelsInv, DatabasesInv, StoredInv

\* Every step, the parts of the invariant taken together.
LEMMA CNextOK == CInv /\ [CNext]_allVars => CInv'
<1> SUFFICES ASSUME CInv, [CNext]_allVars PROVE CInv'
  OBVIOUS
<1>0. PICK S, A : S = submitted /\ A = answered
  OBVIOUS
<1>1. Core(S) /\ QueuesInv(A) /\ A \in SUBSET S
  BY <1>0 DEF CInv, Core
<1>2. ASSUME Core(S)', UNCHANGED submitted, QueuesInv(A)', A \subseteq answered', answered' \subseteq S
      PROVE  CInv'
  <2>1. PICK B : B = answered'
    OBVIOUS
  <2>2. Seq(A) \subseteq Seq(B)
    BY <1>2, <2>1, SeqGrows
  <2>3. QueuesInv(answered)'
    BY <1>2, <2>1, <2>2 DEF QueuesInv
  <2>4. S = submitted'
    BY <1>0, <1>2
  <2> QED
    BY <1>2, <2>3, <2>4, CoreNow DEF CInv
<1>3. ASSUME Core(S)', UNCHANGED <<submitted, answered, offline_queue>>
      PROVE  CInv'
  <2>1. QueuesInv(A)' /\ A \subseteq answered' /\ answered' \subseteq S
    BY <1>0, <1>1, <1>3 DEF QueuesInv
  <2> QED
    BY <1>2, <1>3, <2>1
<1>4. ASSUME NEW n \in Nodes, ElectionStep(n) \/ OfflineTimeout(n)
      PROVE  CInv'
  <2>1. Core(S)'
    BY <1>1, <1>4, ElectionStepOK
  <2> QED
    BY <1>3, <1>4, <2>1 DEF ElectionStep, OfflineTimeout, history
<1>5. ASSUME NEW n \in Nodes, NEW m \in Nodes,
             \/ HandleRequest(m, n) \/ HandleLog(m, n) \/ HandleAck(m, n)
             \/ HandleJoin(m, n) \/ HandleClusterUpdate(m, n) \/ HandleClusterView(m, n)
      PROVE  CInv'
  <2>1. Core(S)'
    BY <1>1, <1>5, HandleRequestOK, HandleLogOK, HandleAckOK, HandleJoinOK,
       HandleClusterUpdateOK, HandleClusterViewOK
  <2>2. UNCHANGED <<submitted, answered, offline_queue>>
    BY <1>5 DEF HandleRequest, HandleLog, HandleAck, HandleJoin, HandleClusterUpdate,
                HandleClusterView, history, data
  <2> QED
    BY <1>3, <2>1, <2>2
<1>6. ASSUME NEW n \in Nodes, NEW m \in Nodes, HandleResponse(m, n)
      PROVE  CInv'
  <2> DEFINE op == Head(chan[m][n]).op
  <2>1. Core(S)' /\ op \in Operation(S)
    BY <1>1, <1>6, HandleResponseOK
  <2>2. /\ UNCHANGED <<offline_queue, submitted>>
        /\ answered' = answered \/ answered' = answered \cup {op.req}
    BY <1>6 DEF HandleResponse, data
  <2>3. op.req \in S
    BY <2>1 DEF Operation
  <2> HIDE DEF op
  <2>4. QueuesInv(A)' /\ A \subseteq answered' /\ answered' \subseteq S
    BY <1>0, <1>1, <2>2, <2>3 DEF QueuesInv
  <2> QED
    BY <1>2, <2>1, <2>2, <2>4
<1>7. ASSUME NEW n \in Nodes,
             CCrash(n) \/ (\E m \in Nodes : MessagePanic(m, n)) \/ ResultPanic(n)
      PROVE  CInv'
  <2>1. Core(S)' /\ Wipe(n)
    BY <1>1, <1>7, StoppedOK
  <2>2. UNCHANGED <<submitted, answered>> /\ offline_queue' = [offline_queue EXCEPT ![n] = <<>>]
    BY <2>1 DEF Wipe, history
  <2>3. QueuesInv(A)'
    <3>1. <<>> \in Seq(A)
      OBVIOUS
    <3> QED
      BY <1>1, <2>2, <3>1 DEF QueuesInv
  <2> QED
    BY <1>0, <1>1, <1>2, <2>1, <2>2, <2>3
<1>8. ASSUME NEW n \in Nodes, Database(n)
      PROVE  CInv'
  <2>1. Core(S)' /\ UNCHANGED <<offline_queue, history>>
    BY <1>1, <1>8, DatabaseOK
  <2> QED
    BY <1>3, <2>1 DEF history
<1>9. ASSUME NEW n \in Nodes, HandleResult(n)
      PROVE  CInv'
  <2>1. Core(S)' /\ QueuesInv(A)' /\ A \subseteq answered' /\ answered' \subseteq S
    BY <1>0, <1>1, <1>9, HandleResultOK
  <2>2. UNCHANGED submitted
    BY <1>9 DEF HandleResult, LeaderChargeResult, LeaderViewResult, LeaderReplaceResult,
                ReplicaResult, ReplicaReplay, history
  <2> QED
    BY <1>2, <2>1, <2>2
<1>10. ASSUME NEW n \in Nodes, NEW q, Charge(n, q)
       PROVE  CInv'
  <2>1. PICK T : T = submitted'
    OBVIOUS
  <2>2. T = S \cup {q}
    BY <1>0, <1>10, <2>1 DEF Charge
  <2>3. Core(T)
    BY <1>1, <2>2, CoreGrows
  <2>4. Core(T)'
    BY <1>10, <2>2, <2>3, ChargeOK
  <2>5. QueuesInv(answered)' /\ (answered \subseteq submitted)'
    BY <1>10, ChargeHistory DEF CInv
  <2> QED
    BY <2>1, <2>4, <2>5, CoreNow DEF CInv
<1>11. ASSUME NEW n \in Nodes, Start(n) \/ Disconnect(n) \/ Connect(n)
       PROVE  CInv'
  <2>1. Core(S)'
    BY <1>1, <1>11, StartOK, DisconnectOK, ConnectOK
  <2>2. UNCHANGED <<submitted, answered, offline_queue>>
    BY <1>11 DEF Start, Disconnect, Connect, data, history
  <2> QED
    BY <1>3, <2>1, <2>2
<1>12. CASE UNCHANGED allVars
  <2>1. UNCHANGED <<vars, data, history>>
    BY <1>12 DEF allVars
  <2>2. Core(S)'
    <3>1. DatabasesInv(S)'
      BY <1>1, <2>1, SameDatabases DEF data, Core
    <3> QED
      BY <1>1, <2>1, <3>1, DatabaseCore DEF data
  <2> QED
    BY <1>3, <2>1, <2>2 DEF data, history
<1> QED
  BY <1>4, <1>5, <1>6, <1>7, <1>8, <1>9, <1>10, <1>11, <1>12 DEF CNext, Step, Handle

\* The inductive invariant of the cluster: what is in the channels, in the databases
\* and stored is about charges that pumps have made and nodes that there are, in the
\* form of the role of its node.
THEOREM CInvariance == CSpec => []CInv
<1>1. CInit => CInv
  BY CInitOK
<1>2. CInv /\ [CNext]_allVars => CInv'
  BY CNextOK
<1> QED
  BY <1>1, <1>2, PTL DEF CSpec

\* CTypeOK: roles, leaders, members and ids have their types, and no node applies,
\* queues or answers a charge that no pump has made.
THEOREM ChargesAreSubmitted == CSpec => []CTypeOK
<1>1. CInv => CTypeOK
  <2> SUFFICES ASSUME CInv PROVE CTypeOK
    OBVIOUS
  <2>1. ASSUME NEW n \in Nodes
        PROVE  /\ DOMAIN operations[n] \subseteq Nat \ {0}
               /\ ToSet(Held(n)) \subseteq submitted
               /\ ToSet(offline_queue[n]) \subseteq answered
    <3>1. Held(n) \in Seq(submitted)
      BY HeldOK DEF CInv
    <3>2. offline_queue[n] \in Seq(answered)
      BY DEF CInv, QueuesInv
    <3>3. \A T : \A s \in Seq(T) : ToSet(s) \subseteq T
      BY DEF ToSet
    <3>4. \E k \in Nat : DOMAIN operations[n] \subseteq 1..k
      BY DEF CInv, StoredInv
    <3>5. DOMAIN operations[n] \subseteq Nat \ {0}
      BY <3>4
    <3> QED
      BY <3>1, <3>2, <3>3, <3>5
  <2> QED
    BY <2>1 DEF CTypeOK, CInv, NodesInv, Ids
<1> QED
  BY <1>1, CInvariance, PTL
=============================================================================
