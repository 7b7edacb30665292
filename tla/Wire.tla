-------------------------------- MODULE Wire --------------------------------
(***************************************************************************)
(* How a message travels: network/serials.  A payload is the sequence of   *)
(* its fields, each with its width in bytes; the first field of a message, *)
(* an operation and a result is the byte of its type.  A deserializer      *)
(* reads fields of the widths that it expects: a payload that is too short *)
(* for a slice makes it panic, and one whose fields lie elsewhere is       *)
(* misread.  An Option is a sequence of at most one element.  The text of  *)
(* a period is its length.                                                 *)
(***************************************************************************)
EXTENDS Integers, SequencesExt

-----------------------------------------------------------------------------
(* The messages.  Ids, addresses and amounts are numbers, errors strings. *)

Option(S) == {s \in Seq(S) : Len(s) <= 1}

AccountSnapshot == [account_id : Nat, limit : Option(Nat), consumed : Nat]
CardSnapshot    == [account_id : Nat, card_id : Nat, limit : Option(Nat), consumed : Nat]
DatabaseSnapshot == [addr : Nat, accounts : Seq(AccountSnapshot), cards : Seq(CardSnapshot)]

\* The text of a period is never empty (main.rs of the administrator).
Operation ==
  [type : {"Charge"}, account_id : Nat, card_id : Nat, amount : Nat, from_offline_station : BOOLEAN]
    \cup [type : {"LimitCard"}, account_id : Nat, card_id : Nat, new_limit : Option(Nat)]
    \cup [type : {"LimitAccount"}, account_id : Nat, new_limit : Option(Nat)]
    \cup [type : {"AccountQuery"}, account_id : Nat]
    \cup [type : {"Bill"}, account_id : Nat, period : Option(Nat \ {0})]
    \cup [type : {"GetDatabase"}, addr : Nat]
    \cup [type : {"ReplaceDatabase"}, snapshot : DatabaseSnapshot]

Errors == {"BelowCurrentUsage", "CardLimitExceeded", "AccountLimitExceeded"}

OperationResult ==
  [type : {"Charge", "LimitAccount", "LimitCard"}, error : Option(Errors)]
    \cup [type : {"AccountQuery"}, account_id : Nat, total_spent : Nat,
          per_card_spent : Seq([card_id : Nat, spent : Nat])]
    \cup [type : {"DatabaseSnapshot"}, snapshot : DatabaseSnapshot]
    \cup [type : {"ReplaceDatabase"}]

MemberOf == [id : Nat, addr : Nat]

Message ==
  [type : {"Request"}, req_id : Nat, addr : Nat, op : Operation]
    \cup [type : {"Log"}, op_id : Nat, op : Operation]
    \cup [type : {"Ack"}, op_id : Nat]
    \cup [type : {"Join", "RoleQuery"}, addr : Nat]
    \cup [type : {"ClusterView"}, members : Seq(MemberOf), leader_addr : Nat,
          database : DatabaseSnapshot]
    \cup [type : {"ClusterUpdate"}, new_member : MemberOf]
    \cup [type : {"Response"}, req_id : Nat, op_result : OperationResult]
    \cup [type : {"RoleResponse"}, node_id : Nat, role : {"Leader", "Replica", "Station"}]
    \cup [type : {"Election"}, candidate_id : Nat, candidate_addr : Nat]
    \cup [type : {"ElectionOk"}, responder_id : Nat]
    \cup [type : {"Coordinator"}, leader_id : Nat, leader_addr : Nat]

-----------------------------------------------------------------------------
(* Fields *)

Field(width, value) == <<[w |-> width, v |-> value]>>
Byte(b)      == Field(1, b)
OpIdSrl(id)  == Field(4, id)
IdSrl(id)    == Field(8, id)   \* of a node, an account or a card
AmountSrl(a) == Field(4, a)
AddrSrl(a)   == Field(6, a)
LenSrl(n)    == Field(8, n)    \* usize

NO_LIMIT == -1

LimitSrl(limit) == AmountSrl(IF limit = <<>> THEN NO_LIMIT ELSE limit[1])

\* How many bytes fields of these widths take, and the fields of a payload.
Width(widths) ==
  LET sum[i \in 0..Len(widths)] == IF i = 0 THEN 0 ELSE sum[i - 1] + widths[i]
  IN  sum[Len(widths)]
Bytes(payload) == Width([i \in DOMAIN payload |-> payload[i].w])

\* Each element of a vector, one after the other.
VecSrl(vec, Srl(_)) == LenSrl(Len(vec)) \o FlattenSeq([i \in DOMAIN vec |-> Srl(vec[i])])

-----------------------------------------------------------------------------
(* Serialization *)

AccountSrl(a) == IdSrl(a.account_id) \o LimitSrl(a.limit) \o AmountSrl(a.consumed)
CardSrl(c) ==
  IdSrl(c.account_id) \o IdSrl(c.card_id) \o LimitSrl(c.limit) \o AmountSrl(c.consumed)
AccountsSrl(accounts) == VecSrl(accounts, AccountSrl)
CardsSrl(cards)       == VecSrl(cards, CardSrl)
SnapshotSrl(s) == AddrSrl(s.addr) \o AccountsSrl(s.accounts) \o CardsSrl(s.cards)

\* The length of a period is one byte; none is the length 0.
PeriodSrl(period) ==
  IF period = <<>> THEN Byte(0)
  ELSE Byte(period[1] % 256) \o (IF period[1] = 0 THEN <<>> ELSE Field(period[1], period[1]))

OperationSrl(op) ==
  CASE op.type = "Charge" ->
         Byte(0) \o IdSrl(op.account_id) \o IdSrl(op.card_id) \o AmountSrl(op.amount)
           \o Byte(IF op.from_offline_station THEN 1 ELSE 0)
    [] op.type = "LimitCard" ->
         Byte(1) \o IdSrl(op.account_id) \o IdSrl(op.card_id) \o LimitSrl(op.new_limit)
    [] op.type = "LimitAccount"    -> Byte(2) \o IdSrl(op.account_id) \o LimitSrl(op.new_limit)
    [] op.type = "AccountQuery"    -> Byte(3) \o IdSrl(op.account_id)
    [] op.type = "Bill"            -> Byte(6) \o IdSrl(op.account_id) \o PeriodSrl(op.period)
    [] op.type = "GetDatabase"     -> Byte(7) \o AddrSrl(op.addr)
    [] op.type = "ReplaceDatabase" -> Byte(8) \o SnapshotSrl(op.snapshot)

ErrorSrl(error) ==
  CASE error = "BelowCurrentUsage"    -> Byte(0) \o Byte(0)
    [] error = "CardLimitExceeded"    -> Byte(1) \o Byte(1)
    [] error = "AccountLimitExceeded" -> Byte(1) \o Byte(2)

\* OK, or ERR and the error
OutcomeSrl(error) == IF error = <<>> THEN Byte(2) ELSE Byte(3) \o ErrorSrl(error[1])

CardSpentSrl(c)  == IdSrl(c.card_id) \o AmountSrl(c.spent)
SpentSrl(cards)  == VecSrl(cards, CardSpentSrl)

ResultSrl(r) ==
  CASE r.type = "Charge"       -> Byte(0) \o OutcomeSrl(r.error)
    [] r.type = "LimitAccount" -> Byte(2) \o OutcomeSrl(r.error)
    [] r.type = "LimitCard"    -> Byte(3) \o OutcomeSrl(r.error)
    [] r.type = "AccountQuery" ->
         Byte(4) \o IdSrl(r.account_id) \o AmountSrl(r.total_spent)
           \o SpentSrl(r.per_card_spent)
    [] r.type = "DatabaseSnapshot" -> Byte(5) \o SnapshotSrl(r.snapshot)
    [] r.type = "ReplaceDatabase"  -> Byte(6)

MemberSrl(m)        == IdSrl(m.id) \o AddrSrl(m.addr)
MembersSrl(members) == VecSrl(members, MemberSrl)

MessageSrl(m) ==
  CASE m.type = "Request" ->
         Byte(0) \o OpIdSrl(m.req_id) \o AddrSrl(m.addr) \o OperationSrl(m.op)
    [] m.type = "Log"  -> Byte(1) \o OpIdSrl(m.op_id) \o OperationSrl(m.op)
    [] m.type = "Ack"  -> Byte(2) \o OpIdSrl(m.op_id)
    [] m.type = "Join" -> Byte(3) \o AddrSrl(m.addr)
    [] m.type = "ClusterView" ->
         Byte(4) \o MembersSrl(m.members) \o AddrSrl(m.leader_addr)
           \o SnapshotSrl(m.database)
    [] m.type = "ClusterUpdate" -> Byte(5) \o MemberSrl(m.new_member)
    [] m.type = "Response"      -> Byte(6) \o OpIdSrl(m.req_id) \o ResultSrl(m.op_result)
    [] m.type = "RoleQuery"     -> Byte(7) \o AddrSrl(m.addr)
    [] m.type = "RoleResponse"  ->
         Byte(8) \o IdSrl(m.node_id)
           \o Byte(CASE m.role = "Leader" -> 0 [] m.role = "Replica" -> 1 [] m.role = "Station" -> 2)
    [] m.type = "Election"    -> Byte(9) \o IdSrl(m.candidate_id) \o AddrSrl(m.candidate_addr)
    [] m.type = "ElectionOk"  -> Byte(10) \o IdSrl(m.responder_id)
    [] m.type = "Coordinator" -> Byte(11) \o IdSrl(m.leader_id) \o AddrSrl(m.leader_addr)

-----------------------------------------------------------------------------
(* Deserialization *)

Parsed(value) == [kind |-> "ok", value |-> value]
Invalid       == [kind |-> "error"]   \* InvalidProtocol or InvalidData
Panics        == [kind |-> "panic"]
Misread       == [kind |-> "misread"]

\* What a deserializer makes of fields of these widths, which lie at the start.
Read(payload, widths, value) ==
  IF Bytes(payload) < Width(widths) THEN Panics
  ELSE IF \E i \in DOMAIN widths : payload[i].w # widths[i] THEN Misread
  ELSE Parsed(value)

\* The operator ? on what was read
Then(read, F(_)) == IF read.kind = "ok" THEN F(read.value) ELSE read

Rest(payload, n) == SubSeq(payload, n + 1, Len(payload))

\* A vector at the start of the payload, and what follows it.
ReadVec(payload, widths, Value(_)) ==
  LET k    == Len(widths)
      part(i) == SubSeq(payload, 2 + (i - 1) * k, 1 + i * k)
  IN  Then(Read(payload, <<8>>, payload[1].v), LAMBDA n :
        LET reads == [i \in 1..n |-> Read(part(i), widths, Value(part(i)))]
        IN  IF \E i \in 1..n : reads[i].kind # "ok"
            THEN reads[CHOOSE i \in 1..n : reads[i].kind # "ok" /\ \A j \in 1..i-1 : reads[j].kind = "ok"]
            ELSE Parsed([vec |-> [i \in 1..n |-> reads[i].value], rest |-> Rest(payload, 1 + n * k)]))

\* The addresses and the id of an operation have a check of the length of their own.
ReadChecked(payload, width, value) ==
  IF Bytes(payload) < width THEN Invalid ELSE Read(payload, <<width>>, value)

ToLimit(amount) == IF amount = NO_LIMIT THEN <<>> ELSE <<amount>>

ToAccount(f) == [account_id |-> f[1].v, limit |-> ToLimit(f[2].v), consumed |-> f[3].v]
ToCard(f) ==
  [account_id |-> f[1].v, card_id |-> f[2].v, limit |-> ToLimit(f[3].v), consumed |-> f[4].v]

\* Faulty variant: the cards are read with the layout of the accounts.
SnapshotLayoutMixed == [accounts |-> <<8, 4, 4>>, cards |-> <<8, 4, 4, 8>>]

SnapshotLayout == [accounts |-> <<8, 4, 4>>, cards |-> <<8, 8, 4, 4>>]

ReadAccounts(payload) == ReadVec(payload, SnapshotLayout.accounts, ToAccount)
ReadCards(payload)    == ReadVec(payload, SnapshotLayout.cards, ToCard)

ToSnapshot(payload) ==
  Then(ReadChecked(payload, 6, payload[1].v), LAMBDA addr :
    Then(ReadAccounts(Rest(payload, 1)), LAMBDA a :
      Then(ReadCards(a.rest), LAMBDA c :
        Parsed([addr |-> addr, accounts |-> a.vec, cards |-> c.vec]))))

\* The byte of the length and the text are read as one string, without its first
\* byte; a length of 128 or more is no UTF-8.
ToPeriod(f) ==
  IF f = <<>> \/ (Len(f) = 1 /\ f[1].v = 0) THEN Parsed(<<>>)
  ELSE IF f[1].v >= 128 THEN Invalid
  ELSE Parsed(IF Len(f) = 1 THEN <<0>> ELSE <<f[2].v>>)

\* The operations whose length is checked.
Exactly(f, widths, value) ==
  IF Bytes(f) # Width(widths) THEN Invalid ELSE Read(f, widths, value)

ToOperation(payload) ==
  LET f    == Rest(payload, 1)
      type == payload[1].v
  IN  CASE type = 0 ->
             Then(Exactly(f, <<8, 8, 4, 1>>, f), LAMBDA g :
               IF g[4].v \notin {0, 1} THEN Invalid
               ELSE Parsed([type |-> "Charge", account_id |-> g[1].v, card_id |-> g[2].v,
                            amount |-> g[3].v, from_offline_station |-> g[4].v = 1]))
        [] type = 1 ->
             Exactly(f, <<8, 8, 4>>, [type |-> "LimitCard", account_id |-> f[1].v,
                                      card_id |-> f[2].v, new_limit |-> ToLimit(f[3].v)])
        [] type = 2 ->
             Exactly(f, <<8, 4>>, [type |-> "LimitAccount", account_id |-> f[1].v,
                                   new_limit |-> ToLimit(f[2].v)])
        [] type = 3 -> Exactly(f, <<8>>, [type |-> "AccountQuery", account_id |-> f[1].v])
        [] type = 6 ->
             Then(ReadChecked(f, 8, f[1].v), LAMBDA account :
               Then(ToPeriod(Rest(f, 1)), LAMBDA period :
                 Parsed([type |-> "Bill", account_id |-> account, period |-> period])))
        [] type = 7 -> ReadChecked(f, 6, [type |-> "GetDatabase", addr |-> f[1].v])
        [] type = 8 ->
             Then(ToSnapshot(f), LAMBDA s : Parsed([type |-> "ReplaceDatabase", snapshot |-> s]))
        [] OTHER -> Invalid

\* Faulty variant: the codes of the two limits are swapped.
ToErrorSwapped(f) ==
  CASE f[1].v = 1 /\ f[2].v = 2 -> Parsed("CardLimitExceeded")
    [] f[1].v = 1 /\ f[2].v = 1 -> Parsed("AccountLimitExceeded")
    [] f[1].v = 0 /\ f[2].v = 0 -> Parsed("BelowCurrentUsage")
    [] OTHER -> Invalid

ToError(f) ==
  CASE f[1].v = 1 /\ f[2].v = 2 -> Parsed("AccountLimitExceeded")
    [] f[1].v = 1 /\ f[2].v = 1 -> Parsed("CardLimitExceeded")
    [] f[1].v = 0 /\ f[2].v = 0 -> Parsed("BelowCurrentUsage")
    [] OTHER -> Invalid

\* OK, or ERR and an error; the one of a LimitCard is todo!().
ToOutcome(type, f) ==
  CASE f[1].v = 2 -> Parsed([type |-> type, error |-> <<>>])
    [] f[1].v = 3 /\ type = "LimitCard" -> Panics
    [] f[1].v = 3 /\ type # "LimitCard" ->
         Then(ToError(Rest(f, 1)), LAMBDA e : Parsed([type |-> type, error |-> <<e>>]))
    [] OTHER -> Invalid

ToCardSpent(f)     == [card_id |-> f[1].v, spent |-> f[2].v]
ReadSpent(payload) == ReadVec(payload, <<8, 4>>, ToCardSpent)

\* There is no deserializer for the results of the two operations on the database.
ToResult(payload) ==
  LET f    == Rest(payload, 1)
      type == payload[1].v
  IN  CASE type = 0 -> ToOutcome("Charge", f)
        [] type = 2 -> ToOutcome("LimitAccount", f)
        [] type = 3 -> ToOutcome("LimitCard", f)
        [] type = 4 ->
             Then(Read(f, <<8, 4>>, f), LAMBDA g :
               Then(ReadSpent(Rest(g, 2)), LAMBDA cards :
                 Parsed([type |-> "AccountQuery", account_id |-> g[1].v,
                         total_spent |-> g[2].v, per_card_spent |-> cards.vec])))
        [] OTHER -> Invalid

ToMember(f)          == [id |-> f[1].v, addr |-> f[2].v]
ReadMembers(payload) == ReadVec(payload, <<8, 6>>, ToMember)

\* There is no deserializer for RoleResponse.
ToMessage(payload) ==
  LET f    == Rest(payload, 1)
      type == payload[1].v
  IN  CASE type = 0 ->
             Then(ReadChecked(f, 4, f[1].v), LAMBDA id :
               Then(ReadChecked(Rest(f, 1), 6, f[2].v), LAMBDA addr :
                 Then(ToOperation(Rest(f, 2)), LAMBDA op :
                   Parsed([type |-> "Request", req_id |-> id, addr |-> addr, op |-> op]))))
        [] type = 1 ->
             Then(ReadChecked(f, 4, f[1].v), LAMBDA id :
               Then(ToOperation(Rest(f, 1)), LAMBDA op :
                 Parsed([type |-> "Log", op_id |-> id, op |-> op])))
        [] type = 2 -> ReadChecked(f, 4, [type |-> "Ack", op_id |-> f[1].v])
        [] type = 3 -> ReadChecked(f, 6, [type |-> "Join", addr |-> f[1].v])
        [] type = 4 /\ Bytes(f) < 14 * f[1].v -> Invalid
        [] type = 4 /\ Bytes(f) >= 14 * f[1].v ->
             Then(ReadMembers(f), LAMBDA members :
               Then(ReadChecked(members.rest, 6, members.rest[1].v), LAMBDA leader :
                 Then(ToSnapshot(Rest(members.rest, 1)), LAMBDA database :
                   Parsed([type |-> "ClusterView", members |-> members.vec,
                           leader_addr |-> leader, database |-> database]))))
        [] type = 5 /\ Bytes(f) < 14 -> Invalid
        [] type = 5 /\ Bytes(f) >= 14 ->
             Read(f, <<8, 6>>, [type |-> "ClusterUpdate", new_member |-> ToMember(f)])
        [] type = 6 ->
             Then(ReadChecked(f, 4, f[1].v), LAMBDA id :
               Then(ToResult(Rest(f, 1)), LAMBDA result :
                 Parsed([type |-> "Response", req_id |-> id, op_result |-> result])))
        [] type = 7 -> ReadChecked(f, 6, [type |-> "RoleQuery", addr |-> f[1].v])
        [] type = 9 ->
             Read(f, <<8, 6>>, [type |-> "Election", candidate_id |-> f[1].v,
                                candidate_addr |-> f[2].v])
        [] type = 10 -> Read(f, <<8>>, [type |-> "ElectionOk", responder_id |-> f[1].v])
        [] type = 11 ->
             Read(f, <<8, 6>>, [type |-> "Coordinator", leader_id |-> f[1].v,
                                leader_addr |-> f[2].v])
        [] OTHER -> Invalid

-----------------------------------------------------------------------------
(* Frames *)

\* send_handler_first_message and read_handler_first_message: the length, the type
\* and the address of the node that connects.
FirstMessage(addr)  == Field(2, 7) \o Byte(105) \o AddrSrl(addr)
FirstAddress(frame) == frame[3].v

\* StreamSender::send: the length of a payload is two bytes.
Frame(m) == Field(2, Bytes(MessageSrl(m)) % 65536) \o MessageSrl(m)

\* StreamReceiver::recv: a length that is not the payload's takes other bytes for it.
Unframe(frame) ==
  IF frame[1].v # Bytes(Rest(frame, 1)) THEN Misread ELSE ToMessage(Rest(frame, 1))

-----------------------------------------------------------------------------
\* The messages that the code writes and has no way to read.
Unreadable(m) ==
  \/ m.type = "RoleResponse"
  \/ m.type = "Response" /\ m.op_result.type \in {"DatabaseSnapshot", "ReplaceDatabase"}
  \/ m.type = "Response" /\ m.op_result.type = "LimitCard" /\ m.op_result.error # <<>>
  \/ /\ m.type \in {"Request", "Log"} /\ m.op.type = "Bill"
     /\ \E i \in DOMAIN m.op.period : m.op.period[i] % 256 >= 128
  \/ Bytes(MessageSrl(m)) >= 65536

-----------------------------------------------------------------------------
\* Administrator::build_operation: a limit that is not positive is no limit.
BuildOperation(cmd) ==
  CASE cmd.type = "LimitAccount" ->
         [type |-> "LimitAccount", account_id |-> cmd.account_id,
          new_limit |-> IF cmd.amount > 0 THEN <<cmd.amount>> ELSE <<>>]
    [] cmd.type = "LimitCard" ->
         [type |-> "LimitCard", account_id |-> cmd.account_id, card_id |-> cmd.card_id,
          new_limit |-> IF cmd.amount > 0 THEN <<cmd.amount>> ELSE <<>>]
    [] cmd.type \in {"AccountQuery", "Bill"} -> cmd
=============================================================================
