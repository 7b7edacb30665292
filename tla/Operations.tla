---------------------------- MODULE Operations ----------------------------
(***************************************************************************)
(* The business operations that a node gives to its database (operation.rs *)
(* of common), and the accounts and cards they are about.  Amounts are     *)
(* integers: the rounding of f32 is left out.                              *)
(***************************************************************************)
EXTENDS Integers, Sequences

CONSTANTS Accounts, Cards,
          Owner,      \* Owner[c]: the account of card c
          Workloads   \* the sequences of operations that a node may send

NoLimit == -1      \* None in Option<f32>

Limits  == Nat \cup {NoLimit}
AccountSnapshots == [account : Accounts, limit : Limits, consumed : Nat]
CardSnapshots    == [card : Cards, limit : Limits, consumed : Nat]

\* enum Operation
Operation ==
  [kind : {"Charge"}, card : Cards, amount : Nat, offline : BOOLEAN]
    \cup [kind : {"LimitAccount"}, account : Accounts, limit : Limits]
    \cup [kind : {"LimitCard"}, card : Cards, limit : Limits]
    \cup [kind : {"AccountQuery", "Bill"}, account : Accounts]
    \cup [kind : {"GetDatabase"}]
    \cup [kind : {"ReplaceDatabase"}, accounts : SUBSET AccountSnapshots,
                                      cards : SUBSET CardSnapshots]

ASSUME OwnerAssumption == Owner \in [Cards -> Accounts]
ASSUME WorkloadsAssumption == \A w \in Workloads : w \in Seq(Operation)

\* The operations that may follow the ones sent: their ids are their positions.
NextOperations(sent) ==
  {w[Len(sent) + 1] : w \in {v \in Workloads : /\ Len(sent) < Len(v)
                                              /\ SubSeq(v, 1, Len(sent)) = sent}}

\* check_charge_limit, check_account_limit, can_set_new_limit, can_raise_limit:
\* a consumption is within a limit.
Within(consumed, limit) == limit = NoLimit \/ consumed <= limit
=============================================================================
