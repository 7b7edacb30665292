------------------------------- MODULE Ledger -------------------------------
(***************************************************************************)
(* What the database of a node promises for the operations Charge,         *)
(* LimitAccount and LimitCard: each of them takes effect at one instant,   *)
(* is checked against the limits of that instant, and charges the card and *)
(* its account together or neither.  ActorDatabase implements it with      *)
(* actors that exchange messages.                                          *)
(***************************************************************************)
EXTENDS Operations, Functions

VARIABLES sent,    \* the operations sent so far
          ledger   \* the limits, the consumption and the outcome of every operation

Op  == sent
Ops == 1..Len(sent)

-----------------------------------------------------------------------------
EmptyLedger ==
  [accountLimit    |-> [a \in Accounts |-> NoLimit],
   accountConsumed |-> [a \in Accounts |-> 0],
   cardLimit       |-> [c \in Cards |-> NoLimit],
   cardConsumed    |-> [c \in Cards |-> 0],
   outcome         |-> <<>>]

Decide(L, o, ok) == [L EXCEPT !.outcome[o] = IF ok THEN "ok" ELSE "failed"]

\* A charge from an offline station is not checked.
ApplyCharge(L, o) ==
  LET c  == Op[o].card
      a  == Owner[c]
      ok == \/ Op[o].offline
            \/ /\ Within(L.cardConsumed[c] + Op[o].amount, L.cardLimit[c])
               /\ Within(L.accountConsumed[a] + Op[o].amount, L.accountLimit[a])
  IN  IF ok THEN [Decide(L, o, TRUE) EXCEPT !.cardConsumed[c] = @ + Op[o].amount,
                                            !.accountConsumed[a] = @ + Op[o].amount]
            ELSE Decide(L, o, FALSE)

\* A limit may not be set below what is consumed.
ApplyLimitAccount(L, o) ==
  LET a  == Op[o].account
      ok == Within(L.accountConsumed[a], Op[o].limit)
  IN  IF ok THEN [Decide(L, o, TRUE) EXCEPT !.accountLimit[a] = Op[o].limit]
            ELSE Decide(L, o, FALSE)

ApplyLimitCard(L, o) ==
  LET c  == Op[o].card
      ok == Within(L.cardConsumed[c], Op[o].limit)
  IN  IF ok THEN [Decide(L, o, TRUE) EXCEPT !.cardLimit[c] = Op[o].limit]
            ELSE Decide(L, o, FALSE)

Apply(L, o) == CASE Op[o].kind = "Charge"       -> ApplyCharge(L, o)
                 [] Op[o].kind = "LimitAccount" -> ApplyLimitAccount(L, o)
                 [] Op[o].kind = "LimitCard"    -> ApplyLimitCard(L, o)

LedgerOps == {o \in Ops : Op[o].kind \in {"Charge", "LimitAccount", "LimitCard"}}

\* The ledger after the operations of the sequence.
ApplyAll(L, os) ==
  LET run[i \in 0..Len(os)] == IF i = 0 THEN L ELSE Apply(run[i - 1], os[i])
  IN  run[Len(os)]

-----------------------------------------------------------------------------
Init == sent = <<>> /\ ledger = EmptyLedger

Submit ==
  \E op \in NextOperations(sent) :
    /\ sent' = Append(sent, op)
    /\ ledger' = [ledger EXCEPT !.outcome = Append(@, "none")]

\* One or more operations take effect, one after the other.
TakeEffect ==
  LET open == {o \in LedgerOps : ledger.outcome[o] = "none"}
  IN  /\ \E n \in 1..Len(sent) : \E os \in [1..n -> open] :
           IsInjective(os) /\ ledger' = ApplyAll(ledger, os)
      /\ UNCHANGED sent

Next == Submit \/ TakeEffect

Spec == Init /\ [][Next]_<<sent, ledger>>
=============================================================================
