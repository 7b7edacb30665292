----------------------------- MODULE MCElection -----------------------------
(***************************************************************************)
(* Instances of Election for TLC.                                          *)
(***************************************************************************)
EXTENDS ElectionInvariant

Scenario(members, first, crashes, timely, crossing) ==
  [members |-> members, first |-> first, crashes |-> crashes, timely |-> timely,
   crossing |-> crossing]

\* Four nodes whose answers come in time; three whose answers may come too late;
\* three whose connections may cross.
Crashes == {Scenario(1..4, 1..4, 2, TRUE, FALSE), Scenario(1..3, 1..3, 1, FALSE, FALSE),
            Scenario(1..3, 1..3, 2, TRUE, TRUE)}

\* The leader crashes: nodes connect to each other; the higher one of those that
\* call crashes too; answers come too late.
Crossing == {Scenario(1..3, {1}, 1, TRUE, TRUE)}
Stuck    == {Scenario(1..3, {1}, 2, TRUE, FALSE)}
Late     == {Scenario(1..4, {4}, 1, FALSE, FALSE)}
=============================================================================
