------------------------- MODULE MCStatementReport -------------------------
(* A small instance of StatementReport for TLC. *)
EXTENDS StatementReport, TLC

CONSTANTS r1, i1, a1, k1

\* An expense of the year under a category, an income of the year under a booking
\* account and an income of another year: a receipt can be rewritten to any of them.
MCDocuments ==
    {[inYear |-> TRUE, expense |-> TRUE, amount |-> 3, position |-> "4_wirtschaft"],
     [inYear |-> TRUE, expense |-> FALSE, amount |-> -2, position |-> k1],
     [inYear |-> FALSE, expense |-> FALSE, amount |-> 5, position |-> NULL]}
MCMovements == {[inYear |-> TRUE, amount |-> -7]}
MCMajority == k1 :> "1_ideel"
MCOpening == a1 :> 10 @@ Cash :> 1
=============================================================================
