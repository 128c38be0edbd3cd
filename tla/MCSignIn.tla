------------------------------- MODULE MCSignIn -------------------------------
(* A small instance of SignIn for TLC: bodies of updates, symmetry. *)
EXTENDS SignIn, TLC

CONSTANT own    \* the password people choose

Body(password, mustChange, blocked, admin) ==
    [password |-> password, mustChange |-> mustChange, blocked |-> blocked, admin |-> admin]

\* Users change their password or ask to be unblocked; administrators block,
\* unblock and waive the change of a password.
SomeChanges == {
    Body(own, FALSE, Keep, FALSE),
    Body(Keep, Keep, FALSE, FALSE),
    Body(Keep, Keep, TRUE, TRUE),
    Body(Keep, Keep, FALSE, TRUE),
    Body(Keep, FALSE, Keep, TRUE)}

RequestSymmetry == Permutations(Requests)
===============================================================================
