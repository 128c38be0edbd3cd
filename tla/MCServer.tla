-------------------------------- MODULE MCServer --------------------------------
(* Small instances of Server for TLC, one for each plan.                       *)
EXTENDS Server, TLC

CONSTANTS old, new, r1

Images == old :> 2 @@ new :> 3
AtNew == r1 :> new

\* A deployment: the old and the new image start together on an empty database.
Deploy == [instances |-> {old, new}, faults |-> 2, time |-> 0, tokens |-> 0, others |-> FALSE]

\* Requests for all sorts of accounts, with a restart.
Busy == [instances |-> {new}, faults |-> 1, time |-> 5, tokens |-> 0, others |-> TRUE]

\* The tokens of one user, whose logins are limited too.
Users == [instances |-> {new}, faults |-> 0, time |-> 3, tokens |-> 1, others |-> FALSE]

\* The same in a shorter time, with a crash: a login is lost, a token is not.
Crash == [Users EXCEPT !.faults = 1, !.time = 1]

AllPlans == {Deploy, Busy, Users, Crash}

\* The whole plan's instances come to serve and remain so (Migrations has it for all
\* instances): no start is refused for ever.
EventuallyServes ==
    \A i \in Instances : <>[](i \in bound.instances => Serving(i))
===============================================================================
