------------------------------- MODULE Deployment -------------------------------
(***************************************************************************)
(* What Migrations, RateLimiter, Tokens and their composition Server share:*)
(* the processes, what is configured in the code, who the clients are, the *)
(* clock, and the bounds.                                                  *)
(***************************************************************************)
EXTENDS Naturals

CONSTANTS
    Instances,      \* processes of the server, say the old and the new image
    Knows,          \* how many migration files the image of an instance holds
    Addresses,      \* of clients
    Limit,          \* admitted requests in a window (10)
    Window,         \* its length (one minute)
    Clubs, RoleNames,
    Admin,          \* the role that the middleware knows by name
    Permitting,     \* the roles that carry the permission asked for
    Requests,       \* goroutines that serve logins of the user
    Life            \* of a token (24 hours)

CONSTANTS
    MaxFaults,      \* bound: so many crashes, failures and lost answers
    MaxCount,       \* bound: refused requests are not counted beyond it
    MaxTokens,      \* bound: so many tokens are issued
    MaxTime         \* bound: the clock stops here

ASSUME KnowsFiles == Knows \in [Instances -> Nat]
ASSUME LimitPositive == Limit \in Nat \ {0}
ASSUME LengthsAreNat == Window \in Nat /\ Life \in Nat
ASSUME AdminIsRole == Admin \in RoleNames
ASSUME BoundsAreNat ==
    MaxFaults \in Nat /\ MaxCount \in Nat /\ MaxTokens \in Nat /\ MaxTime \in Nat

VARIABLE now    \* the clock
===============================================================================
