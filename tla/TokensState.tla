----------------------------- MODULE TokensState ------------------------------
(***************************************************************************)
(* The state of Tokens, what the middleware reads off from it, and what    *)
(* rights and tokens promise to each other.                                *)
(***************************************************************************)
EXTENDS Deployment, FiniteSets

VARIABLES
    held,       \* rows of user_roles
    blocked,    \* users.is_blocked
    rq,         \* logins under way, with the flag they have read
    tokens,     \* the tokens given out
    lostAt,     \* history: when the user last lost the role Admin in a club
    blockedAt   \* history: when the user was last blocked

AdminOf == {c \in Clubs : <<c, Admin>> \in held}

-------------------------------------------------------------------------------
(* What a request with a token may do: it changes nothing of the above. *)

\* Slip: the token has no expiry.
GoodForEver(t) == TRUE

\* AuthMiddleware: exp lies in the future.
Valid(t) == now < t.issued + Life

HasPermission(c) == \E role \in Permitting : <<c, role>> \in held

\* RequirePermission: first the claims, then the database.
Permitted(t, c) == Valid(t) /\ (c \in t.admin \/ HasPermission(c))

\* requireClubAdmin: the claims alone.
MayManageBoard(t, c) == Valid(t) /\ c \in t.admin

-------------------------------------------------------------------------------
LostRecently(c) == lostAt[c].lost /\ now < lostAt[c].at + Life

\* The role went while the login that issued the token was between its query of the
\* roles and the signing.
LostWhileSigning(t, c) == lostAt[c].lost /\ lostAt[c].at < t.issued

\* A token goes on to speak for a role that is gone, but only if its login had read
\* the roles before the loss; and not for longer than its life after the loss, unless
\* the loss came before the signing, when the life counts from there.  It never speaks
\* for a club in which the user was no administrator (auth_handler.go:179-190,
\* middleware.go:104-118, board_handler.go:61).
ClaimsFade ==
    \A t \in tokens, c \in Clubs :
        LET Outlived ==
            /\ c \in t.admin /\ t.read <= lostAt[c].at
            /\ LostRecently(c) \/ LostWhileSigning(t, c)
        IN  /\ MayManageBoard(t, c) => c \in AdminOf \/ Outlived
            /\ Permitted(t, c) => HasPermission(c) \/ c \in AdminOf \/ Outlived

\* A block keeps out only those who log in, so the user goes on with the tokens
\* there are; but once the block has lasted for the life of a token, what is left
\* was issued by a login that had read the user before the block
\* (auth_handler.go:161-165).
BlockOutlasts ==
    blocked /\ now >= blockedAt + Life => \A t \in tokens : Valid(t) => t.stale
===============================================================================
