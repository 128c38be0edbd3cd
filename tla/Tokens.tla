--------------------------------- MODULE Tokens ---------------------------------
(***************************************************************************)
(* What a user may do, as the server sees it: a login copies the roles of  *)
(* the user into a signed token that is good for a day (auth_handler.go,   *)
(* auth.go), and the middleware believes the token when it says that the   *)
(* user is an administrator of the club, and asks the database otherwise   *)
(* (middleware.go, requireClubAdmin).  Roles are taken away and the user   *)
(* is blocked while tokens are in use and while logins are under way, also *)
(* between their query of the roles and the signing; nothing calls a token *)
(* back.                                                                   *)
(*                                                                         *)
(* One user.  Passwords are the business of SignIn, the handlers that      *)
(* write roles that of BoardRoles: here a role comes and goes in one step. *)
(* Registration ends as a login does.  is_sys_admin is left out: nothing   *)
(* changes it.                                                             *)
(***************************************************************************)
EXTENDS TokensState

vars == <<now, held, blocked, rq, tokens, lostAt, blockedAt>>
history == <<lostAt, blockedAt>>

\* A login has read the user, then the roles, and then signs the token.
Idle == [at |-> "idle"]
Request ==
    [at : {"idle"}] \cup [at : {"roles"}, seen : BOOLEAN]
        \cup [at : {"token"}, seen : BOOLEAN, admin : SUBSET Clubs, read : Nat]

\* admin: the clubs in which the claims name the user an administrator;
\* read (history): when the login read them;
\* stale (history): issued to a blocked user whom the login had read unblocked.
Token == [admin : SUBSET Clubs, read : Nat, issued : Nat, stale : BOOLEAN]

Never == [lost |-> FALSE, at |-> 0]

Init ==
    /\ now = 0
    /\ held \in SUBSET (Clubs \X RoleNames)
    /\ blocked = FALSE
    /\ rq = [r \in Requests |-> Idle]
    /\ tokens = {}
    /\ lostAt = [c \in Clubs |-> Never]
    /\ blockedAt = 0

Become(r, state) == rq' = [rq EXCEPT ![r] = state]

-------------------------------------------------------------------------------
\* Slip: the flag is not looked at.
AnybodyMayLogin == TRUE

MayLogin == ~blocked

\* The row is read; the slow comparison of the password lies between this step
\* and the next.  A blocked user is answered 403.
LoginRead(r) ==
    /\ rq[r].at = "idle"
    /\ MayLogin
    /\ Become(r, [at |-> "roles", seen |-> blocked])
    /\ UNCHANGED <<now, held, blocked, tokens, history>>

RolesRead(r, admin) ==
    /\ rq[r].at = "roles"
    /\ Become(r, [at |-> "token", seen |-> rq[r].seen, admin |-> admin, read |-> now])
    /\ UNCHANGED <<now, held, blocked, tokens, history>>

ReadRoles(r) == RolesRead(r, AdminOf)

\* The error of GetUserRoles is ignored: there will be a token without roles.
ReadRolesFails(r) == RolesRead(r, {})

\* GenerateToken takes the time of its own and the roles as they were read.
IssueToken(r) ==
    /\ rq[r].at = "token"
    /\ Cardinality(tokens) < MaxTokens
    /\ tokens' = tokens \cup
        {[admin |-> rq[r].admin, read |-> rq[r].read, issued |-> now,
          stale |-> blocked /\ ~rq[r].seen]}
    /\ Become(r, Idle)
    /\ UNCHANGED <<now, held, blocked, history>>

\* Clients leave, or a process ends with all the logins it serves.
Abandon(gone) ==
    /\ rq' = [r \in Requests |-> IF r \in gone THEN Idle ELSE rq[r]]
    /\ UNCHANGED <<now, held, blocked, tokens, history>>

-------------------------------------------------------------------------------
Grant(c, role) ==
    /\ <<c, role>> \notin held
    /\ held' = held \cup {<<c, role>>}
    /\ UNCHANGED <<now, blocked, rq, tokens, history>>

Revoke(c, role) ==
    /\ <<c, role>> \in held
    /\ held' = held \ {<<c, role>>}
    /\ lostAt' = IF role = Admin
                 THEN [lostAt EXCEPT ![c] = [lost |-> TRUE, at |-> now]]
                 ELSE lostAt
    /\ UNCHANGED <<now, blocked, rq, tokens, blockedAt>>

Block ==
    /\ ~blocked
    /\ blocked' = TRUE
    /\ blockedAt' = now
    /\ UNCHANGED <<now, held, rq, tokens, lostAt>>

Unblock ==
    /\ blocked
    /\ blocked' = FALSE
    /\ UNCHANGED <<now, held, rq, tokens, history>>

Tick ==
    /\ now < MaxTime
    /\ now' = now + 1
    /\ UNCHANGED <<held, blocked, rq, tokens, history>>

Rights ==
    \/ Block \/ Unblock
    \/ \E c \in Clubs, role \in RoleNames : Grant(c, role) \/ Revoke(c, role)

Next ==
    \/ Tick \/ Rights
    \/ \E r \in Requests :
        LoginRead(r) \/ ReadRoles(r) \/ ReadRolesFails(r) \/ IssueToken(r)
    \/ \E gone \in SUBSET Requests : Abandon(gone)

Spec == Init /\ [][Next]_vars

-------------------------------------------------------------------------------
TypeOK ==
    /\ now \in 0 .. MaxTime
    /\ held \subseteq Clubs \X RoleNames
    /\ blocked \in BOOLEAN
    /\ rq \in [Requests -> Request]
    /\ tokens \subseteq Token
    /\ lostAt \in [Clubs -> [lost : BOOLEAN, at : Nat]]
    /\ blockedAt \in Nat
===============================================================================
