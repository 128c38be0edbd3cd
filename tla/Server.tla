--------------------------------- MODULE Server ---------------------------------
(***************************************************************************)
(* The server around its handlers: instances that migrate the database and *)
(* then serve (Migrations), each with a limiter of its own in front of the *)
(* login (RateLimiter), and the tokens that logins give out (Tokens).      *)
(*                                                                         *)
(* Three things tie them together.  Only an instance that serves takes     *)
(* requests.  A login passes the limiter first, so it is one step of both. *)
(* An instance that ends loses the records of its limiter and the logins   *)
(* it was serving; the tokens remain, since all instances sign and check   *)
(* them with the secret of the configuration (main.go:32).                 *)
(***************************************************************************)
EXTENDS MigrationsState, RateLimiterState, TokensState

CONSTANTS
    RunsOn,     \* the instance a goroutine belongs to
    Plans       \* bounds: who takes part, and how much may happen

ASSUME GoroutinesPlaced == RunsOn \in [Requests -> Instances]

\* Each behaviour follows one plan: the product of all three would be too large.
ASSUME PlansBound ==
    \A plan \in Plans :
        /\ plan.instances \subseteq Instances
        /\ plan.faults \in Nat /\ plan.time \in Nat /\ plan.tokens \in Nat
        /\ plan.others \in BOOLEAN      \* also requests for other accounts

VARIABLE bound      \* the plan

Starts == INSTANCE Migrations
Limiter == INSTANCE RateLimiter
Access == INSTANCE Tokens

database == <<recorded, schema, inst, faults>>
limits == <<records, admitted>>
access == <<held, blocked, rq, tokens, lostAt, blockedAt>>
vars == <<database, now, limits, access, bound>>

Init ==
    /\ bound \in Plans
    /\ Starts!Init
    /\ Limiter!Init
    /\ Access!Init
    /\ bound.tokens = 0 => held = {}

Serving(i) == At(i, "serving")

\* An instance on its way to serving.
Starting(i) ==
    /\ i \in bound.instances
    /\ Starts!Advance(i)
    /\ UNCHANGED <<now, limits, access, bound>>

StartFails(i) ==
    /\ faults < bound.faults
    /\ Starts!ReadVersionsCut(i) \/ Starts!CommitUnacknowledged(i) \/ Starts!StatementFails(i)
    /\ UNCHANGED <<now, limits, access, bound>>

\* Whatever an instance does, it may end; nothing that is in its memory is kept.
Ends(i) ==
    /\ faults < bound.faults
    /\ Starts!Stop(i)
    /\ Limiter!Forget(i)
    /\ Access!Abandon({r \in Requests : RunsOn[r] = i})
    /\ UNCHANGED bound

\* AuthLimiter.Middleware(handleLogin)
Login(r, a) ==
    /\ bound.tokens > 0
    /\ Serving(RunsOn[r])
    /\ Limiter!Admit(RunsOn[r], a)
    /\ Access!LoginRead(r)
    /\ UNCHANGED <<database, bound>>

\* A registration, or a login that fails or is for somebody else.
OtherRequest(i, a) ==
    /\ bound.others
    /\ Serving(i)
    /\ Limiter!Admit(i, a)
    /\ UNCHANGED <<database, access, bound>>

TooManyRequests(i, a) ==
    /\ Serving(i)
    /\ Limiter!Refuse(i, a)
    /\ UNCHANGED <<database, access, bound>>

\* It goes on, or it ends early with its client or with an error.
LoginGoesOn(r) ==
    /\ Serving(RunsOn[r])
    /\ \/ Access!ReadRoles(r) \/ Access!ReadRolesFails(r)
       \/ Cardinality(tokens) < bound.tokens /\ Access!IssueToken(r)
       \/ rq[r] # Access!Idle /\ Access!Abandon({r})
    /\ UNCHANGED <<database, limits, bound>>

Cleanup(i) ==
    /\ Serving(i)
    /\ Limiter!Cleanup(i)
    /\ UNCHANGED <<database, access, bound>>

\* Administrators work at any instance.
RightsChange ==
    /\ bound.tokens > 0
    /\ \E i \in Instances : Serving(i)
    /\ Access!Rights
    /\ UNCHANGED <<database, limits, bound>>

Tick ==
    /\ now < bound.time
    /\ Limiter!Tick
    /\ Access!Tick
    /\ UNCHANGED <<database, bound>>

Next ==
    \/ Tick \/ RightsChange
    \/ \E r \in Requests : LoginGoesOn(r) \/ \E a \in Addresses : Login(r, a)
    \/ \E i \in Instances :
        \/ Starting(i) \/ StartFails(i) \/ Ends(i) \/ Cleanup(i)
        \/ \E a \in Addresses : OtherRequest(i, a) \/ TooManyRequests(i, a)

Spec == Init /\ [][Next]_vars

\* Only the starts are owed to anybody: clients and administrators come and go.
FairSpec == Spec /\ \A i \in Instances : WF_vars(Starting(i))
===============================================================================
