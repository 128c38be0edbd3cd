----------------------------- MODULE ServerProofs -----------------------------
(***************************************************************************)
(* The composition implements each of its components: whatever the server  *)
(* does is a step of the starts, the limiter or the rights, or leaves them *)
(* alone.  So what is proved of the components by themselves holds of the  *)
(* server, for any plans, instances, clients and logins.  Each component   *)
(* has the proofs of its properties below, in the composition.             *)
(***************************************************************************)
EXTENDS Server, TLAPS

\* What an instance does on its way, and that it ends, are steps of the starts.
LEMMA StartsGoOn ==
    ASSUME NEW i \in Instances, Ends(i) \/ Starting(i) \/ StartFails(i)
    PROVE  Starts!Next
<1>1. CASE Starting(i)
  BY <1>1 DEF Starting, Starts!Next
<1>2. CASE StartFails(i)
  BY <1>2 DEF StartFails, Starts!Next
<1>3. CASE Ends(i)
  BY <1>3 DEF Ends, Starts!Next
<1>. QED BY <1>1, <1>2, <1>3

\* An instance goes through its files as if there were no requests (main.go:36-63).
LEMMA StepOfStarts == [Next]_vars => [Starts!Next]_Starts!vars
<1>. SUFFICES ASSUME [Next]_vars PROVE [Starts!Next]_Starts!vars
  OBVIOUS
<1>1. ASSUME UNCHANGED database PROVE UNCHANGED Starts!vars
  BY <1>1 DEF database, Starts!vars
<1>2. CASE UNCHANGED vars
  BY <1>1, <1>2 DEF vars
<1>3. CASE Tick \/ RightsChange
  BY <1>1, <1>3 DEF Tick, RightsChange
<1>4. ASSUME NEW r \in Requests, LoginGoesOn(r) \/ \E a \in Addresses : Login(r, a)
      PROVE  UNCHANGED database
  BY <1>4 DEF LoginGoesOn, Login
<1>5. ASSUME NEW i \in Instances,
             Cleanup(i) \/ \E a \in Addresses : OtherRequest(i, a) \/ TooManyRequests(i, a)
      PROVE  UNCHANGED database
  BY <1>5 DEF Cleanup, OtherRequest, TooManyRequests
<1>. QED BY <1>1, <1>2, <1>3, <1>4, <1>5, StartsGoOn DEF Next

\* The limiter sees requests, the clock and restarts (ratelimit.go:42-97).
LEMMA StepOfLimiter == [Next]_vars => [Limiter!Next]_Limiter!vars
<1>. SUFFICES ASSUME [Next]_vars PROVE [Limiter!Next]_Limiter!vars
  OBVIOUS
<1>1. ASSUME UNCHANGED <<now, limits>> PROVE UNCHANGED Limiter!vars
  BY <1>1 DEF limits, Limiter!vars
<1>2. CASE UNCHANGED vars
  BY <1>1, <1>2 DEF vars
<1>3. CASE Tick
  BY <1>3 DEF Tick, Limiter!Next
<1>4. CASE RightsChange
  <2>1. UNCHANGED now
    BY <1>4 DEF RightsChange, Access!Rights, Access!Block, Access!Unblock,
                Access!Grant, Access!Revoke
  <2>. QED BY <1>1, <1>4, <2>1 DEF RightsChange
<1>5. ASSUME NEW r \in Requests, LoginGoesOn(r) PROVE UNCHANGED <<now, limits>>
  BY <1>5 DEF LoginGoesOn, Access!ReadRoles, Access!ReadRolesFails, Access!RolesRead,
              Access!IssueToken, Access!Abandon
<1>6. ASSUME NEW r \in Requests, NEW a \in Addresses, Login(r, a) PROVE Limiter!Next
  BY <1>6, GoroutinesPlaced DEF Login, Limiter!Next
<1>7. ASSUME NEW i \in Instances, Starting(i) \/ StartFails(i) PROVE UNCHANGED <<now, limits>>
  BY <1>7 DEF Starting, StartFails
<1>8. ASSUME NEW i \in Instances, Ends(i) \/ Cleanup(i) PROVE Limiter!Next
  BY <1>8 DEF Ends, Cleanup, Limiter!Next
<1>9. ASSUME NEW i \in Instances, NEW a \in Addresses, OtherRequest(i, a) \/ TooManyRequests(i, a)
      PROVE  Limiter!Next
  BY <1>9 DEF OtherRequest, TooManyRequests, Limiter!Next
<1>. QED BY <1>1, <1>2, <1>3, <1>4, <1>5, <1>6, <1>7, <1>8, <1>9 DEF Next

\* Logins that end early, with their client or their process, are all that a token
\* knows of the instances (auth_handler.go:121-190).
LEMMA StepOfAccess == [Next]_vars => [Access!Next]_Access!vars
<1>. SUFFICES ASSUME [Next]_vars PROVE [Access!Next]_Access!vars
  OBVIOUS
<1>1. ASSUME UNCHANGED <<now, access>> PROVE UNCHANGED Access!vars
  BY <1>1 DEF access, Access!vars
<1>2. CASE UNCHANGED vars
  BY <1>1, <1>2 DEF vars
<1>3. CASE Tick \/ RightsChange
  BY <1>3 DEF Tick, RightsChange, Access!Next
<1>4. ASSUME NEW r \in Requests, LoginGoesOn(r) PROVE Access!Next
  <2>1. {r} \in SUBSET Requests
    OBVIOUS
  <2>. QED BY <1>4, <2>1 DEF LoginGoesOn, Access!Next
<1>5. ASSUME NEW r \in Requests, NEW a \in Addresses, Login(r, a) PROVE Access!Next
  BY <1>5 DEF Login, Access!Next
<1>6. ASSUME NEW i \in Instances, Starting(i) \/ StartFails(i) PROVE UNCHANGED <<now, access>>
  BY <1>6 DEF Starting, StartFails
<1>7. ASSUME NEW i \in Instances, Ends(i) PROVE Access!Next
  <2>1. {r \in Requests : RunsOn[r] = i} \in SUBSET Requests
    OBVIOUS
  <2>. QED BY <1>7, <2>1 DEF Ends, Access!Next
<1>8. ASSUME NEW i \in Instances, NEW a \in Addresses,
             Cleanup(i) \/ OtherRequest(i, a) \/ TooManyRequests(i, a)
      PROVE  UNCHANGED <<now, access>>
  BY <1>8 DEF Cleanup, OtherRequest, TooManyRequests, Limiter!Cleanup, Limiter!Admit,
              Limiter!FirstOfWindow, Limiter!NextOfWindow, Limiter!Refuse
<1>9. ASSUME NEW i \in Instances, Cleanup(i) PROVE UNCHANGED <<now, access>>
  BY <1>9 DEF Cleanup, Limiter!Cleanup
<1>. QED BY <1>1, <1>2, <1>3, <1>4, <1>5, <1>6, <1>7, <1>8, <1>9 DEF Next

\* Serving requests does not disturb the starts of instances: the server implements
\* Migrations (main.go:36-63).
THEOREM ImplementsMigrations == Spec => Starts!Spec
<1>1. Init => Starts!Init
  BY DEF Init
<1>. QED BY <1>1, StepOfStarts, PTL DEF Spec, Starts!Spec

\* In front of the login, at any instance and across its restarts, the limiter
\* works as it does by itself: the server implements RateLimiter (api.go:32-33).
THEOREM ImplementsRateLimiter == Spec => Limiter!Spec
<1>1. Init => Limiter!Init
  BY DEF Init
<1>. QED BY <1>1, StepOfLimiter, PTL DEF Spec, Limiter!Spec

\* Tokens outlive the process that signed them, and behind the limiter rights and
\* tokens work as they do by themselves: the server implements Tokens (main.go:32).
THEOREM ImplementsTokens == Spec => Access!Spec
<1>1. Init => Access!Init
  BY DEF Init
<1>. QED BY <1>1, StepOfAccess, PTL DEF Spec, Access!Spec

-------------------------------------------------------------------------------
(***************************************************************************)
(* The age of tokens.  Every token is dated: one that names an             *)
(* administrator goes back to roles that were read while the role was      *)
(* held, hence before its last loss (Witnessed); logins that have read     *)
(* them and not yet signed are the same (Gathered).  A token that a        *)
(* blocked user has was issued before the block, or by a login older than  *)
(* that (Dated, Unseen).                                                   *)
(***************************************************************************)

\* Roles read at some time: what was true then is still true, or was lost since.
HeldAt(admin, time) ==
    /\ time <= now
    /\ \A c \in admin : c \in AdminOf \/ (lostAt[c].lost /\ time <= lostAt[c].at)

Witnessed == \A t \in tokens : HeldAt(t.admin, t.read)

Gathered == \A r \in Requests : rq[r].at = "token" => HeldAt(rq[r].admin, rq[r].read)

Dated ==
    /\ \A t \in tokens : t.issued <= now
    /\ blocked => \A t \in tokens : t.stale \/ t.issued <= blockedAt

\* Only an unblocked user has a login under way that has read the row.
Unseen == \A r \in Requests : rq[r].at # "idle" => ~rq[r].seen

RightsInv == Access!TypeOK /\ Witnessed /\ Gathered /\ Dated /\ Unseen

LEMMA RightsInit == Access!Init => RightsInv
<1>. SUFFICES ASSUME Access!Init PROVE RightsInv
  OBVIOUS
<1>1. /\ Access!Idle \in Access!Request /\ Access!Idle.at = "idle"
      /\ Access!Never \in [lost : BOOLEAN, at : Nat]
  BY DEF Access!Idle, Access!Request, Access!Never
<1>2. rq \in [Requests -> Access!Request] /\ lostAt \in [Clubs -> [lost : BOOLEAN, at : Nat]]
  BY <1>1 DEF Access!Init
<1>3. Access!TypeOK
  <2>1. now \in 0 .. MaxTime /\ blockedAt \in Nat
    BY LengthsAreNat, BoundsAreNat DEF Access!Init
  <2>2. blocked \in BOOLEAN /\ tokens \subseteq Access!Token
    BY DEF Access!Init
  <2>3. held \subseteq Clubs \X RoleNames
    BY Zenon DEF Access!Init
  <2>. QED BY <1>2, <2>1, <2>2, <2>3 DEF Access!TypeOK
<1>4. Witnessed /\ Dated
  BY DEF Access!Init, Witnessed, Dated
<1>5. Unseen /\ Gathered
  BY <1>1 DEF Access!Init, Unseen, Gathered
<1>. QED BY <1>3, <1>4, <1>5 DEF RightsInv

\* The shapes of what is under way and of what was given out.
LEMMA OfTokens ==
    ASSUME Access!TypeOK
    PROVE  /\ now \in Nat /\ blockedAt \in Nat
           /\ \A t \in tokens : t.admin \subseteq Clubs /\ t.read \in Nat /\ t.issued \in Nat
           /\ \A c \in Clubs : lostAt[c].at \in Nat
           /\ \A r \in Requests : rq[r].at = "token" =>
                /\ rq[r].seen \in BOOLEAN
                /\ rq[r].admin \in SUBSET Clubs
                /\ rq[r].read \in Nat
<1>1. now \in Nat /\ blockedAt \in Nat /\ \A c \in Clubs : lostAt[c].at \in Nat
  BY LengthsAreNat, BoundsAreNat DEF Access!TypeOK
<1>2. \A t \in tokens : t.admin \subseteq Clubs /\ t.read \in Nat /\ t.issued \in Nat
  BY DEF Access!TypeOK, Access!Token
<1>3. ASSUME NEW r \in Requests, rq[r].at = "token"
      PROVE  rq[r].seen \in BOOLEAN /\ rq[r].admin \in SUBSET Clubs /\ rq[r].read \in Nat
  <2>1. rq[r] \in Access!Request
    BY DEF Access!TypeOK
  <2>. QED BY <1>3, <2>1 DEF Access!Request
<1>. QED BY <1>1, <1>2, <1>3

\* As long as neither roles nor clock have changed, what was read stays true.
LEMMA StillHeld ==
    ASSUME UNCHANGED <<now, held, lostAt>>, NEW admin, NEW time
    PROVE  HeldAt(admin, time)' <=> HeldAt(admin, time)
  BY DEF HeldAt, AdminOf

\* A login goes to its next stage.
LEMMA StageKeeps ==
    ASSUME RightsInv, NEW r \in Requests, NEW state \in Access!Request,
           rq' = [rq EXCEPT ![r] = state],
           UNCHANGED <<now, held, blocked, tokens, lostAt, blockedAt>>,
           state.at # "idle" => ~state.seen,
           state.at = "token" => HeldAt(state.admin, state.read)
    PROVE  RightsInv'
<1>1. \A q \in Requests : rq'[q] = IF q = r THEN state ELSE rq[q]
  BY DEF RightsInv, Access!TypeOK
<1>2. Access!TypeOK'
  BY DEF RightsInv, Access!TypeOK
<1>3. Witnessed'
  BY StillHeld DEF RightsInv, Witnessed
<1>4. Gathered'
  BY <1>1, StillHeld DEF RightsInv, Gathered
<1>5. Dated'
  BY DEF RightsInv, Dated
<1>6. Unseen'
  BY <1>1 DEF RightsInv, Unseen
<1>. QED BY <1>2, <1>3, <1>4, <1>5, <1>6 DEF RightsInv

\* A login reads no more roles than there are (auth_handler.go:177-188).
LEMMA ReadKeeps ==
    ASSUME RightsInv, NEW r \in Requests, NEW admin \in SUBSET AdminOf, Access!RolesRead(r, admin)
    PROVE  RightsInv'
<1>. DEFINE state == [at |-> "token", seen |-> rq[r].seen, admin |-> admin, read |-> now]
<1>1. rq[r].at = "roles" /\ rq[r].seen \in BOOLEAN /\ ~rq[r].seen
  <2>1. rq[r] \in Access!Request /\ rq[r].at = "roles"
    BY DEF RightsInv, Access!TypeOK, Access!RolesRead
  <2>. QED BY <2>1 DEF Access!Request, RightsInv, Unseen
<1>2. state \in Access!Request
  <2>1. admin \in SUBSET Clubs
    BY DEF AdminOf
  <2>. QED BY <1>1, <2>1, OfTokens DEF Access!Request, RightsInv
<1>3. HeldAt(admin, now)
  BY OfTokens DEF HeldAt, RightsInv
<1>4. state.at = "token" /\ ~state.seen /\ state.admin = admin /\ state.read = now
  BY <1>1
<1>5. /\ rq' = [rq EXCEPT ![r] = state]
      /\ UNCHANGED <<now, held, blocked, tokens, lostAt, blockedAt>>
  BY DEF Access!RolesRead, Access!Become, Access!history
<1>. HIDE DEF state
<1>. QED BY <1>2, <1>3, <1>4, <1>5, StageKeeps

\* A token says what the login had read, and when (auth_handler.go:190).
LEMMA IssueKeeps ==
    ASSUME RightsInv, NEW r \in Requests, Access!IssueToken(r)
    PROVE  RightsInv'
<1>. DEFINE new == [admin |-> rq[r].admin, read |-> rq[r].read, issued |-> now,
                    stale |-> blocked /\ ~rq[r].seen]
<1>1. rq[r].at = "token" /\ HeldAt(rq[r].admin, rq[r].read) /\ ~rq[r].seen
  BY DEF RightsInv, Gathered, Unseen, Access!IssueToken
<1>2. /\ new.admin = rq[r].admin /\ new.read = rq[r].read /\ new.issued = now
      /\ blocked => new.stale
  BY <1>1
<1>3. new \in Access!Token
  <2>1. rq[r].admin \in SUBSET Clubs /\ rq[r].read \in Nat /\ now \in Nat
    BY <1>1, OfTokens DEF RightsInv
  <2>2. (blocked /\ ~rq[r].seen) \in BOOLEAN
    OBVIOUS
  <2>. QED BY <2>1, <2>2 DEF Access!Token
<1>. HIDE DEF new
<1>4. /\ tokens' = tokens \cup {new} /\ rq' = [rq EXCEPT ![r] = Access!Idle]
      /\ UNCHANGED <<now, held, blocked, lostAt, blockedAt>>
  BY DEF Access!IssueToken, Access!Become, Access!history, new
<1>5. Access!TypeOK'
  BY <1>3, <1>4 DEF RightsInv, Access!TypeOK, Access!Idle, Access!Request
<1>6. Witnessed'
  BY <1>1, <1>2, <1>4, StillHeld DEF RightsInv, Witnessed
<1>7. \A q \in Requests : rq'[q] \in {rq[q], Access!Idle} /\ Access!Idle.at = "idle"
  BY <1>4 DEF RightsInv, Access!TypeOK, Access!Idle
<1>8. Gathered'
  BY <1>4, <1>7, StillHeld DEF RightsInv, Gathered
<1>9. Dated'
  BY <1>2, <1>4, OfTokens DEF RightsInv, Dated
<1>10. Unseen'
  BY <1>7 DEF RightsInv, Unseen
<1>. QED BY <1>5, <1>6, <1>8, <1>9, <1>10 DEF RightsInv

\* Time goes on, roles come, and roles go, now: what was read at a time stays true.
LEMMA HeldGoesOn ==
    ASSUME Access!TypeOK,
           \/ Access!Tick
           \/ \E c \in Clubs, role \in RoleNames : Access!Grant(c, role) \/ Access!Revoke(c, role),
           NEW admin \in SUBSET Clubs, NEW time \in Nat, HeldAt(admin, time)
    PROVE  HeldAt(admin, time)'
<1>. USE DEF Access!history
<1>0. now \in Nat /\ time <= now /\ \A c \in Clubs : lostAt[c].at \in Nat
  BY OfTokens DEF HeldAt
<1>1. CASE Access!Tick
  BY <1>0, <1>1 DEF Access!Tick, HeldAt, AdminOf
<1>2. ASSUME NEW c \in Clubs, NEW role \in RoleNames, Access!Grant(c, role)
      PROVE  HeldAt(admin, time)'
  BY <1>2 DEF Access!Grant, HeldAt, AdminOf
<1>3. ASSUME NEW c \in Clubs, NEW role \in RoleNames, Access!Revoke(c, role)
      PROVE  HeldAt(admin, time)'
  <2>1. now' = now /\ time <= now
    BY <1>0, <1>3 DEF Access!Revoke
  <2>2. ASSUME NEW d \in admin
        PROVE  d \in AdminOf' \/ (lostAt'[d].lost /\ time <= lostAt'[d].at)
    <3>1. d \in Clubs
      OBVIOUS
    <3>2. CASE role = Admin /\ d = c
      <4>1. lostAt'[d] = [lost |-> TRUE, at |-> now]
        BY <1>3, <3>1, <3>2 DEF Access!Revoke, Access!TypeOK
      <4>. QED BY <2>1, <4>1
    <3>3. CASE ~(role = Admin /\ d = c)
      <4>1. lostAt'[d] = lostAt[d]
        BY <1>3, <3>1, <3>3 DEF Access!Revoke, Access!TypeOK
      <4>2. d \in AdminOf => d \in AdminOf'
        BY <1>3, <3>1, <3>3 DEF Access!Revoke, AdminOf
      <4>. QED BY <4>1, <4>2 DEF HeldAt
    <3>. QED BY <3>2, <3>3
  <2>. QED BY <2>1, <2>2 DEF HeldAt
<1>. QED BY <1>1, <1>2, <1>3

LEMMA RightsStep == RightsInv /\ [Access!Next]_Access!vars => RightsInv'
<1>. SUFFICES ASSUME RightsInv, [Access!Next]_Access!vars PROVE RightsInv'
  OBVIOUS
<1>. USE DEF Access!history
<1>0. Access!TypeOK /\ now \in Nat /\ blockedAt \in Nat
  BY OfTokens DEF RightsInv
<1>1. CASE UNCHANGED Access!vars
  <2>1. Access!TypeOK' /\ Dated' /\ Unseen'
    BY <1>1 DEF Access!vars, RightsInv, Access!TypeOK, Dated, Unseen
  <2>2. Witnessed' /\ Gathered'
    BY <1>1, StillHeld DEF Access!vars, RightsInv, Witnessed, Gathered
  <2>. QED BY <2>1, <2>2 DEF RightsInv
<1>2. CASE Access!Block \/ Access!Unblock
  <2>1. Access!TypeOK' /\ Unseen'
    BY <1>0, <1>2 DEF Access!Block, Access!Unblock, RightsInv, Access!TypeOK, Unseen
  <2>2. Dated'
    BY <1>2 DEF Access!Block, Access!Unblock, RightsInv, Dated
  <2>3. Witnessed' /\ Gathered'
    BY <1>2, StillHeld DEF Access!Block, Access!Unblock, RightsInv, Witnessed, Gathered
  <2>. QED BY <2>1, <2>2, <2>3 DEF RightsInv
<1>3. CASE \/ Access!Tick
           \/ \E c \in Clubs, role \in RoleNames : Access!Grant(c, role) \/ Access!Revoke(c, role)
  <2>1. UNCHANGED <<blocked, rq, tokens, blockedAt>>
    BY <1>3 DEF Access!Tick, Access!Grant, Access!Revoke
  <2>2. /\ now' \in 0 .. MaxTime /\ now <= now'
        /\ held' \subseteq Clubs \X RoleNames
        /\ lostAt' \in [Clubs -> [lost : BOOLEAN, at : Nat]]
    <3>1. CASE Access!Tick
      BY <1>0, <3>1, LengthsAreNat, BoundsAreNat DEF Access!Tick, Access!TypeOK
    <3>2. ASSUME NEW c \in Clubs, NEW role \in RoleNames, Access!Grant(c, role)
          PROVE  /\ UNCHANGED <<now, lostAt>>
                 /\ held' \subseteq Clubs \X RoleNames
      BY <1>0, <3>2 DEF Access!Grant, Access!TypeOK
    <3>3. ASSUME NEW c \in Clubs, NEW role \in RoleNames, Access!Revoke(c, role)
          PROVE  /\ UNCHANGED now
                 /\ held' \subseteq Clubs \X RoleNames
                 /\ lostAt' \in [Clubs -> [lost : BOOLEAN, at : Nat]]
      BY <1>0, <3>3 DEF Access!Revoke, Access!TypeOK
    <3>4. now \in 0 .. MaxTime /\ lostAt \in [Clubs -> [lost : BOOLEAN, at : Nat]]
      BY <1>0 DEF Access!TypeOK
    <3>. QED BY <1>0, <1>3, <3>1, <3>2, <3>3, <3>4
  <2>3. Access!TypeOK'
    BY <1>0, <2>1, <2>2 DEF Access!TypeOK
  <2>4. Dated' /\ Unseen'
    BY <1>0, <2>1, <2>2, OfTokens, LengthsAreNat, BoundsAreNat DEF RightsInv, Dated, Unseen
  <2>5. Witnessed'
    BY <1>0, <1>3, <2>1, OfTokens, HeldGoesOn DEF RightsInv, Witnessed
  <2>6. Gathered'
    BY <1>0, <1>3, <2>1, OfTokens, HeldGoesOn DEF RightsInv, Gathered
  <2>. QED BY <2>3, <2>4, <2>5, <2>6 DEF RightsInv
<1>4. ASSUME NEW r \in Requests, Access!LoginRead(r) PROVE RightsInv'
  <2>. DEFINE state == [at |-> "roles", seen |-> blocked]
  <2>1. /\ ~blocked /\ rq' = [rq EXCEPT ![r] = state]
        /\ UNCHANGED <<now, held, blocked, tokens, lostAt, blockedAt>>
    BY <1>4 DEF Access!LoginRead, Access!MayLogin, Access!Become
  <2>2. state \in Access!Request
    BY <1>0 DEF Access!TypeOK, Access!Request
  <2>3. state.at = "roles" /\ ~state.seen
    BY <2>1
  <2>. HIDE DEF state
  <2>. QED BY <2>1, <2>2, <2>3, StageKeeps
<1>5. ASSUME NEW r \in Requests, Access!ReadRoles(r) \/ Access!ReadRolesFails(r)
      PROVE  RightsInv'
  <2>1. {} \in SUBSET AdminOf /\ AdminOf \in SUBSET AdminOf
    OBVIOUS
  <2>. QED BY <1>5, <2>1, ReadKeeps
       DEF Access!ReadRoles, Access!ReadRolesFails, AdminOf, Access!AdminOf
<1>6. ASSUME NEW r \in Requests, Access!IssueToken(r) PROVE RightsInv'
  BY <1>6, IssueKeeps
<1>7. ASSUME NEW gone \in SUBSET Requests, Access!Abandon(gone) PROVE RightsInv'
  <2>1. Access!Idle \in Access!Request /\ Access!Idle.at = "idle"
    BY DEF Access!Idle, Access!Request
  <2>2. /\ \A r \in Requests : rq'[r] \in {rq[r], Access!Idle}
        /\ rq' \in [Requests -> Access!Request]
    BY <1>0, <1>7, <2>1 DEF Access!Abandon, Access!TypeOK
  <2>3. Access!TypeOK' /\ Dated'
    BY <1>7, <2>2 DEF Access!Abandon, RightsInv, Access!TypeOK, Dated
  <2>4. Unseen'
    BY <2>1, <2>2 DEF RightsInv, Unseen
  <2>5. Witnessed' /\ Gathered'
    BY <1>7, <2>1, <2>2, StillHeld DEF Access!Abandon, RightsInv, Witnessed, Gathered
  <2>. QED BY <2>3, <2>4, <2>5 DEF RightsInv
<1>. QED BY <1>1, <1>2, <1>3, <1>4, <1>5, <1>6, <1>7 DEF Access!Next, Access!Rights

\* The invariant of the rights, in the composition and for any number of logins.
THEOREM RightsInvariance == Spec => []RightsInv
<1>1. Access!Spec => []RightsInv
  BY RightsInit, RightsStep, PTL DEF Access!Spec
<1>. QED BY <1>1, ImplementsTokens, PTL

\* Roles, tokens and logins keep their shape.
THEOREM RightsShape == Spec => []Access!TypeOK
<1>1. RightsInv => Access!TypeOK
  BY DEF RightsInv
<1>. QED BY <1>1, RightsInvariance, PTL

\* A claim goes back to a time when the role was held, and outlives it by less than
\* the life of a token, or was signed after the loss by a login that had read the
\* roles before (auth_handler.go:179-190, middleware.go:104-118, board_handler.go:61).
THEOREM RightsFade == Spec => []ClaimsFade
<1>1. RightsInv => ClaimsFade
  <2>. SUFFICES ASSUME RightsInv, NEW t \in tokens, NEW c \in Clubs,
                       Valid(t), c \in t.admin, c \notin AdminOf
                PROVE  /\ t.read <= lostAt[c].at
                       /\ LostRecently(c) \/ LostWhileSigning(t, c)
    BY DEF ClaimsFade, Permitted, MayManageBoard
  <2>1. lostAt[c].lost /\ t.read <= lostAt[c].at
    BY DEF RightsInv, Witnessed, HeldAt
  <2>2. now \in Nat /\ t.issued \in Nat /\ lostAt[c].at \in Nat
    BY OfTokens DEF RightsInv
  <2>3. CASE t.issued <= lostAt[c].at
    BY <2>1, <2>2, <2>3, LengthsAreNat, BoundsAreNat DEF Valid, LostRecently
  <2>4. CASE lostAt[c].at < t.issued
    BY <2>1, <2>4 DEF LostWhileSigning
  <2>. QED BY <2>1, <2>2, <2>3, <2>4
<1>. QED BY <1>1, RightsInvariance, PTL

\* A block that has lasted for the life of a token has ended all tokens but those
\* of logins that are older than the block (auth_handler.go:161-165).
THEOREM BlocksOutlast == Spec => []BlockOutlasts
<1>1. RightsInv => BlockOutlasts
  <2>. SUFFICES ASSUME RightsInv, blocked, now >= blockedAt + Life,
                       NEW t \in tokens, Valid(t), ~t.stale
                PROVE  FALSE
    BY DEF BlockOutlasts
  <2>1. t.issued <= blockedAt
    BY DEF RightsInv, Dated
  <2>2. now \in Nat /\ t.issued \in Nat /\ blockedAt \in Nat
    BY OfTokens DEF RightsInv
  <2>. QED BY <2>1, <2>2, LengthsAreNat, BoundsAreNat DEF Valid
<1>. QED BY <1>1, RightsInvariance, PTL

-------------------------------------------------------------------------------
(***************************************************************************)
(* The starts, for any instances, any number of files in each image and    *)
(* any number of faults.  AppliedOnceInOrder is not inductive: it needs to *)
(* know that a file that is about to be committed is the next one.  Where  *)
(* says why: an instance has left behind only files that are recorded      *)
(* (LeftBehind), and the name it has just written is not recorded, nor     *)
(* about to be by another (NameIsNew).  That an image serves rests on      *)
(* LeftBehind too.                                                         *)
(***************************************************************************)

\* The instance reads the state as the composition does.
LEMMA SameStage == \A i, stage : Starts!At(i, stage) <=> At(i, stage)
  BY DEF Starts!At, At

LeftBehind(i) ==
    /\ inst[i].applied \subseteq recorded
    /\ 1 .. inst[i].next - 1 \subseteq recorded
    /\ inst[i].next >= 1

NameIsNew(i) ==
    At(i, "recorded") =>
        /\ inst[i].next \notin recorded
        /\ \A j \in Instances \ {i} :
             ~(At(j, "recorded") /\ inst[j].next = inst[i].next)

Finished(i) == At(i, "serving") => inst[i].next > Knows[i]

Where == \A i \in Instances : LeftBehind(i) /\ NameIsNew(i) /\ Finished(i)

StartsInv == Starts!TypeOK /\ AppliedOnceInOrder /\ Where

\* A step of an instance that changes neither its files nor the database's.
Quiet(i, state) ==
    /\ Starts!Become(i, state)
    /\ UNCHANGED <<recorded, schema>>
    /\ faults' \in 0 .. MaxFaults

LEMMA FaultsStayBounded ==
    ASSUME Starts!TypeOK, Starts!Fault \/ Starts!NoFault
    PROVE  faults' \in 0 .. MaxFaults
  BY BoundsAreNat DEF Starts!TypeOK, Starts!Fault, Starts!NoFault

LEMMA DownIsInstance == Starts!Down \in Starts!Instance
  BY DEF Starts!Down, Starts!Instance, Starts!Stages

\* Whatever an instance goes on with, if it has left only recorded files behind.
LEMMA QuietStep ==
    ASSUME StartsInv, NEW i \in Instances, NEW state \in Starts!Instance, Quiet(i, state),
           state.applied \subseteq recorded,
           1 .. state.next - 1 \subseteq recorded, state.next >= 1,
           state.at = "serving" => state.next > Knows[i],
           state.at = "recorded" => state.next = inst[i].next /\ Starts!NameIsFree(i)
    PROVE  StartsInv'
<1>1. inst' = [inst EXCEPT ![i] = state] /\ recorded' = recorded /\ schema' = schema
  BY DEF Quiet, Starts!Become
<1>2. Starts!TypeOK'
  BY <1>1 DEF StartsInv, Starts!TypeOK, Quiet
<1>3. AppliedOnceInOrder'
  BY <1>1 DEF StartsInv, AppliedOnceInOrder
<1>4. inst'[i] = state /\ \A j \in Instances \ {i} : inst'[j] = inst[j]
  BY <1>1 DEF StartsInv, Starts!TypeOK
<1>5. ASSUME NEW j \in Instances
      PROVE  (LeftBehind(j) /\ NameIsNew(j) /\ Finished(j))'
  <2>1. CASE j = i
    BY <1>1, <1>4, <2>1, SameStage DEF LeftBehind, NameIsNew, Finished, At, Starts!NameIsFree
  <2>2. CASE j # i
    <3>1. LeftBehind(j)' /\ Finished(j)'
      BY <1>1, <1>4, <2>2 DEF StartsInv, Where, LeftBehind, Finished, At
    <3>2. NameIsNew(j)'
      BY <1>1, <1>4, <2>2, SameStage DEF StartsInv, Where, NameIsNew, Starts!NameIsFree, At
    <3>. QED BY <3>1, <3>2
  <2>. QED BY <2>1, <2>2
<1>. QED BY <1>2, <1>3, <1>5 DEF StartsInv, Where

\* The file that is about to be committed is the next one of the database.
LEMMA CommittedIsNext ==
    ASSUME StartsInv, NEW i \in Instances, At(i, "recorded")
    PROVE  inst[i].next = Len(schema) + 1
<1>1. recorded = 1 .. Len(schema) /\ Len(schema) \in Nat /\ inst[i].next \in Nat
  BY DEF StartsInv, AppliedOnceInOrder, Starts!TypeOK, Starts!Instance
<1>2. inst[i].next \notin recorded /\ inst[i].next >= 1
  BY DEF StartsInv, Where, NameIsNew, LeftBehind
<1>3. inst[i].next > Len(schema)
  BY <1>1, <1>2
<1>4. ~(inst[i].next > Len(schema) + 1)
  <2>. SUFFICES ASSUME inst[i].next > Len(schema) + 1 PROVE FALSE
    OBVIOUS
  <2>1. Len(schema) + 1 \in 1 .. inst[i].next - 1
    BY <1>1
  <2>2. Len(schema) + 1 \in recorded
    BY <2>1 DEF StartsInv, Where, LeftBehind
  <2>. QED BY <1>1, <2>2
<1>. QED BY <1>1, <1>3, <1>4

\* A commit, whether its answer arrives (the loop goes on) or not (down).
LEMMA CommittedStep ==
    ASSUME StartsInv, NEW i \in Instances, At(i, "recorded"), Starts!Committed(i),
           NEW state \in {Starts!Advanced(i), Starts!Down}, Starts!Become(i, state),
           faults' \in 0 .. MaxFaults
    PROVE  StartsInv'
<1>1. /\ recorded' = recorded \cup {inst[i].next}
      /\ schema' = Append(schema, inst[i].next)
      /\ inst' = [inst EXCEPT ![i] = state]
  BY DEF Starts!Committed, Starts!Become
<1>2. /\ inst[i] \in Starts!Instance /\ inst[i].next \in Nat /\ inst[i].applied \subseteq Nat
      /\ schema \in Seq(Nat) /\ Len(schema) \in Nat
  BY DEF StartsInv, Starts!TypeOK, Starts!Instance
<1>3. inst[i].next = Len(schema) + 1
  BY CommittedIsNext
<1>4. /\ state \in Starts!Instance /\ state.at \in {"migrating", "down"}
      /\ state.applied \subseteq recorded'
      /\ 1 .. state.next - 1 \subseteq recorded' /\ state.next >= 1
  <2>1. CASE state = Starts!Down
    BY <2>1, DownIsInstance DEF Starts!Down
  <2>2. CASE state = Starts!Advanced(i)
    <3>1. state = [at |-> "migrating", applied |-> inst[i].applied, next |-> inst[i].next + 1]
      BY <2>2 DEF Starts!Advanced, Starts!Loop
    <3>2. LeftBehind(i)
      BY DEF StartsInv, Where
    <3>. QED BY <1>1, <1>2, <3>1, <3>2 DEF LeftBehind, Starts!Instance, Starts!Stages
  <2>. QED BY <2>1, <2>2
<1>5. inst'[i] = state /\ \A j \in Instances \ {i} : inst'[j] = inst[j]
  BY <1>1 DEF StartsInv, Starts!TypeOK
<1>6. Starts!TypeOK'
  <2>1. recorded' \subseteq Nat
    BY <1>1, <1>2 DEF StartsInv, Starts!TypeOK
  <2>3. schema' \in Seq(Nat)
    BY <1>1, <1>2
  <2>2. inst' \in [Instances -> Starts!Instance]
    BY <1>1, <1>4 DEF StartsInv, Starts!TypeOK
  <2>. QED BY <2>1, <2>2, <2>3 DEF Starts!TypeOK
<1>7. AppliedOnceInOrder'
  <2>1. /\ Len(schema') = Len(schema) + 1
        /\ \A k \in 1 .. Len(schema) : schema'[k] = schema[k]
        /\ schema'[Len(schema) + 1] = Len(schema) + 1
        /\ schema' \in Seq(Nat)
    BY <1>1, <1>2, <1>3
  <2>2. \A k \in 1 .. Len(schema) : schema[k] = k
    BY DEF StartsInv, AppliedOnceInOrder
  <2>3. schema' = [k \in 1 .. Len(schema') |-> k]
    <3>1. ASSUME NEW k \in 1 .. Len(schema') PROVE schema'[k] = k
      <4>1. k \in 1 .. Len(schema) \/ k = Len(schema) + 1
        BY <1>2, <2>1
      <4>. QED BY <2>1, <2>2, <4>1
    <3>. QED BY <2>1, <3>1
  <2>4. recorded' = 1 .. Len(schema')
    BY <1>1, <1>2, <1>3, <2>1 DEF StartsInv, AppliedOnceInOrder
  <2>. QED BY <2>3, <2>4 DEF AppliedOnceInOrder
<1>8. ASSUME NEW j \in Instances
      PROVE  (LeftBehind(j) /\ NameIsNew(j) /\ Finished(j))'
  <2>1. CASE j = i
    BY <1>4, <1>5, <2>1 DEF LeftBehind, NameIsNew, Finished, At
  <2>2. CASE j # i
    <3>1. LeftBehind(j)' /\ Finished(j)'
      BY <1>1, <1>5, <2>2 DEF StartsInv, Where, LeftBehind, Finished, At
    <3>2. At(j, "recorded") => inst[j].next # inst[i].next
      BY <2>2 DEF StartsInv, Where, NameIsNew
    <3>3. NameIsNew(j)'
      BY <1>1, <1>4, <1>5, <2>2, <3>2 DEF StartsInv, Where, NameIsNew, At
    <3>. QED BY <3>1, <3>3
  <2>. QED BY <2>1, <2>2
<1>. QED BY <1>6, <1>7, <1>8 DEF StartsInv, Where

LEMMA StartsInit == Starts!Init => StartsInv
<1>. SUFFICES ASSUME Starts!Init PROVE StartsInv
  OBVIOUS
<1>1. Starts!TypeOK
  BY DownIsInstance, BoundsAreNat DEF Starts!Init, Starts!TypeOK
<1>2. AppliedOnceInOrder
  <2>1. Len(schema) = 0
    BY DEF Starts!Init
  <2>. QED BY <2>1 DEF Starts!Init, AppliedOnceInOrder
<1>3. Where
  <2>1. \A i \in Instances : inst[i] = Starts!Down
    BY DEF Starts!Init
  <2>2. Starts!Down.applied = {} /\ Starts!Down.at = "down" /\ Starts!Down.next = 1
    BY DEF Starts!Down
  <2>3. ASSUME NEW i \in Instances
        PROVE  inst[i].next >= 1 /\ 1 .. inst[i].next - 1 = {}
    <3>1. inst[i].next = 1
      BY <2>1, <2>2
    <3>. QED BY <3>1
  <2>. QED BY <2>1, <2>2, <2>3 DEF Where, LeftBehind, NameIsNew, Finished, At
<1>. QED BY <1>1, <1>2, <1>3 DEF StartsInv

LEMMA StartsStep == StartsInv /\ [Starts!Next]_Starts!vars => StartsInv'
<1>. SUFFICES ASSUME StartsInv, [Starts!Next]_Starts!vars PROVE StartsInv'
  OBVIOUS
<1>0. CASE UNCHANGED Starts!vars
  BY <1>0 DEF Starts!vars, StartsInv, Starts!TypeOK, AppliedOnceInOrder, Where,
              LeftBehind, NameIsNew,
              Finished, At
<1>. SUFFICES ASSUME NEW i \in Instances,
                     \/ Starts!Advance(i)
                     \/ Starts!ReadVersionsCut(i) \/ Starts!CommitUnacknowledged(i)
                     \/ Starts!StatementFails(i) \/ Starts!Stop(i)
              PROVE  StartsInv'
  BY <1>0 DEF Starts!Next
<1>1. /\ inst[i] \in Starts!Instance /\ inst[i].applied \subseteq recorded
      /\ inst[i].next \in Nat /\ inst[i].next >= 1 /\ inst[i].applied \subseteq Nat
      /\ 1 .. inst[i].next - 1 \subseteq recorded
      /\ recorded \subseteq Nat
  BY DEF StartsInv, Starts!TypeOK, Where, LeftBehind, Starts!Instance
<1>2. ASSUME NEW stage \in {"starting", "migrating", "executed"}, Starts!Proceed(i, stage),
             Starts!NoFault, UNCHANGED <<recorded, schema>>
      PROVE  StartsInv'
  <2>1. [inst[i] EXCEPT !.at = stage]
          = [at |-> stage, applied |-> inst[i].applied, next |-> inst[i].next]
    BY <1>1 DEF Starts!Instance
  <2>2. [inst[i] EXCEPT !.at = stage] \in Starts!Instance
    BY <1>1, <2>1 DEF Starts!Instance, Starts!Stages
  <2>3. Quiet(i, [inst[i] EXCEPT !.at = stage])
    BY <1>2, FaultsStayBounded DEF Quiet, Starts!Proceed, StartsInv
  <2>. QED BY <1>1, <2>1, <2>2, <2>3, QuietStep
<1>3. ASSUME Starts!Become(i, Starts!Down), Starts!Fault \/ Starts!NoFault,
             UNCHANGED <<recorded, schema>>
      PROVE  StartsInv'
  <2>1. Quiet(i, Starts!Down)
    BY <1>3, FaultsStayBounded DEF Quiet, StartsInv
  <2>2. /\ Starts!Down.applied \subseteq recorded /\ 1 .. Starts!Down.next - 1 \subseteq recorded
        /\ Starts!Down.next >= 1 /\ Starts!Down.at = "down"
    BY DEF Starts!Down
  <2>. QED BY <2>1, <2>2, QuietStep, DownIsInstance
<1>4. ASSUME NEW part \in SUBSET recorded, Starts!Become(i, Starts!Loop(part, 1)),
             Starts!Fault \/ Starts!NoFault,
             UNCHANGED <<recorded, schema>>
      PROVE  StartsInv'
  <2>1. Starts!Loop(part, 1) \in Starts!Instance
    BY <1>1 DEF Starts!Loop, Starts!Instance, Starts!Stages
  <2>2. Quiet(i, Starts!Loop(part, 1))
    BY <1>4, FaultsStayBounded DEF Quiet, StartsInv
  <2>3. /\ Starts!Loop(part, 1).applied = part /\ Starts!Loop(part, 1).at = "migrating"
        /\ 1 .. Starts!Loop(part, 1).next - 1 = {} /\ Starts!Loop(part, 1).next >= 1
    BY DEF Starts!Loop
  <2>. QED BY <2>1, <2>2, <2>3, QuietStep
<1>5. CASE Starts!Launch(i)
  BY <1>2, <1>5 DEF Starts!Launch
<1>6. CASE Starts!ReadVersions(i)
  BY <1>4, <1>6 DEF Starts!ReadVersions
<1>7. CASE Starts!ReadVersionsCut(i)
  BY <1>4, <1>7 DEF Starts!ReadVersionsCut
<1>8. CASE Starts!Skip(i)
  <2>1. Starts!Advanced(i) =
          [at |-> "migrating", applied |-> inst[i].applied, next |-> inst[i].next + 1]
    BY DEF Starts!Advanced, Starts!Loop
  <2>2. Starts!Advanced(i) \in Starts!Instance
    BY <1>1, <2>1 DEF Starts!Instance, Starts!Stages
  <2>3. Quiet(i, Starts!Advanced(i))
    BY <1>8, FaultsStayBounded DEF Quiet, Starts!Skip, StartsInv
  <2>4. inst[i].next \in recorded
    BY <1>1, <1>8 DEF Starts!Skip
  <2>5. 1 .. Starts!Advanced(i).next - 1 \subseteq recorded
    BY <1>1, <2>1, <2>4
  <2>. QED BY <1>1, <2>1, <2>2, <2>3, <2>5, QuietStep
<1>9. CASE Starts!Execute(i)
  BY <1>2, <1>9 DEF Starts!Execute
<1>10. CASE Starts!Record(i)
  <2>. DEFINE state == [inst[i] EXCEPT !.at = "recorded"]
  <2>1. state = [at |-> "recorded", applied |-> inst[i].applied, next |-> inst[i].next]
    BY <1>1 DEF Starts!Instance
  <2>2. state \in Starts!Instance
    BY <1>1, <2>1 DEF Starts!Instance, Starts!Stages
  <2>3. Quiet(i, state)
    BY <1>10, FaultsStayBounded DEF Quiet, Starts!Record, Starts!Proceed, StartsInv
  <2>4. Starts!NameIsFree(i)
    BY <1>10 DEF Starts!Record
  <2>. HIDE DEF state
  <2>. QED BY <1>1, <2>1, <2>2, <2>3, <2>4, QuietStep
<1>11. CASE Starts!RecordRefused(i)
  BY <1>3, <1>11 DEF Starts!RecordRefused, Starts!Fatal
<1>12. CASE Starts!Commit(i)
  BY <1>12, CommittedStep, FaultsStayBounded, SameStage DEF Starts!Commit, StartsInv
<1>13. CASE Starts!Serve(i)
  <2>. DEFINE state == [inst[i] EXCEPT !.at = "serving"]
  <2>1. state = [at |-> "serving", applied |-> inst[i].applied, next |-> inst[i].next]
    BY <1>1 DEF Starts!Instance
  <2>2. state \in Starts!Instance
    BY <1>1, <2>1 DEF Starts!Instance, Starts!Stages
  <2>3. Quiet(i, state)
    BY <1>13, FaultsStayBounded DEF Quiet, Starts!Serve, Starts!Proceed, StartsInv
  <2>4. inst[i].next > Knows[i]
    BY <1>13 DEF Starts!Serve
  <2>. HIDE DEF state
  <2>. QED BY <1>1, <2>1, <2>2, <2>3, <2>4, QuietStep
<1>14. CASE Starts!CommitUnacknowledged(i)
  BY <1>14, CommittedStep, FaultsStayBounded, SameStage
     DEF Starts!CommitUnacknowledged, Starts!Fatal, StartsInv
<1>15. CASE Starts!StatementFails(i)
  BY <1>3, <1>15 DEF Starts!StatementFails, Starts!Fatal
<1>16. CASE Starts!Stop(i)
  BY <1>3, <1>16 DEF Starts!Stop
<1>. QED
  BY <1>5, <1>6, <1>7, <1>8, <1>9, <1>10, <1>11, <1>12, <1>13, <1>14, <1>15, <1>16
     DEF Starts!Advance

\* The invariant of the starts, in the composition.
THEOREM StartsInvariance == Spec => []StartsInv
<1>1. Starts!Spec => []StartsInv
  BY StartsInit, StartsStep, PTL DEF Starts!Spec
<1>. QED BY <1>1, ImplementsMigrations, PTL

\* The state of the database and of the instances keeps its shape.
THEOREM StartsShape == Spec => []Starts!TypeOK
<1>1. StartsInv => Starts!TypeOK
  BY DEF StartsInv
<1>. QED BY <1>1, StartsInvariance, PTL

\* Every file takes effect exactly once and in the order of the names, in
\* whatever order the instances start, crash and read (migrate.go:55-92).
THEOREM MigratedOnceInOrder == Spec => []AppliedOnceInOrder
<1>1. StartsInv => AppliedOnceInOrder
  BY DEF StartsInv
<1>. QED BY <1>1, StartsInvariance, PTL

\* Who serves has all the files of its image in the database (main.go:44-76).
THEOREM MigratedBeforeServing == Spec => []ServesMigrated
<1>1. StartsInv => ServesMigrated
  <2>. SUFFICES ASSUME StartsInv, NEW i \in Instances, At(i, "serving")
                PROVE  1 .. Knows[i] \subseteq recorded
    BY DEF ServesMigrated
  <2>1. /\ inst[i].next > Knows[i] /\ 1 .. inst[i].next - 1 \subseteq recorded
        /\ inst[i].next \in Nat /\ Knows[i] \in Nat
    BY KnowsFiles DEF StartsInv, Where, Finished, LeftBehind, Starts!TypeOK, Starts!Instance
  <2>. QED BY <2>1
<1>. QED BY <1>1, StartsInvariance, PTL

-------------------------------------------------------------------------------
(***************************************************************************)
(* The limiter, for any processes and addresses, any limit and any length  *)
(* of a window.  Both properties speak of admissions that are far apart in *)
(* the history, so neither is inductive.  The invariant groups the         *)
(* admissions by the window they were counted in: windows are more than    *)
(* Window apart (Apart), none holds more than Limit (Few), and the         *)
(* admissions in the window that is open are the last ones, as many as its *)
(* record counts up to the limit (Current).  Then two times Limit + 1      *)
(* admissions touch three windows, and the middle one with the gap after   *)
(* it takes longer than Window.                                            *)
(***************************************************************************)

\* The instance reads the records as the composition does.
LEMMA SameRecord ==
    /\ Limiter!Record = Record /\ Limiter!NoRecord = NoRecord
    /\ \A p, a : /\ Limiter!Open(p, a) <=> Open(p, a)
                 /\ Limiter!Counted(p, a) = Counted(p, a)
                 /\ Limiter!Allowed(p, a) <=> Allowed(p, a)
  BY DEF Limiter!Record, Record, Limiter!NoRecord, NoRecord, Limiter!Open, Open,
         Limiter!Known, Known, Limiter!Over, Over, Limiter!Counted, Counted,
         Limiter!Allowed, Allowed

IsOpen(rec, t) == rec # NoRecord /\ ~(t - rec.start > Window)

Used(rec) == IF rec.count <= Limit THEN rec.count ELSE Limit

Inside(T, t) ==
    \A k \in 1 .. Len(T) :
        /\ T[k].start <= T[k].at
        /\ T[k].at <= T[k].start + Window
        /\ T[k].at <= t

Apart(T) ==
    \A j, k \in 1 .. Len(T) :
        j < k => T[j].start = T[k].start \/ T[j].start + Window < T[k].start

Few(T) == \A k \in 1 .. Len(T) : k + Limit <= Len(T) => T[k].start # T[k + Limit].start

Current(rec, T, t) ==
    IF IsOpen(rec, t)
    THEN /\ rec.start <= t
         /\ Used(rec) <= Len(T)
         /\ \A k \in 1 .. Len(T) : T[k].start = rec.start <=> k > Len(T) - Used(rec)
    ELSE \A k \in 1 .. Len(T) : T[k].start + Window < t

Kept(rec, T, t) == Inside(T, t) /\ Apart(T) /\ Few(T) /\ Current(rec, T, t)

KeptInv == \A p \in Instances, a \in Addresses : Kept(records[p][a], admitted[p][a], now)

LimiterInv == Limiter!TypeOK /\ KeptInv

LEMMA NoRecordIsNone == NoRecord \notin Record
  BY DEF NoRecord, Record

LEMMA TimesAreNat ==
    ASSUME NEW T \in Seq(Limiter!Admission)
    PROVE  /\ Len(T) \in Nat
           /\ \A k \in 1 .. Len(T) : T[k].at \in Nat /\ T[k].start \in Nat
<1>1. Len(T) \in Nat /\ \A k \in 1 .. Len(T) : T[k] \in Limiter!Admission
  OBVIOUS
<1>. QED BY <1>1 DEF Limiter!Admission

\* One more admission, seen from the sequence.
LEMMA OneMore ==
    ASSUME NEW T \in Seq(Limiter!Admission), NEW entry \in Limiter!Admission
    PROVE  /\ Append(T, entry) \in Seq(Limiter!Admission)
           /\ Len(Append(T, entry)) = Len(T) + 1 /\ Len(T) \in Nat
           /\ \A k \in 1 .. Len(T) : Append(T, entry)[k] = T[k] /\ T[k] \in Limiter!Admission
           /\ Append(T, entry)[Len(T) + 1] = entry
  OBVIOUS

\* The first request of a window.
LEMMA FirstKeeps ==
    ASSUME NEW rec \in Record \cup {NoRecord}, NEW T \in Seq(Limiter!Admission), NEW t \in Nat,
           Kept(rec, T, t), ~IsOpen(rec, t)
    PROVE  Kept([count |-> 1, start |-> t], Append(T, [at |-> t, start |-> t]), t)
<1>. DEFINE entry == [at |-> t, start |-> t]
            new == [count |-> 1, start |-> t]
            U == Append(T, entry)
<1>0. entry \in Limiter!Admission /\ entry.at = t /\ entry.start = t
  BY DEF Limiter!Admission
<1>1. /\ Len(U) = Len(T) + 1 /\ Len(T) \in Nat
      /\ \A k \in 1 .. Len(T) : U[k] = T[k] /\ T[k].at \in Nat /\ T[k].start \in Nat
      /\ U[Len(T) + 1] = entry
  BY <1>0, OneMore DEF Limiter!Admission
<1>2. \A k \in 1 .. Len(U) : k \in 1 .. Len(T) \/ k = Len(T) + 1
  BY <1>1
<1>3. \A k \in 1 .. Len(T) : T[k].start + Window < t
  BY DEF Kept, Current
<1>4. new.count = 1 /\ new.start = t /\ new # NoRecord /\ Used(new) = 1
  <2>1. new \in Record
    BY DEF Record
  <2>. QED BY <2>1, LimitPositive, NoRecordIsNone DEF Used
<1>. HIDE DEF entry, new, U
<1>5. Inside(U, t)
  BY <1>0, <1>1, <1>2, LengthsAreNat DEF Kept, Inside
<1>6. Apart(U)
  <2>. SUFFICES ASSUME NEW j \in 1 .. Len(U), NEW k \in 1 .. Len(U), j < k
                PROVE  U[j].start = U[k].start \/ U[j].start + Window < U[k].start
    BY DEF Apart
  <2>1. j \in 1 .. Len(T)
    BY <1>1
  <2>. QED BY <1>0, <1>1, <1>2, <1>3, <2>1 DEF Kept, Apart
<1>7. Few(U)
  <2>. SUFFICES ASSUME NEW k \in 1 .. Len(U), k + Limit <= Len(U)
                PROVE  U[k].start # U[k + Limit].start
    BY DEF Few
  <2>1. k \in 1 .. Len(T) /\ k + Limit \in 1 .. Len(U)
    BY <1>1, LimitPositive
  <2>2. CASE k + Limit \in 1 .. Len(T)
    BY <1>1, <2>1, <2>2 DEF Kept, Few
  <2>3. CASE k + Limit = Len(T) + 1
    BY <1>0, <1>1, <1>3, <2>1, <2>3, LengthsAreNat
  <2>. QED BY <1>2, <2>1, <2>2, <2>3
<1>8. Current(new, U, t)
  <2>1. IsOpen(new, t)
    BY <1>4, LengthsAreNat DEF IsOpen
  <2>2. \A k \in 1 .. Len(U) : U[k].start = new.start <=> k > Len(U) - Used(new)
    <3>. SUFFICES ASSUME NEW k \in 1 .. Len(U)
                  PROVE  U[k].start = t <=> k > Len(T)
      BY <1>1, <1>4
    <3>1. CASE k \in 1 .. Len(T)
      BY <1>1, <1>3, <3>1, LengthsAreNat
    <3>2. CASE k = Len(T) + 1
      BY <1>0, <1>1, <3>2
    <3>. QED BY <1>2, <3>1, <3>2
  <2>. QED BY <1>1, <1>4, <2>1, <2>2 DEF Current
<1>. QED BY <1>5, <1>6, <1>7, <1>8 DEF Kept, entry, new, U

\* Another request in a window that is not exhausted.
LEMMA NextKeeps ==
    ASSUME NEW rec \in Record, NEW T \in Seq(Limiter!Admission), NEW t \in Nat,
           Kept(rec, T, t), IsOpen(rec, t), rec.count + 1 <= Limit
    PROVE  Kept([count |-> rec.count + 1, start |-> rec.start],
                Append(T, [at |-> t, start |-> rec.start]), t)
<1>. DEFINE entry == [at |-> t, start |-> rec.start]
            new == [count |-> rec.count + 1, start |-> rec.start]
            U == Append(T, entry)
<1>0. /\ entry \in Limiter!Admission /\ entry.at = t /\ entry.start = rec.start
      /\ rec.start \in Nat /\ rec.count \in Nat \ {0}
  BY DEF Limiter!Admission, Record
<1>1. /\ Len(U) = Len(T) + 1 /\ Len(T) \in Nat
      /\ \A k \in 1 .. Len(T) : U[k] = T[k] /\ T[k].at \in Nat /\ T[k].start \in Nat
      /\ U[Len(T) + 1] = entry
  BY <1>0, OneMore DEF Limiter!Admission
<1>2. \A k \in 1 .. Len(U) : k \in 1 .. Len(T) \/ k = Len(T) + 1
  BY <1>1
<1>3. /\ rec.start <= t /\ t <= rec.start + Window
      /\ rec.count <= Len(T)
      /\ \A k \in 1 .. Len(T) : T[k].start = rec.start <=> k > Len(T) - rec.count
  <2>1. Used(rec) = rec.count
    BY <1>0, LimitPositive DEF Used
  <2>. QED BY <1>0, <2>1, LengthsAreNat DEF Kept, Current, IsOpen
<1>4. /\ new.count = rec.count + 1 /\ new.start = rec.start /\ new # NoRecord
      /\ Used(new) = rec.count + 1
  <2>1. new \in Record
    BY <1>0 DEF Record
  <2>. QED BY <1>0, <2>1, LimitPositive, NoRecordIsNone DEF Used
<1>. HIDE DEF entry, new, U
<1>5. Inside(U, t)
  BY <1>0, <1>1, <1>2, <1>3 DEF Kept, Inside
<1>6. Apart(U)
  <2>. SUFFICES ASSUME NEW j \in 1 .. Len(U), NEW k \in 1 .. Len(U), j < k
                PROVE  U[j].start = U[k].start \/ U[j].start + Window < U[k].start
    BY DEF Apart
  <2>1. j \in 1 .. Len(T)
    BY <1>1
  <2>2. CASE k \in 1 .. Len(T)
    BY <1>1, <2>1, <2>2 DEF Kept, Apart
  <2>3. CASE k = Len(T) + 1
    <3>1. Len(T) \in 1 .. Len(T) /\ T[Len(T)].start = rec.start
      BY <1>0, <1>1, <1>3
    <3>2. CASE j = Len(T)
      BY <1>0, <1>1, <2>3, <3>1, <3>2
    <3>3. CASE j < Len(T)
      BY <1>0, <1>1, <2>1, <2>3, <3>1, <3>3 DEF Kept, Apart
    <3>. QED BY <1>1, <2>1, <3>2, <3>3
  <2>. QED BY <1>2, <2>2, <2>3
<1>7. Few(U)
  <2>. SUFFICES ASSUME NEW k \in 1 .. Len(U), k + Limit <= Len(U)
                PROVE  U[k].start # U[k + Limit].start
    BY DEF Few
  <2>1. k \in 1 .. Len(T) /\ k + Limit \in 1 .. Len(U)
    BY <1>1, LimitPositive
  <2>2. CASE k + Limit \in 1 .. Len(T)
    BY <1>1, <2>1, <2>2 DEF Kept, Few
  <2>3. CASE k + Limit = Len(T) + 1
    <3>1. ~(k > Len(T) - rec.count)
      BY <1>0, <1>1, <2>1, <2>3, LimitPositive
    <3>. QED BY <1>0, <1>1, <1>3, <2>1, <2>3, <3>1
  <2>. QED BY <1>2, <2>1, <2>2, <2>3
<1>8. Current(new, U, t)
  <2>1. IsOpen(new, t)
    BY <1>0, <1>3, <1>4, LengthsAreNat DEF IsOpen
  <2>2. \A k \in 1 .. Len(U) : U[k].start = new.start <=> k > Len(U) - Used(new)
    <3>. SUFFICES ASSUME NEW k \in 1 .. Len(U)
                  PROVE  U[k].start = rec.start <=> k > Len(T) - rec.count
      BY <1>0, <1>1, <1>4
    <3>1. CASE k \in 1 .. Len(T)
      BY <1>1, <1>3, <3>1
    <3>2. CASE k = Len(T) + 1
      BY <1>0, <1>1, <3>2
    <3>. QED BY <1>2, <3>1, <3>2
  <2>. QED BY <1>0, <1>1, <1>3, <1>4, <2>1, <2>2 DEF Current
<1>. QED BY <1>5, <1>6, <1>7, <1>8 DEF Kept, entry, new, U

\* A refused request is counted and changes nothing else.
LEMMA RefusedKeeps ==
    ASSUME NEW rec \in Record, NEW T \in Seq(Limiter!Admission), NEW t \in Nat,
           Kept(rec, T, t), IsOpen(rec, t), ~(rec.count + 1 <= Limit)
    PROVE  Kept([count |-> rec.count + 1, start |-> rec.start], T, t)
<1>. DEFINE new == [count |-> rec.count + 1, start |-> rec.start]
<1>0. rec.start \in Nat /\ rec.count \in Nat \ {0}
  BY DEF Record
<1>1. new # NoRecord /\ new.start = rec.start /\ Used(new) = Used(rec)
  <2>1. new \in Record
    BY <1>0 DEF Record
  <2>. QED BY <1>0, <2>1, LimitPositive, NoRecordIsNone DEF Used
<1>. HIDE DEF new
<1>2. IsOpen(new, t)
  BY <1>1 DEF IsOpen
<1>3. Current(new, T, t)
  BY <1>1, <1>2 DEF Kept, Current
<1>. QED BY <1>3 DEF Kept, new

\* A window that is over may be deleted, and a new map goes with a new history.
LEMMA DeletedKeeps ==
    ASSUME NEW rec \in Record \cup {NoRecord}, NEW T \in Seq(Limiter!Admission), NEW t \in Nat
    PROVE  /\ Kept(rec, T, t) /\ ~IsOpen(rec, t) => Kept(NoRecord, T, t)
           /\ Kept(NoRecord, <<>>, t)
  BY DEF Kept, Current, IsOpen, Inside, Apart, Few

\* Time goes on: at most the open window ends, and with it all its admissions.
LEMMA TickKeeps ==
    ASSUME NEW rec \in Record \cup {NoRecord}, NEW T \in Seq(Limiter!Admission), NEW t \in Nat,
           Kept(rec, T, t)
    PROVE  Kept(rec, T, t + 1)
<1>1. /\ Len(T) \in Nat
      /\ \A k \in 1 .. Len(T) : T[k].at \in Nat /\ T[k].start \in Nat
  BY TimesAreNat
<1>2. Inside(T, t + 1)
  BY <1>1 DEF Kept, Inside
<1>3. Current(rec, T, t + 1)
  <2>1. CASE ~IsOpen(rec, t)
    <3>1. ~IsOpen(rec, t + 1)
      BY <2>1, LengthsAreNat DEF IsOpen, Record
    <3>. QED BY <1>1, <2>1, <3>1, LengthsAreNat DEF Kept, Current
  <2>2. CASE IsOpen(rec, t)
    <3>1. rec \in Record /\ rec.start \in Nat /\ rec.count \in Nat \ {0}
      BY <2>2 DEF IsOpen, Record
    <3>2. CASE IsOpen(rec, t + 1)
      BY <2>2, <3>1, <3>2 DEF Kept, Current
    <3>3. CASE ~IsOpen(rec, t + 1)
      <4>1. rec.start + Window < t + 1
        BY <2>2, <3>1, <3>3, LengthsAreNat DEF IsOpen
      <4>2. /\ Used(rec) \in 1 .. Len(T)
            /\ \A k \in 1 .. Len(T) : T[k].start = rec.start <=> k > Len(T) - Used(rec)
        BY <1>1, <2>2, <3>1, LimitPositive DEF Kept, Current, Used
      <4>3. Len(T) \in 1 .. Len(T) /\ T[Len(T)].start = rec.start
        BY <1>1, <4>2
      <4>4. ASSUME NEW k \in 1 .. Len(T) PROVE T[k].start + Window < t + 1
        <5>1. CASE k = Len(T)
          BY <4>1, <4>3, <5>1
        <5>2. CASE k < Len(T)
          <6>1. T[k].start = rec.start \/ T[k].start + Window < rec.start
            BY <1>1, <4>3, <5>2 DEF Kept, Apart
          <6>2. T[k].start \in Nat
            BY <1>1
          <6>. QED BY <3>1, <4>1, <6>1, <6>2, LengthsAreNat
        <5>. QED BY <1>1, <5>1, <5>2
      <4>. QED BY <3>3, <4>4 DEF Current
    <3>. QED BY <3>2, <3>3
  <2>. QED BY <2>1, <2>2
<1>. QED BY <1>2, <1>3 DEF Kept

\* The state of one address at one process.
LEMMA OfKey ==
    ASSUME Limiter!TypeOK, NEW p \in Instances, NEW a \in Addresses
    PROVE  /\ records[p][a] \in Record \cup {NoRecord}
           /\ admitted[p][a] \in Seq(Limiter!Admission)
           /\ now \in Nat
           /\ Open(p, a) <=> IsOpen(records[p][a], now)
           /\ Open(p, a) => records[p][a] \in Record
  BY LengthsAreNat, BoundsAreNat, SameRecord DEF Limiter!TypeOK, Open, Known, Over, IsOpen

LEMMA LimiterInit == Limiter!Init => LimiterInv
<1>. SUFFICES ASSUME Limiter!Init PROVE LimiterInv
  OBVIOUS
<1>1. Limiter!TypeOK
  BY LengthsAreNat, BoundsAreNat DEF Limiter!Init, Limiter!TypeOK
<1>2. ASSUME NEW p \in Instances, NEW a \in Addresses
      PROVE  Kept(records[p][a], admitted[p][a], now)
  <2>1. records[p][a] = NoRecord /\ admitted[p][a] = <<>> /\ now \in Nat
    BY SameRecord DEF Limiter!Init
  <2>2. <<>> \in Seq(Limiter!Admission)
    OBVIOUS
  <2>. QED BY <2>1, <2>2, DeletedKeeps
<1>. QED BY <1>1, <1>2 DEF LimiterInv, KeptInv

\* A request of one address at one process touches nobody else's record.
LEMMA KeyStep ==
    ASSUME LimiterInv, NEW p \in Instances, NEW a \in Addresses,
           NEW rec \in Record, NEW T \in Seq(Limiter!Admission), Kept(rec, T, now),
           records' = [records EXCEPT ![p][a] = rec],
           admitted' = [admitted EXCEPT ![p][a] = T],
           UNCHANGED now
    PROVE  LimiterInv'
<1>1. Limiter!TypeOK'
  BY SameRecord DEF LimiterInv, Limiter!TypeOK
<1>2. ASSUME NEW q \in Instances, NEW b \in Addresses
      PROVE  Kept(records'[q][b], admitted'[q][b], now')
  <2>1. CASE q = p /\ b = a
    <3>1. records'[q][b] = rec /\ admitted'[q][b] = T
      BY <2>1 DEF LimiterInv, Limiter!TypeOK
    <3>. QED BY <3>1
  <2>2. CASE ~(q = p /\ b = a)
    <3>1. records'[q][b] = records[q][b] /\ admitted'[q][b] = admitted[q][b]
      BY <2>2 DEF LimiterInv, Limiter!TypeOK
    <3>. QED BY <3>1 DEF LimiterInv, KeptInv
  <2>. QED BY <2>1, <2>2
<1>. QED BY <1>1, <1>2 DEF LimiterInv, KeptInv

LEMMA LimiterStep == LimiterInv /\ [Limiter!Next]_Limiter!vars => LimiterInv'
<1>. SUFFICES ASSUME LimiterInv, [Limiter!Next]_Limiter!vars PROVE LimiterInv'
  OBVIOUS
<1>0. CASE UNCHANGED Limiter!vars
  BY <1>0 DEF Limiter!vars, LimiterInv, Limiter!TypeOK, KeptInv
<1>1. CASE Limiter!Tick
  <2>1. Limiter!TypeOK'
    BY <1>1, LengthsAreNat, BoundsAreNat DEF Limiter!Tick, LimiterInv, Limiter!TypeOK
  <2>2. KeptInv'
    BY <1>1, OfKey, TickKeeps DEF Limiter!Tick, LimiterInv, KeptInv
  <2>. QED BY <2>1, <2>2 DEF LimiterInv
<1>. SUFFICES ASSUME NEW p \in Instances,
                     \/ Limiter!Cleanup(p) \/ Limiter!Forget(p)
                     \/ \E a \in Addresses : Limiter!Admit(p, a) \/ Limiter!Refuse(p, a)
              PROVE  LimiterInv'
  BY <1>0, <1>1 DEF Limiter!Next
<1>2. CASE Limiter!Cleanup(p)
  <2>1. ASSUME NEW q \in Instances, NEW b \in Addresses
        PROVE  /\ records'[q][b] \in {records[q][b], NoRecord}
               /\ records'[q][b] # records[q][b] => ~Open(q, b)
               /\ admitted'[q][b] = admitted[q][b]
    BY <1>2, SameRecord DEF Limiter!Cleanup, LimiterInv, Limiter!TypeOK
  <2>2. Limiter!TypeOK'
    BY <1>2 DEF Limiter!Cleanup, LimiterInv, Limiter!TypeOK
  <2>3. KeptInv'
    <3>. SUFFICES ASSUME NEW q \in Instances, NEW b \in Addresses
                  PROVE  Kept(records'[q][b], admitted'[q][b], now')
      BY DEF KeptInv
    <3>1. Kept(records[q][b], admitted[q][b], now) /\ now' = now
      BY <1>2 DEF Limiter!Cleanup, LimiterInv, KeptInv
    <3>2. CASE records'[q][b] = records[q][b]
      BY <2>1, <3>1, <3>2
    <3>3. CASE records'[q][b] # records[q][b]
      BY <2>1, <3>1, <3>3, OfKey, DeletedKeeps DEF LimiterInv
    <3>. QED BY <3>2, <3>3
  <2>. QED BY <2>2, <2>3 DEF LimiterInv
<1>3. CASE Limiter!Forget(p)
  <2>1. Limiter!TypeOK'
    BY <1>3 DEF Limiter!Forget, LimiterInv, Limiter!TypeOK
  <2>2. KeptInv'
    <3>. SUFFICES ASSUME NEW q \in Instances, NEW b \in Addresses
                  PROVE  Kept(records'[q][b], admitted'[q][b], now')
      BY DEF KeptInv
    <3>1. now' = now /\ now \in Nat
      BY <1>3, OfKey DEF Limiter!Forget, LimiterInv
    <3>2. CASE q = p
      <4>1. records'[q][b] = NoRecord /\ admitted'[q][b] = <<>>
        BY <1>3, <3>2, SameRecord DEF Limiter!Forget, LimiterInv, Limiter!TypeOK
      <4>. QED BY <3>1, <4>1, DeletedKeeps, OfKey DEF LimiterInv
    <3>3. CASE q # p
      <4>1. records'[q][b] = records[q][b] /\ admitted'[q][b] = admitted[q][b]
        BY <1>3, <3>3 DEF Limiter!Forget, LimiterInv, Limiter!TypeOK
      <4>. QED BY <3>1, <4>1 DEF LimiterInv, KeptInv
    <3>. QED BY <3>2, <3>3
  <2>. QED BY <2>1, <2>2 DEF LimiterInv
<1>. SUFFICES ASSUME NEW a \in Addresses, Limiter!Admit(p, a) \/ Limiter!Refuse(p, a)
              PROVE  LimiterInv'
  BY <1>2, <1>3
<1>. DEFINE rec == records[p][a]  T == admitted[p][a]
<1>4. /\ rec \in Record \cup {NoRecord} /\ T \in Seq(Limiter!Admission) /\ now \in Nat
      /\ Open(p, a) <=> IsOpen(rec, now)
      /\ Open(p, a) => rec \in Record
      /\ Kept(rec, T, now)
  BY OfKey DEF LimiterInv, KeptInv
<1>5. ASSUME Open(p, a)
      PROVE  /\ Counted(p, a) = [count |-> rec.count + 1, start |-> rec.start]
             /\ Counted(p, a) \in Record
             /\ Counted(p, a).count = rec.count + 1
             /\ rec.start \in Nat
  BY <1>4, <1>5 DEF Counted, Record
<1>6. CASE Limiter!FirstOfWindow(p, a)
  <2>1. [count |-> 1, start |-> now] \in Record /\ [at |-> now, start |-> now] \in Limiter!Admission
    BY <1>4 DEF Record, Limiter!Admission
  <2>2. Append(T, [at |-> now, start |-> now]) \in Seq(Limiter!Admission)
    BY <1>4, <2>1
  <2>3. Kept([count |-> 1, start |-> now], Append(T, [at |-> now, start |-> now]), now)
    BY <1>4, <1>6, FirstKeeps, SameRecord DEF Limiter!FirstOfWindow
  <2>. QED BY <1>6, <2>1, <2>2, <2>3, KeyStep
       DEF Limiter!FirstOfWindow, Limiter!SetRecord, Limiter!LetIn
<1>7. CASE Limiter!NextOfWindow(p, a)
  <2>1. Open(p, a) /\ rec.count + 1 <= Limit
    BY <1>5, <1>7, SameRecord DEF Limiter!NextOfWindow, Allowed
  <2>2. Append(T, [at |-> now, start |-> rec.start]) \in Seq(Limiter!Admission)
    BY <1>4, <1>5, <2>1 DEF Limiter!Admission
  <2>3. Kept(Counted(p, a), Append(T, [at |-> now, start |-> rec.start]), now)
    BY <1>4, <1>5, <2>1, NextKeeps
  <2>. QED BY <1>5, <1>7, <2>1, <2>2, <2>3, KeyStep, SameRecord
       DEF Limiter!NextOfWindow, Limiter!SetRecord, Limiter!LetIn
<1>8. CASE Limiter!Refuse(p, a)
  <2>1. Open(p, a) /\ ~(rec.count + 1 <= Limit)
    BY <1>5, <1>8, SameRecord DEF Limiter!Refuse, Allowed
  <2>2. Kept(Counted(p, a), T, now)
    BY <1>4, <1>5, <2>1, RefusedKeeps
  <2>3. admitted' = [admitted EXCEPT ![p][a] = T]
    BY <1>8 DEF Limiter!Refuse, LimiterInv, Limiter!TypeOK
  <2>4. /\ records' = [records EXCEPT ![p][a] = Counted(p, a)] /\ now' = now
        /\ Counted(p, a) \in Record
    BY <1>5, <1>8, <2>1, SameRecord DEF Limiter!Refuse, Limiter!SetRecord
  <2>. QED BY <1>4, <2>2, <2>3, <2>4, KeyStep
<1>. QED BY <1>6, <1>7, <1>8 DEF Limiter!Admit

\* The invariant of the limiter, in the composition.
THEOREM LimiterInvariance == Spec => []LimiterInv
<1>1. Limiter!Spec => []LimiterInv
  BY LimiterInit, LimiterStep, PTL DEF Limiter!Spec
<1>. QED BY <1>1, ImplementsRateLimiter, PTL

\* The clock, the maps and the history keep their shape.
THEOREM LimiterShape == Spec => []Limiter!TypeOK
<1>1. LimiterInv => Limiter!TypeOK
  BY DEF LimiterInv
<1>. QED BY <1>1, LimiterInvariance, PTL

\* No address is let in by a process more often than twice the limit within the
\* length of a window, however its requests fall (ratelimit.go:54-66).
THEOREM AtMostTwice == Spec => []AtMostTwoWindows
<1>1. LimiterInv => AtMostTwoWindows
  <2>. SUFFICES ASSUME LimiterInv, NEW p \in Instances, NEW a \in Addresses,
                       NEW k \in 1 .. Len(admitted[p][a]) - 2 * Limit
                PROVE  admitted[p][a][k + 2 * Limit].at - admitted[p][a][k].at > Window
    BY DEF AtMostTwoWindows
  <2>. DEFINE T == admitted[p][a]
  <2>1. /\ T \in Seq(Limiter!Admission) /\ Len(T) \in Nat
        /\ \A j \in 1 .. Len(T) : T[j].at \in Nat /\ T[j].start \in Nat
        /\ Inside(T, now) /\ Apart(T) /\ Few(T)
    <3>1. T \in Seq(Limiter!Admission)
      BY OfKey DEF LimiterInv
    <3>. QED BY <3>1, TimesAreNat DEF LimiterInv, KeptInv, Kept
  <2>. HIDE DEF T
  <2>2. /\ k \in 1 .. Len(T) /\ k + Limit \in 1 .. Len(T)
        /\ k + 2 * Limit \in 1 .. Len(T) /\ (k + Limit) + Limit = k + 2 * Limit
        /\ k < k + Limit /\ k + Limit < k + 2 * Limit
    BY <2>1, LimitPositive DEF T
  <2>3. T[k].start + Window < T[k + Limit].start
    BY <2>1, <2>2 DEF Few, Apart
  <2>4. T[k + Limit].start + Window < T[k + 2 * Limit].start
    BY <2>1, <2>2 DEF Few, Apart
  <2>5. T[k].at <= T[k].start + Window /\ T[k + 2 * Limit].start <= T[k + 2 * Limit].at
    BY <2>1, <2>2 DEF Inside
  <2>6. /\ T[k].at \in Nat /\ T[k].start \in Nat /\ T[k + Limit].start \in Nat
        /\ T[k + 2 * Limit].start \in Nat /\ T[k + 2 * Limit].at \in Nat
    BY <2>1, <2>2
  <2>7. T[k + 2 * Limit].at - T[k].at > Window
    <3>1. ASSUME NEW a1 \in Nat, NEW s1 \in Nat, NEW s2 \in Nat, NEW s3 \in Nat, NEW a3 \in Nat,
                 a1 <= s1 + Window, s1 + Window < s2, s2 + Window < s3, s3 <= a3
          PROVE  a3 - a1 > Window
      BY <3>1, LengthsAreNat
    <3>. QED BY <2>3, <2>4, <2>5, <2>6, <3>1
  <2>. QED BY <2>7 DEF T
<1>. QED BY <1>1, LimiterInvariance, PTL

\* Who is about to be refused was let in Limit times within the last window
\* (ratelimit.go:60-66).
THEOREM OnlyBusyRefused == Spec => []RefusalsDeserved
<1>1. LimiterInv => RefusalsDeserved
  <2>. SUFFICES ASSUME LimiterInv, NEW p \in Instances, NEW a \in Addresses,
                       Open(p, a), ~Allowed(p, a)
                PROVE  LET T == admitted[p][a] IN
                       /\ Len(T) >= Limit
                       /\ now - T[Len(T) - Limit + 1].at <= Window
    BY DEF RefusalsDeserved
  <2>. DEFINE rec == records[p][a]  T == admitted[p][a]
  <2>1. /\ rec \in Record /\ T \in Seq(Limiter!Admission) /\ Len(T) \in Nat /\ now \in Nat
        /\ \A j \in 1 .. Len(T) : T[j].at \in Nat /\ T[j].start \in Nat
        /\ IsOpen(rec, now) /\ Inside(T, now) /\ Current(rec, T, now)
    <3>1. /\ rec \in Record /\ T \in Seq(Limiter!Admission) /\ now \in Nat
          /\ IsOpen(rec, now)
      BY OfKey DEF LimiterInv
    <3>. QED BY <3>1, TimesAreNat DEF LimiterInv, KeptInv, Kept
  <2>2. rec.count \in Nat /\ rec.start \in Nat /\ ~(rec.count + 1 <= Limit)
    BY <2>1 DEF Allowed, Counted, Record
  <2>3. Used(rec) = Limit
    BY <2>2, LimitPositive DEF Used
  <2>. HIDE DEF rec, T
  <2>4. /\ Limit <= Len(T)
        /\ \A k \in 1 .. Len(T) : T[k].start = rec.start <=> k > Len(T) - Limit
    BY <2>1, <2>3 DEF Current
  <2>5. /\ Len(T) - Limit + 1 \in 1 .. Len(T)
        /\ T[Len(T) - Limit + 1].start = rec.start
    BY <2>1, <2>4, LimitPositive
  <2>6. now - rec.start <= Window
    BY <2>1, <2>2, LengthsAreNat DEF IsOpen
  <2>7. rec.start <= T[Len(T) - Limit + 1].at
    BY <2>1, <2>5 DEF Inside
  <2>8. T[Len(T) - Limit + 1].at \in Nat
    BY <2>1, <2>5
  <2>9. now - T[Len(T) - Limit + 1].at <= Window
    BY <2>1, <2>2, <2>6, <2>7, <2>8, LengthsAreNat
  <2>. QED BY <2>4, <2>9 DEF T
<1>. QED BY <1>1, LimiterInvariance, PTL
===============================================================================
