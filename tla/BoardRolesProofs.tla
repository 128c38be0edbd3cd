---------------------------- MODULE BoardRolesProofs ----------------------------
(* Accounts, links, seats and roles for any number of members, clubs, users and *)
(* requests under way.  A request that has not reached the roles yet has        *)
(* changed none of its own plan (Fresh), and one at the roles accounts for      *)
(* every role of its user in its club (UnderWay): still to be removed, still to *)
(* be added, done, or written by somebody else.                                 *)
EXTENDS BoardRoles, TLAPS

Stages == {"find", "create", "link", "seat", "read", "roles"}
Busy == [at : Stages, kind : Kinds, member : Members \cup {NULL}, user : Emails, club : Clubs,
         wanted : SUBSET RoleNames, drop : SUBSET RoleNames, add : SUBSET RoleNames,
         foreign : SUBSET RoleNames]

\* What is known of a request before it comes to the roles.
Fresh(q) ==
    q.at \in Stages \ {"roles"} =>
        /\ q.drop = {} /\ q.add = q.wanted /\ q.foreign = {}
        /\ q.member \in Members
        /\ q.at = "read" <=> q.kind = "update"
        /\ q.at = "link" => q.kind = "invite"
        /\ q.kind = "invite" => q.wanted = {NewUser} /\ q.club = ClubOf[q.member]

\* Its account exists once it has been found or made.
HasAccount(q) == q.at \in {"link", "seat", "read", "roles"} => q.user \in users

UnderWay(q) ==
    q.at = "roles" =>
        LET held == RolesOf(q.user, q.club) IN
        /\ q.add \subseteq q.wanted
        /\ q.drop # {} => q.add = q.wanted
        /\ q.wanted \subseteq q.add \cup q.foreign \cup held
        /\ q.kind = "update" => held \subseteq q.wanted \cup q.drop \cup q.foreign

RequestsOK == \A r \in Requests : Fresh(rq[r]) /\ HasAccount(rq[r]) /\ UnderWay(rq[r])

Inv == TypeOK /\ RequestsOK /\ ReferencesHold /\ LinkedMayEnter

-------------------------------------------------------------------------------
(* Records of requests and their updates. *)

With(q, a, d, w, f) ==
    [at |-> a, kind |-> q.kind, member |-> q.member, user |-> q.user, club |-> q.club,
     wanted |-> q.wanted, drop |-> d, add |-> w, foreign |-> f]

LEMMA BusyRequests ==
  ASSUME TypeOK, NEW r \in Requests
  PROVE  \/ rq[r] = Idle /\ rq[r].at = "idle"
         \/ rq[r] \in Busy /\ rq[r].at # "idle"
  BY DEF TypeOK, Request, Busy, Idle, Stages

LEMMA WithFields ==
  ASSUME NEW q \in Busy, NEW a \in Stages, NEW d \in SUBSET RoleNames,
         NEW w \in SUBSET RoleNames, NEW f \in SUBSET RoleNames
  PROVE  /\ With(q, a, d, w, f) \in Request
         /\ With(q, a, d, w, f).at = a /\ With(q, a, d, w, f).drop = d
         /\ With(q, a, d, w, f).add = w /\ With(q, a, d, w, f).foreign = f
         /\ With(q, a, d, w, f).kind = q.kind /\ With(q, a, d, w, f).member = q.member
         /\ With(q, a, d, w, f).user = q.user /\ With(q, a, d, w, f).club = q.club
         /\ With(q, a, d, w, f).wanted = q.wanted
  BY DEF With, Busy, Request, Stages, Kinds

LEMMA BusyIsWith ==
  ASSUME NEW q \in Busy
  PROVE  q = With(q, q.at, q.drop, q.add, q.foreign)
  BY DEF With, Busy

LEMMA Updated ==
  ASSUME NEW q \in Busy
  PROVE  /\ \A a \in Stages : [q EXCEPT !.at = a] = With(q, a, q.drop, q.add, q.foreign)
         /\ \A d \in SUBSET RoleNames : [q EXCEPT !.drop = d] = With(q, q.at, d, q.add, q.foreign)
         /\ \A w \in SUBSET RoleNames : [q EXCEPT !.add = w] = With(q, q.at, q.drop, w, q.foreign)
         /\ \A f \in SUBSET RoleNames : [q EXCEPT !.foreign = f] = With(q, q.at, q.drop, q.add, f)
<1>1. PICK x, k, m, u, c, n, y, z, o :
        q = [at |-> x, kind |-> k, member |-> m, user |-> u, club |-> c,
             wanted |-> n, drop |-> y, add |-> z, foreign |-> o]
  BY DEF Busy
<1>2. \A a \in Stages : [q EXCEPT !.at = a] = With(q, a, q.drop, q.add, q.foreign)
  BY <1>1 DEF With
<1>3. \A d \in SUBSET RoleNames : [q EXCEPT !.drop = d] = With(q, q.at, d, q.add, q.foreign)
  BY <1>1 DEF With
<1>4. \A w \in SUBSET RoleNames : [q EXCEPT !.add = w] = With(q, q.at, q.drop, w, q.foreign)
  BY <1>1 DEF With
<1>5. \A f \in SUBSET RoleNames : [q EXCEPT !.foreign = f] = With(q, q.at, q.drop, q.add, f)
  BY <1>1 DEF With
<1> QED
  BY <1>2, <1>3, <1>4, <1>5

LEMMA UpdatedTwice ==
  ASSUME NEW q \in Busy
  PROVE  /\ \A a \in Stages, d \in SUBSET RoleNames :
              [q EXCEPT !.at = a, !.drop = d] = With(q, a, d, q.add, q.foreign)
         /\ \A a \in Stages, f \in SUBSET RoleNames :
              [q EXCEPT !.at = a, !.foreign = f] = With(q, a, q.drop, q.add, f)
         /\ \A d \in SUBSET RoleNames, f \in SUBSET RoleNames :
              [q EXCEPT !.drop = d, !.foreign = f] = With(q, q.at, d, q.add, f)
         /\ \A w \in SUBSET RoleNames, f \in SUBSET RoleNames :
              [q EXCEPT !.add = w, !.foreign = f] = With(q, q.at, q.drop, w, f)
<1>1. ASSUME NEW a \in Stages, NEW d \in SUBSET RoleNames
      PROVE  [q EXCEPT !.at = a, !.drop = d] = With(q, a, d, q.add, q.foreign)
  <2> DEFINE p == [q EXCEPT !.at = a]
  <2>1. p = With(q, a, q.drop, q.add, q.foreign)
    BY Updated
  <2>2. With(q, a, q.drop, q.add, q.foreign) \in Busy
    BY DEF With, Busy
  <2>3. [q EXCEPT !.at = a, !.drop = d] = [p EXCEPT !.drop = d]
    OBVIOUS
  <2>4. p \in Busy
    BY <2>1, <2>2
  <2> HIDE DEF p
  <2>5. [p EXCEPT !.drop = d] = With(p, p.at, d, p.add, p.foreign)
    BY <2>4, Updated
  <2> QED
    BY <2>1, <2>3, <2>5 DEF With
<1>2. ASSUME NEW a \in Stages, NEW f \in SUBSET RoleNames
      PROVE  [q EXCEPT !.at = a, !.foreign = f] = With(q, a, q.drop, q.add, f)
  <2> DEFINE p == [q EXCEPT !.at = a]
  <2>1. p = With(q, a, q.drop, q.add, q.foreign)
    BY Updated
  <2>2. With(q, a, q.drop, q.add, q.foreign) \in Busy
    BY DEF With, Busy
  <2>3. [q EXCEPT !.at = a, !.foreign = f] = [p EXCEPT !.foreign = f]
    OBVIOUS
  <2>4. p \in Busy
    BY <2>1, <2>2
  <2> HIDE DEF p
  <2>5. [p EXCEPT !.foreign = f] = With(p, p.at, p.drop, p.add, f)
    BY <2>4, Updated
  <2> QED
    BY <2>1, <2>3, <2>5 DEF With
<1>3. ASSUME NEW d \in SUBSET RoleNames, NEW f \in SUBSET RoleNames
      PROVE  [q EXCEPT !.drop = d, !.foreign = f] = With(q, q.at, d, q.add, f)
  <2> DEFINE p == [q EXCEPT !.drop = d]
  <2>1. p = With(q, q.at, d, q.add, q.foreign)
    BY Updated
  <2>2. With(q, q.at, d, q.add, q.foreign) \in Busy
    BY DEF With, Busy
  <2>3. [q EXCEPT !.drop = d, !.foreign = f] = [p EXCEPT !.foreign = f]
    OBVIOUS
  <2>4. p \in Busy
    BY <2>1, <2>2
  <2> HIDE DEF p
  <2>5. [p EXCEPT !.foreign = f] = With(p, p.at, p.drop, p.add, f)
    BY <2>4, Updated
  <2> QED
    BY <2>1, <2>3, <2>5 DEF With
<1>4. ASSUME NEW w \in SUBSET RoleNames, NEW f \in SUBSET RoleNames
      PROVE  [q EXCEPT !.add = w, !.foreign = f] = With(q, q.at, q.drop, w, f)
  <2> DEFINE p == [q EXCEPT !.add = w]
  <2>1. p = With(q, q.at, q.drop, w, q.foreign)
    BY Updated
  <2>2. With(q, q.at, q.drop, w, q.foreign) \in Busy
    BY DEF With, Busy
  <2>3. [q EXCEPT !.add = w, !.foreign = f] = [p EXCEPT !.foreign = f]
    OBVIOUS
  <2>4. p \in Busy
    BY <2>1, <2>2
  <2> HIDE DEF p
  <2>5. [p EXCEPT !.foreign = f] = With(p, p.at, p.drop, p.add, f)
    BY <2>4, Updated
  <2> QED
    BY <2>1, <2>3, <2>5 DEF With
<1> QED
  BY <1>1, <1>2, <1>3, <1>4

LEMMA TaskFields ==
  ASSUME NEW kind \in Kinds, NEW at \in Stages, NEW m \in Members \cup {NULL},
         NEW u \in Emails, NEW c \in Clubs, NEW w \in SUBSET RoleNames
  PROVE  LET q == Task(kind, at, m, u, c, w) IN
         /\ q \in Request /\ q \in Busy
         /\ q.at = at /\ q.kind = kind /\ q.member = m /\ q.user = u /\ q.club = c
         /\ q.wanted = w /\ q.drop = {} /\ q.add = w /\ q.foreign = {}
  BY DEF Task, Busy, Request, Stages, Kinds

\* A request at any stage, seen as a record of its fields.
LEMMA BusyFields ==
  ASSUME NEW q \in Busy
  PROVE  /\ q.at \in Stages /\ q.kind \in Kinds /\ q.member \in Members \cup {NULL}
         /\ q.user \in Emails /\ q.club \in Clubs
         /\ q.wanted \in SUBSET RoleNames /\ q.drop \in SUBSET RoleNames
         /\ q.add \in SUBSET RoleNames /\ q.foreign \in SUBSET RoleNames
         /\ q \in Request
  BY DEF Busy, Request, Stages

LEMMA IdleOK == Idle \in Request /\ Fresh(Idle) /\ HasAccount(Idle) /\ UnderWay(Idle)
                /\ Idle.at = "idle"
  BY DEF Idle, Request, Fresh, HasAccount, UnderWay, Stages

-------------------------------------------------------------------------------
(* How the requests change. *)

\* One request goes on, the roles stay as they are.
LEMMA OneGoesOn ==
  ASSUME Inv, NEW r \in Requests, NEW q \in Request, Become(r, q),
         grants' = grants, users \subseteq users',
         Fresh(q), q.at \in {"link", "seat", "read", "roles"} => q.user \in users', UnderWay(q)
  PROVE  rq' \in [Requests -> Request] /\ RequestsOK'
<1>1. rq' \in [Requests -> Request] /\ rq'[r] = q /\ \A x \in Requests : x # r => rq'[x] = rq[x]
  BY DEF Inv, TypeOK, Become
<1>2. \A u, c : RolesOf(u, c)' = RolesOf(u, c)
  BY DEF RolesOf
<1>3. ASSUME NEW x \in Requests
      PROVE  (Fresh(rq[x]) /\ HasAccount(rq[x]) /\ UnderWay(rq[x]))'
  <2>1. CASE x = r
    BY <1>1, <1>2, <2>1 DEF Fresh, HasAccount, UnderWay
  <2>2. CASE x # r
    <3>1. rq'[x] = rq[x] /\ Fresh(rq[x]) /\ HasAccount(rq[x]) /\ UnderWay(rq[x])
      BY <1>1, <2>2 DEF Inv, RequestsOK
    <3> QED
      BY <1>2, <3>1 DEF Fresh, HasAccount, UnderWay
  <2> QED
    BY <2>1, <2>2
<1> QED
  BY <1>1, <1>3 DEF RequestsOK

LEMMA OneRole ==
  ASSUME NEW u, NEW role \in RoleNames, NEW c, grants' \in {AddUserRole(u, role, c), RemoveUserRole(u, role, c)}
  PROVE  /\ \A v, d : <<v, d>> # <<u, c>> => RolesOf(v, d)' = RolesOf(v, d)
         /\ RolesOf(u, c) \ {role} \subseteq RolesOf(u, c)'
         /\ RolesOf(u, c)' \subseteq RolesOf(u, c) \cup {role}
         /\ grants' = AddUserRole(u, role, c) => role \in RolesOf(u, c)'
         /\ grants' = RemoveUserRole(u, role, c) => role \notin RolesOf(u, c)'
         /\ \A x, v, d : x # role => (x \in RolesOf(v, d)' <=> x \in RolesOf(v, d))
  BY DEF RolesOf, AddUserRole, RemoveUserRole

\* What the others have noticed of a change of one role.
LEMMA OthersNotice ==
  ASSUME Inv, NEW u \in Emails, NEW role \in RoleNames, NEW c \in Clubs, NEW x \in Requests
  PROVE  LET n == Noticed(u, role, c)[x] IN
         \/ n = rq[x] /\ ~(rq[x].at = "roles" /\ rq[x].user = u /\ rq[x].club = c)
         \/ /\ rq[x] \in Busy /\ rq[x].at = "roles" /\ rq[x].user = u /\ rq[x].club = c
            /\ n = With(rq[x], rq[x].at, rq[x].drop, rq[x].add, rq[x].foreign \cup {role})
<1>1. CASE rq[x].at = "roles" /\ rq[x].user = u /\ rq[x].club = c
  <2>1. rq[x] \in Busy
    BY <1>1, BusyRequests DEF Inv, Idle
  <2>2. rq[x].foreign \cup {role} \in SUBSET RoleNames
    BY <2>1, BusyFields
  <2>3. [rq[x] EXCEPT !.foreign = rq[x].foreign \cup {role}]
          = With(rq[x], rq[x].at, rq[x].drop, rq[x].add, rq[x].foreign \cup {role})
    BY <2>1, <2>2, Updated
  <2> QED
    BY <1>1, <2>1, <2>3 DEF Noticed
<1>2. CASE ~(rq[x].at = "roles" /\ rq[x].user = u /\ rq[x].club = c)
  BY <1>2 DEF Noticed
<1> QED
  BY <1>1, <1>2

LEMMA NoticedFields ==
  ASSUME Inv, NEW u \in Emails, NEW role \in RoleNames, NEW c \in Clubs, NEW x \in Requests
  PROVE  LET n == Noticed(u, role, c)[x] IN
         /\ n \in Request
         /\ n.at = rq[x].at
         /\ n.at # "idle" => n.add = rq[x].add /\ n.user = rq[x].user /\ n.club = rq[x].club
<1>1. CASE Noticed(u, role, c)[x] = rq[x]
  BY <1>1 DEF Inv, TypeOK
<1>2. CASE Noticed(u, role, c)[x] # rq[x]
  <2>1. rq[x] \in Busy
        /\ Noticed(u, role, c)[x] = With(rq[x], rq[x].at, rq[x].drop, rq[x].add, rq[x].foreign \cup {role})
    BY <1>2, OthersNotice
  <2>2. rq[x].at \in Stages /\ rq[x].drop \in SUBSET RoleNames /\ rq[x].add \in SUBSET RoleNames
        /\ rq[x].foreign \cup {role} \in SUBSET RoleNames
    BY <2>1, BusyFields
  <2> QED
    BY <2>1, <2>2, WithFields
<1> QED
  BY <1>1, <1>2

\* Whoever works on the same roles puts the changed one down as foreign.
LEMMA NoticedOK ==
  ASSUME Inv, NEW u \in Emails, NEW role \in RoleNames, NEW c \in Clubs, NEW x \in Requests,
         grants' \in {AddUserRole(u, role, c), RemoveUserRole(u, role, c)}, users' = users,
         rq'[x] = Noticed(u, role, c)[x]
  PROVE  (Fresh(rq[x]) /\ HasAccount(rq[x]) /\ UnderWay(rq[x]))'
<1>1. Fresh(rq[x]) /\ HasAccount(rq[x]) /\ UnderWay(rq[x])
  BY DEF Inv, RequestsOK
<1>2. CASE rq'[x] = rq[x] /\ ~(rq[x].at = "roles" /\ rq[x].user = u /\ rq[x].club = c)
  <2>1. \A v, d : rq[x].at = "roles" /\ rq[x].user = v /\ rq[x].club = d => RolesOf(v, d)' = RolesOf(v, d)
    BY <1>2, OneRole
  <2> QED
    BY <1>1, <1>2, <2>1 DEF Fresh, HasAccount, UnderWay, RolesOf
<1>3. CASE /\ rq[x] \in Busy /\ rq[x].at = "roles" /\ rq[x].user = u /\ rq[x].club = c
           /\ rq'[x] = With(rq[x], rq[x].at, rq[x].drop, rq[x].add, rq[x].foreign \cup {role})
  <2>1. rq[x].drop \in SUBSET RoleNames /\ rq[x].add \in SUBSET RoleNames
        /\ rq[x].foreign \cup {role} \in SUBSET RoleNames
    BY <1>3, BusyFields
  <2>2. /\ rq'[x].at = "roles" /\ rq'[x].user = u /\ rq'[x].club = c
        /\ rq'[x].kind = rq[x].kind /\ rq'[x].wanted = rq[x].wanted /\ rq'[x].drop = rq[x].drop
        /\ rq'[x].add = rq[x].add /\ rq'[x].foreign = rq[x].foreign \cup {role}
    BY <1>3, <2>1, WithFields DEF Stages
  <2>3. RolesOf(u, c) \ {role} \subseteq RolesOf(u, c)' /\ RolesOf(u, c)' \subseteq RolesOf(u, c) \cup {role}
    BY OneRole
  <2>4. UnderWay(rq[x])'
    BY <1>1, <1>3, <2>2, <2>3 DEF UnderWay
  <2> QED
    BY <1>1, <1>3, <2>2, <2>4 DEF Fresh, HasAccount
<1> QED
  BY <1>2, <1>3, OthersNotice

\* A request changes one role; it has put down what it did itself.
LEMMA OneChangesRoles ==
  ASSUME Inv, NEW r \in Requests, rq[r] \in Busy, rq[r].at = "roles", NEW role \in RoleNames,
         grants' \in {AddUserRole(rq[r].user, role, rq[r].club), RemoveUserRole(rq[r].user, role, rq[r].club)},
         users' = users, NEW q \in Request,
         rq' = [Noticed(rq[r].user, role, rq[r].club) EXCEPT ![r] = q],
         Fresh(q)', HasAccount(q)', UnderWay(q)'
  PROVE  rq' \in [Requests -> Request] /\ RequestsOK'
<1> DEFINE n == Noticed(rq[r].user, role, rq[r].club)
<1>1. rq[r].user \in Emails /\ rq[r].club \in Clubs
  BY BusyFields
<1>2. n \in [Requests -> Request]
  <2>1. \A x \in Requests : n[x] \in Request
    BY <1>1, NoticedFields
  <2> QED
    BY <2>1 DEF Noticed
<1>3. rq' \in [Requests -> Request] /\ rq'[r] = q /\ \A x \in Requests : x # r => rq'[x] = n[x]
  BY <1>2
<1>4. ASSUME NEW x \in Requests
      PROVE  (Fresh(rq[x]) /\ HasAccount(rq[x]) /\ UnderWay(rq[x]))'
  <2>1. CASE x = r
    BY <1>3, <2>1 DEF Fresh, HasAccount, UnderWay, RolesOf
  <2>2. CASE x # r
    BY <1>1, <1>3, <2>2, NoticedOK
  <2> QED
    BY <2>1, <2>2
<1> QED
  BY <1>3, <1>4 DEF RequestsOK

-------------------------------------------------------------------------------
(* The requests, action by action. *)

LEMMA StartOK ==
  ASSUME Inv, NEW r \in Requests, Start(r)
  PROVE  rq' \in [Requests -> Request] /\ RequestsOK'
<1>1. ASSUME NEW e \in Emails, Register(r, e) PROVE rq' \in [Requests -> Request] /\ RequestsOK'
  <2> DEFINE q == Task("register", "roles", NULL, e, HomeClub, {NewUser})
  <2>1. /\ q \in Request /\ q.at = "roles" /\ q.kind = "register" /\ q.user = e
        /\ q.wanted = {NewUser} /\ q.drop = {} /\ q.add = {NewUser}
    BY TaskFields, HomeAndRoles DEF Kinds, Stages
  <2> HIDE DEF q
  <2>2. Fresh(q) /\ UnderWay(q)
    BY <2>1 DEF Fresh, UnderWay
  <2> QED
    BY <1>1, <2>1, <2>2, OneGoesOn DEF Register, q
<1>2. ASSUME NEW m \in Members, Invite(r, m) PROVE rq' \in [Requests -> Request] /\ RequestsOK'
  <2> DEFINE q == Task("invite", "find", m, EmailOf[m], ClubOf[m], {NewUser})
  <2>1. /\ q \in Request /\ q.at = "find" /\ q.kind = "invite" /\ q.member = m /\ q.club = ClubOf[m]
        /\ q.wanted = {NewUser} /\ q.drop = {} /\ q.add = {NewUser} /\ q.foreign = {}
    BY TaskFields, HomeAndRoles, MembersPlaced DEF Kinds, Stages
  <2>2. Become(r, q)
    BY <1>2 DEF Invite, InvitedTo
  <2> HIDE DEF q
  <2>3. Fresh(q) /\ UnderWay(q)
    BY <2>1 DEF Fresh, UnderWay
  <2> QED
    BY <1>2, <2>1, <2>2, <2>3, OneGoesOn DEF Invite
<1>3. ASSUME NEW m \in Members, NEW w \in RoleLists, AddToBoard(r, m, w)
      PROVE  rq' \in [Requests -> Request] /\ RequestsOK'
  <2> DEFINE q == Task("board", "find", m, EmailOf[m], ClubOf[m], w)
  <2>1. /\ q \in Request /\ q.at = "find" /\ q.kind = "board" /\ q.member = m
        /\ q.wanted = w /\ q.drop = {} /\ q.add = w /\ q.foreign = {}
    BY TaskFields, HomeAndRoles, MembersPlaced DEF Kinds, Stages
  <2> HIDE DEF q
  <2>3. Fresh(q) /\ UnderWay(q)
    BY <2>1 DEF Fresh, UnderWay
  <2> QED
    BY <1>3, <2>1, <2>3, OneGoesOn DEF AddToBoard, q
<1>4. ASSUME NEW m \in Members, NEW w \in RoleLists, UpdateBoard(r, m, w)
      PROVE  rq' \in [Requests -> Request] /\ RequestsOK'
  <2> DEFINE q == Task("update", "read", m, seat[m], ClubOf[m], w)
  <2>1. seat[m] \in Emails /\ seat[m] \in users
    BY <1>4 DEF UpdateBoard, Inv, TypeOK, ReferencesHold
  <2>2. /\ q \in Request /\ q.at = "read" /\ q.kind = "update" /\ q.member = m /\ q.user = seat[m]
        /\ q.wanted = w /\ q.drop = {} /\ q.add = w /\ q.foreign = {}
    BY <2>1, TaskFields, HomeAndRoles, MembersPlaced DEF Kinds, Stages
  <2> HIDE DEF q
  <2>3. Fresh(q) /\ UnderWay(q)
    BY <2>2 DEF Fresh, UnderWay
  <2> QED
    BY <1>4, <2>1, <2>2, <2>3, OneGoesOn DEF UpdateBoard, q
<1> QED
  BY <1>1, <1>2, <1>3, <1>4 DEF Start

\* To the next stage, with the plan as it is.
LEMMA ProceedOK ==
  ASSUME Inv, NEW r \in Requests, rq[r].at \in {"find", "create", "link", "seat"},
         NEW a \in Stages \ {"read"}, Proceed(r, a), grants' = grants, users \subseteq users',
         a \in {"link", "seat", "roles"} => rq[r].user \in users',
         a = "link" => rq[r].kind = "invite",
         a = "roles" => rq[r].kind # "update"
  PROVE  rq' \in [Requests -> Request] /\ RequestsOK'
<1> DEFINE q == With(rq[r], a, rq[r].drop, rq[r].add, rq[r].foreign)
<1>1. rq[r] \in Busy /\ Fresh(rq[r])
  BY BusyRequests DEF Inv, RequestsOK, Idle
<1>2. Become(r, q)
  BY <1>1, Updated DEF Proceed
<1>3. /\ q \in Request /\ q.at = a /\ q.kind = rq[r].kind /\ q.member = rq[r].member
      /\ q.user = rq[r].user /\ q.club = rq[r].club /\ q.wanted = rq[r].wanted
      /\ q.drop = rq[r].drop /\ q.add = rq[r].add /\ q.foreign = rq[r].foreign
  BY <1>1, BusyFields, WithFields
<1> HIDE DEF q
<1>4. /\ rq[r].drop = {} /\ rq[r].add = rq[r].wanted /\ rq[r].foreign = {} /\ rq[r].member \in Members
      /\ rq[r].kind # "update"
      /\ rq[r].kind = "invite" => rq[r].wanted = {NewUser} /\ rq[r].club = ClubOf[rq[r].member]
  BY <1>1 DEF Fresh, Stages
<1>5. Fresh(q) /\ UnderWay(q)
  BY <1>3, <1>4 DEF Fresh, UnderWay, Stages
<1> QED
  BY <1>2, <1>3, <1>5, OneGoesOn

LEMMA GiveUpOK ==
  ASSUME Inv, NEW r \in Requests, Become(r, Idle), grants' = grants, users \subseteq users'
  PROVE  rq' \in [Requests -> Request] /\ RequestsOK'
  BY IdleOK, OneGoesOn

LEMMA ReadRolesOK ==
  ASSUME Inv, NEW r \in Requests, ReadRoles(r) \/ ReadRolesFails(r)
  PROVE  rq' \in [Requests -> Request] /\ RequestsOK'
<1> DEFINE held == RolesOf(rq[r].user, rq[r].club)
<1>1. rq[r] \in Busy /\ rq[r].at = "read" /\ Fresh(rq[r]) /\ HasAccount(rq[r])
  BY BusyRequests DEF Inv, RequestsOK, Idle, ReadRoles, ReadRolesFails
<1>2. held \in SUBSET RoleNames
  BY DEF RolesOf
<1>3. /\ rq[r].drop = {} /\ rq[r].add = rq[r].wanted /\ rq[r].foreign = {} /\ rq[r].user \in users
      /\ rq[r].add \in SUBSET RoleNames
  BY <1>1, BusyFields DEF Fresh, HasAccount, Stages
<1>4. CASE ReadRoles(r)
  <2> DEFINE q == With(rq[r], "roles", held, rq[r].add, rq[r].foreign)
  <2>1. Become(r, q)
    BY <1>1, <1>2, <1>4, UpdatedTwice DEF ReadRoles, Stages
  <2>2. /\ q \in Request /\ q.at = "roles" /\ q.user = rq[r].user /\ q.club = rq[r].club
        /\ q.wanted = rq[r].wanted /\ q.drop = held /\ q.add = rq[r].add /\ q.foreign = {}
    BY <1>1, <1>2, <1>3, WithFields DEF Stages
  <2> HIDE DEF q
  <2>3. Fresh(q) /\ UnderWay(q)
    BY <1>3, <2>2 DEF Fresh, UnderWay
  <2> QED
    BY <1>3, <1>4, <2>1, <2>2, <2>3, OneGoesOn DEF ReadRoles
<1>5. CASE ReadRolesFails(r)
  <2> DEFINE q == With(rq[r], "roles", rq[r].drop, rq[r].add, held)
  <2>1. Become(r, q)
    BY <1>1, <1>2, <1>5, UpdatedTwice DEF ReadRolesFails, Stages
  <2>2. /\ q \in Request /\ q.at = "roles" /\ q.user = rq[r].user /\ q.club = rq[r].club
        /\ q.wanted = rq[r].wanted /\ q.drop = {} /\ q.add = rq[r].add /\ q.foreign = held
    BY <1>1, <1>2, <1>3, WithFields DEF Stages
  <2> HIDE DEF q
  <2>3. Fresh(q) /\ UnderWay(q)
    BY <1>3, <2>2 DEF Fresh, UnderWay
  <2> QED
    BY <1>3, <1>5, <2>1, <2>2, <2>3, OneGoesOn DEF ReadRolesFails
<1> QED
  BY <1>4, <1>5

LEMMA DropOneOK ==
  ASSUME Inv, NEW r \in Requests, NEW role \in RoleNames, DropOne(r, role)
  PROVE  rq' \in [Requests -> Request] /\ RequestsOK'
<1>1. PICK q0, u, c, d : q0 = rq[r] /\ u = rq[r].user /\ c = rq[r].club /\ d = rq[r].drop \ {role}
  OBVIOUS
<1>2. /\ q0 \in Busy /\ q0.at = "roles" /\ role \in q0.drop /\ q0.user = u /\ q0.club = c
      /\ HasAccount(q0) /\ UnderWay(q0)
  BY <1>1, BusyRequests DEF Inv, RequestsOK, Idle, DropOne
<1>3. d \in SUBSET RoleNames /\ q0.add \in SUBSET RoleNames /\ q0.foreign \in SUBSET RoleNames
  BY <1>1, <1>2, BusyFields
<1>4. PICK q : q = With(q0, q0.at, d, q0.add, q0.foreign)
  OBVIOUS
<1>5. /\ q \in Request /\ q.at = "roles" /\ q.user = u /\ q.club = c /\ q.kind = q0.kind
      /\ q.wanted = q0.wanted /\ q.drop = d /\ q.add = q0.add /\ q.foreign = q0.foreign
  BY <1>2, <1>3, <1>4, WithFields DEF Stages
<1>6. [q0 EXCEPT !.drop = d] = q
  BY <1>2, <1>3, <1>4, Updated
<1>7. rq' = [Noticed(u, role, c) EXCEPT ![r] = q] /\ grants' = RemoveUserRole(u, role, c) /\ users' = users
  BY <1>1, <1>6 DEF DropOne, Removed
<1>8. RolesOf(u, c) \ {role} \subseteq RolesOf(u, c)' /\ RolesOf(u, c)' \subseteq RolesOf(u, c) \ {role}
  <2>1. role \notin RolesOf(u, c)' /\ RolesOf(u, c)' \subseteq RolesOf(u, c) \cup {role}
        /\ RolesOf(u, c) \ {role} \subseteq RolesOf(u, c)'
    BY <1>7, OneRole
  <2> QED
    BY <2>1
<1>9. /\ q0.add = q0.wanted /\ u \in users
      /\ q0.kind = "update" => RolesOf(u, c) \subseteq q0.wanted \cup q0.drop \cup q0.foreign
  BY <1>2 DEF UnderWay, HasAccount
<1>10. Fresh(q)' /\ HasAccount(q)' /\ UnderWay(q)'
  <2>1. q.kind = "update" => RolesOf(u, c)' \subseteq q.wanted \cup q.drop \cup q.foreign
    BY <1>1, <1>5, <1>8, <1>9
  <2> QED
    BY <1>5, <1>7, <1>9, <2>1 DEF Fresh, HasAccount, UnderWay
<1> QED
  BY <1>1, <1>2, <1>5, <1>7, <1>10, OneChangesRoles

LEMMA AddOneOK ==
  ASSUME Inv, NEW r \in Requests, NEW role \in RoleNames, AddOne(r, role)
  PROVE  rq' \in [Requests -> Request] /\ RequestsOK'
<1>1. PICK q0, u, c, w : q0 = rq[r] /\ u = rq[r].user /\ c = rq[r].club /\ w = rq[r].add \ {role}
  OBVIOUS
<1>2. /\ q0 \in Busy /\ q0.at = "roles" /\ q0.drop = {} /\ role \in q0.add
      /\ q0.user = u /\ q0.club = c /\ HasAccount(q0) /\ UnderWay(q0)
  BY <1>1, BusyRequests DEF Inv, RequestsOK, Idle, AddOne
<1>3. w \in SUBSET RoleNames /\ q0.drop \in SUBSET RoleNames /\ q0.foreign \in SUBSET RoleNames
  BY <1>1, <1>2, BusyFields
<1>4. PICK q : q = With(q0, q0.at, q0.drop, w, q0.foreign)
  OBVIOUS
<1>5. /\ q \in Request /\ q.at = "roles" /\ q.user = u /\ q.club = c /\ q.kind = q0.kind
      /\ q.wanted = q0.wanted /\ q.drop = {} /\ q.add = w /\ q.foreign = q0.foreign
  BY <1>2, <1>3, <1>4, WithFields DEF Stages
<1>6. [q0 EXCEPT !.add = w] = q
  BY <1>2, <1>3, <1>4, Updated
<1>7. rq' = [Noticed(u, role, c) EXCEPT ![r] = q] /\ grants' = AddUserRole(u, role, c) /\ users' = users
  BY <1>1, <1>6 DEF AddOne, Granted
<1>8. role \in RolesOf(u, c)' /\ RolesOf(u, c)' \subseteq RolesOf(u, c) \cup {role}
      /\ RolesOf(u, c) \ {role} \subseteq RolesOf(u, c)'
  BY <1>7, OneRole
<1>9. /\ q0.wanted \subseteq q0.add \cup q0.foreign \cup RolesOf(u, c) /\ u \in users
      /\ q0.add \subseteq q0.wanted
      /\ q0.kind = "update" => RolesOf(u, c) \subseteq q0.wanted \cup q0.foreign
  BY <1>2 DEF UnderWay, HasAccount
<1>10. Fresh(q)' /\ HasAccount(q)' /\ UnderWay(q)'
  <2>1. q.wanted \subseteq q.add \cup q.foreign \cup RolesOf(u, c)'
    BY <1>1, <1>5, <1>8, <1>9
  <2>2. q.kind = "update" => RolesOf(u, c)' \subseteq q.wanted \cup q.drop \cup q.foreign
    BY <1>2, <1>5, <1>8, <1>9
  <2> QED
    BY <1>1, <1>5, <1>7, <1>9, <2>1, <2>2 DEF Fresh, HasAccount, UnderWay
<1> QED
  BY <1>1, <1>2, <1>5, <1>7, <1>10, OneChangesRoles

LEMMA SkipOneOK ==
  ASSUME Inv, NEW r \in Requests, NEW role \in RoleNames, SkipOne(r, role)
  PROVE  rq' \in [Requests -> Request] /\ RequestsOK'
<1>1. PICK q0, d, w, f : /\ q0 = rq[r] /\ d = rq[r].drop \ {role} /\ w = rq[r].add \ {role}
                         /\ f = rq[r].foreign \cup {role}
  OBVIOUS
<1>2. q0 \in Busy /\ q0.at = "roles" /\ HasAccount(q0) /\ UnderWay(q0)
  BY <1>1, BusyRequests DEF Inv, RequestsOK, Idle, SkipOne
<1>3. /\ d \in SUBSET RoleNames /\ w \in SUBSET RoleNames /\ f \in SUBSET RoleNames
      /\ q0.drop \in SUBSET RoleNames /\ q0.add \in SUBSET RoleNames
  BY <1>1, <1>2, BusyFields
<1>4. CASE role \in q0.drop /\ Become(r, [q0 EXCEPT !.drop = d, !.foreign = f])
  <2>1. PICK q : q = With(q0, q0.at, d, q0.add, f)
    OBVIOUS
  <2>2. Become(r, q)
    BY <1>2, <1>3, <1>4, <2>1, UpdatedTwice
  <2>3. /\ q \in Request /\ q.at = "roles" /\ q.user = q0.user /\ q.club = q0.club
        /\ q.kind = q0.kind /\ q.wanted = q0.wanted /\ q.drop = d /\ q.add = q0.add /\ q.foreign = f
    BY <1>2, <1>3, <2>1, WithFields DEF Stages
  <2>4. Fresh(q) /\ UnderWay(q) /\ q.user \in users
    BY <1>1, <1>2, <1>4, <2>3 DEF Fresh, UnderWay, HasAccount
  <2> QED
    BY <2>2, <2>3, <2>4, OneGoesOn DEF SkipOne
<1>5. CASE q0.drop = {} /\ role \in q0.add /\ Become(r, [q0 EXCEPT !.add = w, !.foreign = f])
  <2>1. PICK q : q = With(q0, q0.at, q0.drop, w, f)
    OBVIOUS
  <2>2. Become(r, q)
    <3>1. \A x \in SUBSET RoleNames, y \in SUBSET RoleNames :
            [q0 EXCEPT !.add = x, !.foreign = y] = With(q0, q0.at, q0.drop, x, y)
      BY <1>2, UpdatedTwice
    <3> QED
      BY <1>3, <1>5, <2>1, <3>1
  <2>3. /\ q \in Request /\ q.at = "roles" /\ q.user = q0.user /\ q.club = q0.club
        /\ q.kind = q0.kind /\ q.wanted = q0.wanted /\ q.drop = {} /\ q.add = w /\ q.foreign = f
    BY <1>2, <1>3, <1>5, <2>1, WithFields DEF Stages
  <2>4. Fresh(q) /\ UnderWay(q) /\ q.user \in users
    BY <1>1, <1>2, <1>5, <2>3 DEF Fresh, UnderWay, HasAccount
  <2> QED
    BY <2>2, <2>3, <2>4, OneGoesOn DEF SkipOne
<1> QED
  BY <1>1, <1>4, <1>5 DEF SkipOne

LEMMA AfterAccountOK ==
  ASSUME Inv, NEW r \in Requests, rq[r].at \in {"find", "create"}, Proceed(r, AfterAccount(r)),
         grants' = grants, users \subseteq users', rq[r].user \in users'
  PROVE  rq' \in [Requests -> Request] /\ RequestsOK'
<1>1. CASE rq[r].kind = "invite"
  BY <1>1, ProceedOK DEF AfterAccount, Stages
<1>2. CASE rq[r].kind # "invite"
  BY <1>2, ProceedOK DEF AfterAccount, Stages
<1> QED
  BY <1>1, <1>2

LEMMA NotUpdating ==
  ASSUME Inv, NEW r \in Requests, rq[r].at \in {"link", "seat"}
  PROVE  rq[r].kind # "update" /\ rq[r].user \in users
  BY DEF Inv, RequestsOK, Fresh, HasAccount, Stages

LEMMA ContinueOK ==
  ASSUME Inv, NEW r \in Requests, Continue(r)
  PROVE  rq' \in [Requests -> Request] /\ RequestsOK'
<1>1. CASE FindUser(r)
  <2>1. CASE rq[r].user \in users
    BY <1>1, <2>1, AfterAccountOK DEF FindUser
  <2>2. CASE rq[r].user \notin users
    BY <1>1, <2>2, ProceedOK DEF FindUser, Stages
  <2> QED
    BY <2>1, <2>2
<1>2. CASE CreateUser(r)
  BY <1>2, AfterAccountOK DEF CreateUser
<1>3. CASE CreateUserRefused(r) \/ LinkRefused(r) \/ SeatRefused(r) \/ Finish(r)
  BY <1>3, GiveUpOK DEF CreateUserRefused, LinkRefused, SeatRefused, Finish
<1>4. CASE Link(r)
  BY <1>4, NotUpdating, ProceedOK DEF Link, Stages
<1>5. CASE TakeSeat(r)
  BY <1>5, NotUpdating, ProceedOK DEF TakeSeat, Stages
<1>6. CASE ReadRoles(r) \/ ReadRolesFails(r)
  BY <1>6, ReadRolesOK
<1>7. CASE \E role \in RoleNames : DropOne(r, role) \/ AddOne(r, role) \/ SkipOne(r, role)
  BY <1>7, DropOneOK, AddOneOK, SkipOneOK
<1> QED
  BY <1>1, <1>2, <1>3, <1>4, <1>5, <1>6, <1>7 DEF Continue

LEMMA SingleRoleOK ==
  ASSUME Inv, NEW u \in Emails, NEW role \in RoleNames, NEW c \in Clubs,
         grants' \in {AddUserRole(u, role, c), RemoveUserRole(u, role, c)}, users' = users,
         rq' = Noticed(u, role, c)
  PROVE  rq' \in [Requests -> Request] /\ RequestsOK'
<1>1. \A x \in Requests : Noticed(u, role, c)[x] \in Request
  BY NoticedFields
<1>2. rq' \in [Requests -> Request]
  BY <1>1 DEF Noticed
<1>3. \A x \in Requests : rq'[x] = Noticed(u, role, c)[x]
  OBVIOUS
<1> QED
  BY <1>2, <1>3, NoticedOK DEF RequestsOK

LEMMA RequestsKept ==
  ASSUME Inv, grants' = grants, users' = users, rq' = rq
  PROVE  rq' \in [Requests -> Request] /\ RequestsOK'
  BY DEF Inv, TypeOK, RequestsOK, Fresh, HasAccount, UnderWay, RolesOf

LEMMA NextRequests ==
  ASSUME Inv, [Next]_vars
  PROVE  rq' \in [Requests -> Request] /\ RequestsOK'
<1>1. ASSUME NEW m \in Members, DeleteSeat(m) \/ DeleteMember(m)
      PROVE  rq' \in [Requests -> Request] /\ RequestsOK'
  BY <1>1, RequestsKept DEF DeleteSeat, DeleteMember
<1>2. ASSUME NEW u \in Emails, NEW role \in RoleNames, NEW c \in Clubs,
             AssignRole(u, role, c) \/ RemoveRole(u, role, c)
      PROVE  rq' \in [Requests -> Request] /\ RequestsOK'
  BY <1>2, SingleRoleOK DEF AssignRole, RemoveRole, Granted, Removed
<1>3. ASSUME NEW r \in Requests, Start(r) PROVE rq' \in [Requests -> Request] /\ RequestsOK'
  BY <1>3, StartOK
<1>4. ASSUME NEW r \in Requests, Continue(r) PROVE rq' \in [Requests -> Request] /\ RequestsOK'
  BY <1>4, ContinueOK
<1>5. ASSUME NEW r \in Requests, Abort(r) PROVE rq' \in [Requests -> Request] /\ RequestsOK'
  BY <1>5, GiveUpOK DEF Abort
<1>6. CASE UNCHANGED vars
  BY <1>6, RequestsKept DEF vars
<1> QED
  BY <1>1, <1>2, <1>3, <1>4, <1>5, <1>6 DEF Next, Administer

-------------------------------------------------------------------------------
(* The tables. *)

LEMMA NextTables ==
  ASSUME Inv, [Next]_vars
  PROVE  /\ users' \subseteq Emails /\ users \subseteq users'
         /\ member' \in [Members -> [present : BOOLEAN, user : Emails \cup {NULL}]]
         /\ seat' \in [Members -> Emails \cup {NULL}]
         /\ grants' \subseteq Emails \X RoleNames \X Clubs
         /\ withheld' \subseteq Emails \X Clubs
         /\ ReferencesHold'
<1> DEFINE Tables == /\ users' \subseteq Emails /\ users \subseteq users'
                     /\ member' \in [Members -> [present : BOOLEAN, user : Emails \cup {NULL}]]
                     /\ seat' \in [Members -> Emails \cup {NULL}]
                     /\ grants' \subseteq Emails \X RoleNames \X Clubs
                     /\ withheld' \subseteq Emails \X Clubs
                     /\ ReferencesHold'
<1> USE DEF Inv, TypeOK, ReferencesHold
<1>0. ASSUME UNCHANGED <<users, member, seat, grants, withheld>> PROVE Tables
  BY <1>0
<1>1. ASSUME NEW m \in Members, DeleteSeat(m) PROVE Tables
  BY <1>1 DEF DeleteSeat
<1>2. ASSUME NEW m \in Members, DeleteMember(m) PROVE Tables
  BY <1>2 DEF DeleteMember
<1>3. ASSUME NEW u \in Emails, NEW role \in RoleNames, NEW c \in Clubs, u \in users,
             Granted(u, role, c), UNCHANGED <<users, member, seat>>
      PROVE  Tables
  <2>1. grants' = grants \cup {<<u, role, c>>} /\ withheld' \subseteq withheld
    BY <1>3 DEF Granted, AddUserRole
  <2> QED
    BY <1>3, <2>1
<1>4. ASSUME NEW u \in Emails, NEW role \in RoleNames, NEW c \in Clubs,
             Removed(u, role, c), UNCHANGED <<users, member, seat>>
      PROVE  Tables
  <2>1. grants' \subseteq grants /\ withheld' \subseteq withheld \cup {<<u, c>>}
    BY <1>4 DEF Removed, RemoveUserRole
  <2> QED
    BY <1>4, <2>1
<1>5. ASSUME NEW r \in Requests, Start(r) PROVE Tables
  <2>1. ASSUME NEW e \in Emails, Register(r, e) PROVE Tables
    BY <2>1 DEF Register
  <2> QED
    BY <1>0, <1>5, <2>1 DEF Start, Invite, AddToBoard, UpdateBoard
<1>6. ASSUME NEW r \in Requests, Continue(r) PROVE Tables
  <2>1. rq[r].at # "idle" => rq[r].user \in Emails /\ rq[r].club \in Clubs
    BY BusyRequests, BusyFields
  <2>2. CASE CreateUser(r)
    BY <2>1, <2>2 DEF CreateUser
  <2>3. CASE Link(r)
    <3>1. rq[r].member \in Members /\ rq[r].user \in users
      BY <2>3 DEF Link, RequestsOK, Fresh, HasAccount, Stages
    <3> DEFINE m == rq[r].member
    <3>2. \/ member' = [member EXCEPT ![m] = [member[m] EXCEPT !.user = rq[r].user]]
          \/ member' = member
      BY <2>3 DEF Link, UserOf
    <3>3. UNCHANGED <<users, seat, grants, withheld>>
      BY <2>3 DEF Link
    <3>4. CASE member' = member
      BY <1>0, <3>3, <3>4
    <3>5. CASE member' = [member EXCEPT ![m] = [member[m] EXCEPT !.user = rq[r].user]]
      <4>1. member' \in [Members -> [present : BOOLEAN, user : Emails \cup {NULL}]]
        BY <3>1, <3>5
      <4>2. \A n \in Members : /\ member'[n].present = member[n].present
                               /\ n # m => member'[n].user = member[n].user
                               /\ member'[m].user = rq[r].user
        BY <3>1, <3>5
      <4>3. ReferencesHold'
        BY <3>1, <3>3, <4>2
      <4> QED
        BY <3>3, <4>1, <4>3
    <3> QED
      BY <3>2, <3>4, <3>5
  <2>4. CASE TakeSeat(r)
    <3>1. rq[r].member \in Members /\ rq[r].user \in users /\ member[rq[r].member].present
      BY <2>4 DEF TakeSeat, SeatAllowed, RequestsOK, Fresh, HasAccount, Stages
    <3> QED
      BY <2>4, <3>1 DEF TakeSeat
  <2>5. ASSUME NEW role \in RoleNames, DropOne(r, role) PROVE Tables
    BY <1>4, <2>1, <2>5 DEF DropOne
  <2>6. ASSUME NEW role \in RoleNames, AddOne(r, role) PROVE Tables
    <3>1. rq[r].user \in users
      BY <2>6 DEF AddOne, RequestsOK, HasAccount
    <3> QED
      BY <1>3, <2>1, <2>6, <3>1 DEF AddOne
  <2>7. ASSUME NEW role \in RoleNames, SkipOne(r, role) PROVE Tables
    <3>1. rq[r].at = "roles" /\ withheld' \subseteq withheld \cup {<<rq[r].user, rq[r].club>>}
          /\ UNCHANGED <<users, member, seat, grants>>
      BY <2>7 DEF SkipOne, Missed
    <3> QED
      BY <2>1, <3>1
  <2> QED
    BY <1>0, <1>6, <2>2, <2>3, <2>4, <2>5, <2>6, <2>7
       DEF Continue, FindUser, CreateUserRefused, LinkRefused, SeatRefused, ReadRoles, ReadRolesFails, Finish
<1>7. ASSUME NEW r \in Requests, Abort(r) PROVE Tables
  <2>1. withheld' \subseteq withheld \cup {<<rq[r].user, rq[r].club>>} /\ rq[r] \in Busy
        /\ UNCHANGED <<users, member, seat, grants>>
    BY <1>7, BusyRequests DEF Abort, Missed
  <2> QED
    BY <2>1, BusyFields
<1>8. CASE UNCHANGED vars
  BY <1>0, <1>8 DEF vars
<1>9. ASSUME NEW u \in Emails, NEW role \in RoleNames, NEW c \in Clubs,
             AssignRole(u, role, c) \/ RemoveRole(u, role, c)
      PROVE  Tables
  BY <1>3, <1>4, <1>9 DEF AssignRole, RemoveRole
<1> QED
  BY <1>1, <1>2, <1>5, <1>6, <1>7, <1>8, <1>9 DEF Next, Administer

-------------------------------------------------------------------------------
(* Who is linked may enter. *)

Pending(u, c) ==
    \E r \in Requests :
        rq[r].at = "roles" /\ NewUser \in rq[r].add /\ rq[r].user = u /\ rq[r].club = c

Entitled(u, c) == NewUser \in RolesOf(u, c) \/ <<u, c>> \in withheld \/ Pending(u, c)

LEMMA LinkedAreEntitled ==
  LinkedMayEnter <=> \A m \in Members : member[m].user # NULL => Entitled(member[m].user, ClubOf[m])
  BY DEF LinkedMayEnter, Entitled, Pending

\* A request that was to add the role has it still to add, or it is withheld.
LEMMA EntitledByOthers ==
  ASSUME Inv, NEW r \in Requests, NEW q, Become(r, q), NEW u, NEW c, Entitled(u, c),
         grants' = grants, withheld \subseteq withheld',
         rq[r].at = "roles" /\ NewUser \in rq[r].add /\ rq[r].user = u /\ rq[r].club = c =>
            \/ <<u, c>> \in withheld'
            \/ q.at = "roles" /\ NewUser \in q.add /\ q.user = u /\ q.club = c
  PROVE  Entitled(u, c)'
<1>1. rq'[r] = q /\ \A x \in Requests : x # r => rq'[x] = rq[x]
  BY DEF Become, Inv, TypeOK
<1>2. RolesOf(u, c)' = RolesOf(u, c)
  BY DEF RolesOf
<1>3. CASE <<u, c>> \in withheld' \/ NewUser \in RolesOf(u, c)
  BY <1>2, <1>3 DEF Entitled
<1>4. CASE <<u, c>> \notin withheld' /\ NewUser \notin RolesOf(u, c)
  <2>1. PICK x \in Requests :
          rq[x].at = "roles" /\ NewUser \in rq[x].add /\ rq[x].user = u /\ rq[x].club = c
    BY <1>4 DEF Entitled, Pending
  <2>2. rq'[x].at = "roles" /\ NewUser \in rq'[x].add /\ rq'[x].user = u /\ rq'[x].club = c
    BY <1>1, <1>4, <2>1
  <2> QED
    BY <2>2 DEF Entitled, Pending
<1> QED
  BY <1>3, <1>4

\* One role is granted or removed, and one request may put down that it did so.
LEMMA EntitledThroughChange ==
  ASSUME Inv, NEW v \in Emails, NEW role \in RoleNames, NEW d \in Clubs,
         Granted(v, role, d) \/ Removed(v, role, d),
         NEW u, NEW c, Entitled(u, c),
         \A x \in Requests :
            \/ rq'[x] = Noticed(v, role, d)[x]
            \/ /\ rq[x].user = v /\ rq[x].club = d
               /\ rq'[x].at = "roles" /\ rq'[x].user = v /\ rq'[x].club = d
               /\ rq[x].add \ {role} \subseteq rq'[x].add
  PROVE  Entitled(u, c)'
<1>1. grants' \in {AddUserRole(v, role, d), RemoveUserRole(v, role, d)}
  BY DEF Granted, Removed
<1>2. CASE <<u, c>> = <<v, d>> /\ role = NewUser
  <2>1. CASE Granted(v, role, d)
    <3>1. NewUser \in RolesOf(v, d)'
      BY <1>2, <2>1, OneRole DEF Granted
    <3>2. u = v /\ c = d
      BY <1>2
    <3> QED
      BY <3>1, <3>2 DEF Entitled, RolesOf
  <2>2. CASE Removed(v, role, d)
    <3>1. <<v, d>> \in withheld'
      BY <1>2, <2>2 DEF Removed
    <3>2. <<u, c>> \in withheld'
      BY <1>2, <3>1
    <3> QED
      BY <3>2 DEF Entitled
  <2> QED
    BY <2>1, <2>2
<1>3. CASE ~(<<u, c>> = <<v, d>> /\ role = NewUser)
  <2>1. NewUser \in RolesOf(u, c)' <=> NewUser \in RolesOf(u, c)
    <3>1. /\ <<u, c>> # <<v, d>> => RolesOf(u, c)' = RolesOf(u, c)
          /\ NewUser # role => (NewUser \in RolesOf(u, c)' <=> NewUser \in RolesOf(u, c))
      BY ONLY <1>1, OneRole
    <3> QED
      BY ONLY <1>3, <3>1
  <2>2. <<u, c>> \in withheld => <<u, c>> \in withheld'
    <3>1. /\ Granted(v, role, d) => withheld' = IF role = NewUser THEN withheld \ {<<v, d>>}
                                                              ELSE withheld
          /\ Removed(v, role, d) => withheld' = IF role = NewUser THEN withheld \cup {<<v, d>>}
                                                              ELSE withheld
      BY DEF Granted, Removed
    <3> QED
      BY <1>3, <3>1
  <2>3. Pending(u, c) => Pending(u, c)'
    <3>1. SUFFICES ASSUME NEW x \in Requests, rq[x].at = "roles", NewUser \in rq[x].add,
                          rq[x].user = u, rq[x].club = c
                   PROVE  /\ rq'[x].at = "roles" /\ NewUser \in rq'[x].add
                          /\ rq'[x].user = u /\ rq'[x].club = c
      BY DEF Pending
    <3>2. CASE rq'[x] = Noticed(v, role, d)[x]
      BY <3>1, <3>2, NoticedFields
    <3>3. CASE /\ rq[x].user = v /\ rq[x].club = d
               /\ rq'[x].at = "roles" /\ rq'[x].user = v /\ rq'[x].club = d
               /\ rq[x].add \ {role} \subseteq rq'[x].add
      <4>1. role # NewUser
        BY <1>3, <3>1, <3>3
      <4> QED
        BY <3>1, <3>3, <4>1
    <3> QED
      BY <3>2, <3>3
  <2> QED
    BY <2>1, <2>2, <2>3 DEF Entitled
<1> QED
  BY <1>2, <1>3

LEMMA EntitledUnchanged ==
  ASSUME NEW u, NEW c, Entitled(u, c), UNCHANGED <<grants, withheld, rq>>
  PROVE  Entitled(u, c)'
  BY DEF Entitled, Pending, RolesOf

LEMMA StepEntitled ==
  ASSUME Inv, [Next]_vars, NEW u, NEW c, Entitled(u, c)
  PROVE  Entitled(u, c)'
<1>1. ASSUME NEW m \in Members, DeleteSeat(m) \/ DeleteMember(m) PROVE Entitled(u, c)'
  BY <1>1, EntitledUnchanged DEF DeleteSeat, DeleteMember
<1>2. ASSUME NEW v \in Emails, NEW role \in RoleNames, NEW d \in Clubs,
             AssignRole(v, role, d) \/ RemoveRole(v, role, d)
      PROVE  Entitled(u, c)'
  <2>1. \A x \in Requests : rq'[x] = Noticed(v, role, d)[x]
    BY <1>2 DEF AssignRole, RemoveRole
  <2>2. Granted(v, role, d) \/ Removed(v, role, d)
    BY <1>2 DEF AssignRole, RemoveRole
  <2> QED
    BY <2>1, <2>2, EntitledThroughChange
<1>3. ASSUME NEW r \in Requests, NEW q, Become(r, q), rq[r].at # "roles" \/ rq[r].add = {},
             grants' = grants, withheld' = withheld
      PROVE  Entitled(u, c)'
  BY <1>3, EntitledByOthers
<1>4. ASSUME NEW r \in Requests, Start(r) PROVE Entitled(u, c)'
  BY <1>3, <1>4 DEF Start, Register, Invite, AddToBoard, UpdateBoard
<1>5. ASSUME NEW r \in Requests, Continue(r) PROVE Entitled(u, c)'
  <2>1. CASE FindUser(r) \/ CreateUser(r) \/ CreateUserRefused(r) \/ Link(r) \/ LinkRefused(r)
             \/ TakeSeat(r) \/ SeatRefused(r)
    BY <1>3, <2>1 DEF FindUser, CreateUser, CreateUserRefused, Link, LinkRefused, TakeSeat,
                      SeatRefused, Proceed
  <2>2. CASE ReadRoles(r) \/ ReadRolesFails(r) \/ Finish(r)
    BY <1>3, <2>2 DEF ReadRoles, ReadRolesFails, Finish, Done
  <2>3. ASSUME NEW role \in RoleNames, DropOne(r, role) PROVE Entitled(u, c)'
    <3>1. rq[r] \in Busy /\ rq[r].at = "roles" /\ rq[r].drop \ {role} \in SUBSET RoleNames
          /\ rq[r].add \in SUBSET RoleNames /\ rq[r].foreign \in SUBSET RoleNames
          /\ rq[r].user \in Emails /\ rq[r].club \in Clubs
      BY <2>3, BusyRequests, BusyFields DEF DropOne, Inv, Idle
    <3>2. PICK q : q = [rq[r] EXCEPT !.drop = rq[r].drop \ {role}]
      OBVIOUS
    <3>3. q = With(rq[r], rq[r].at, rq[r].drop \ {role}, rq[r].add, rq[r].foreign)
      BY <3>1, <3>2, Updated
    <3>4. q.at = "roles" /\ q.user = rq[r].user /\ q.club = rq[r].club /\ q.add = rq[r].add
      BY <3>1, <3>3, WithFields DEF Stages
    <3>5. rq' = [Noticed(rq[r].user, role, rq[r].club) EXCEPT ![r] = q]
          /\ Removed(rq[r].user, role, rq[r].club)
      BY <2>3, <3>2 DEF DropOne
    <3>6. \A x \in Requests : \/ x # r /\ rq'[x] = Noticed(rq[r].user, role, rq[r].club)[x]
                              \/ x = r /\ rq'[x] = q
      BY <3>5 DEF Noticed
    <3> QED
      BY <3>1, <3>4, <3>5, <3>6, EntitledThroughChange
  <2>4. ASSUME NEW role \in RoleNames, AddOne(r, role) PROVE Entitled(u, c)'
    <3>1. rq[r] \in Busy /\ rq[r].at = "roles" /\ rq[r].add \ {role} \in SUBSET RoleNames
          /\ rq[r].drop \in SUBSET RoleNames /\ rq[r].foreign \in SUBSET RoleNames
          /\ rq[r].user \in Emails /\ rq[r].club \in Clubs
      BY <2>4, BusyRequests, BusyFields DEF AddOne, Inv, Idle
    <3>2. PICK q : q = [rq[r] EXCEPT !.add = rq[r].add \ {role}]
      OBVIOUS
    <3>3. q = With(rq[r], rq[r].at, rq[r].drop, rq[r].add \ {role}, rq[r].foreign)
      BY <3>1, <3>2, Updated
    <3>4. q.at = "roles" /\ q.user = rq[r].user /\ q.club = rq[r].club /\ q.add = rq[r].add \ {role}
      BY <3>1, <3>3, WithFields DEF Stages
    <3>5. rq' = [Noticed(rq[r].user, role, rq[r].club) EXCEPT ![r] = q]
          /\ Granted(rq[r].user, role, rq[r].club)
      BY <2>4, <3>2 DEF AddOne
    <3>6. \A x \in Requests : \/ x # r /\ rq'[x] = Noticed(rq[r].user, role, rq[r].club)[x]
                              \/ x = r /\ rq'[x] = q
      BY <3>5 DEF Noticed
    <3> QED
      BY <3>1, <3>4, <3>5, <3>6, EntitledThroughChange
  <2>5. ASSUME NEW role \in RoleNames, SkipOne(r, role) PROVE Entitled(u, c)'
    <3>1. PICK q0, d, w, f : /\ q0 = rq[r] /\ d = rq[r].drop \ {role} /\ w = rq[r].add \ {role}
                             /\ f = rq[r].foreign \cup {role}
      OBVIOUS
    <3>2. /\ q0 \in Busy /\ q0.at = "roles" /\ d \in SUBSET RoleNames /\ w \in SUBSET RoleNames
          /\ f \in SUBSET RoleNames /\ q0.drop \in SUBSET RoleNames /\ q0.add \in SUBSET RoleNames
      BY <2>5, <3>1, BusyRequests, BusyFields DEF SkipOne, Inv, Idle
    <3>3. CASE Become(r, [q0 EXCEPT !.drop = d, !.foreign = f]) /\ UNCHANGED <<withheld, grants>>
      <4>1. PICK q : q = [q0 EXCEPT !.drop = d, !.foreign = f]
        OBVIOUS
      <4>2. q = With(q0, q0.at, d, q0.add, f)
        <5>1. \A y \in SUBSET RoleNames, z \in SUBSET RoleNames :
                [q0 EXCEPT !.drop = y, !.foreign = z]
                  = With(q0, q0.at, y, q0.add, z)
          BY <3>2, UpdatedTwice
        <5> QED
          BY <3>2, <4>1, <5>1
      <4>3. q.at = "roles" /\ q.user = q0.user /\ q.club = q0.club /\ q.add = q0.add
        BY <3>2, <4>2, WithFields DEF Stages
      <4>4. rq[r].at = "roles" /\ NewUser \in rq[r].add /\ rq[r].user = u /\ rq[r].club = c =>
              q.at = "roles" /\ NewUser \in q.add /\ q.user = u /\ q.club = c
        BY <3>1, <4>3
      <4>5. Become(r, q) /\ grants' = grants /\ withheld \subseteq withheld'
        BY <3>3, <4>1
      <4> QED
        BY <4>4, <4>5, EntitledByOthers
    <3>4. CASE /\ Become(r, [q0 EXCEPT !.add = w, !.foreign = f]) /\ grants' = grants
               /\ withheld' = IF role = NewUser THEN Missed(r) ELSE withheld
      <4>1. PICK q : q = [q0 EXCEPT !.add = w, !.foreign = f]
        OBVIOUS
      <4>2. q = With(q0, q0.at, q0.drop, w, f)
        <5>1. \A y \in SUBSET RoleNames, z \in SUBSET RoleNames :
                [q0 EXCEPT !.add = y, !.foreign = z]
                  = With(q0, q0.at, q0.drop, y, z)
          BY <3>2, UpdatedTwice
        <5> QED
          BY <3>2, <4>1, <5>1
      <4>3. q.at = "roles" /\ q.user = q0.user /\ q.club = q0.club /\ q.add = w
        BY <3>2, <4>2, WithFields DEF Stages
      <4>4. withheld \subseteq withheld'
            /\ (role = NewUser /\ NewUser \in q0.add => <<q0.user, q0.club>> \in withheld')
        BY <3>1, <3>2, <3>4 DEF Missed
      <4>5. rq[r].at = "roles" /\ NewUser \in rq[r].add /\ rq[r].user = u /\ rq[r].club = c =>
              \/ <<u, c>> \in withheld'
              \/ q.at = "roles" /\ NewUser \in q.add /\ q.user = u /\ q.club = c
        <5>1. CASE role = NewUser
          BY <3>1, <4>4, <5>1
        <5>2. CASE role # NewUser
          BY <3>1, <4>3, <5>2
        <5> QED
          BY <5>1, <5>2
      <4>6. Become(r, q) /\ grants' = grants /\ withheld \subseteq withheld'
        BY <3>4, <4>1, <4>4
      <4> QED
        BY <4>5, <4>6, EntitledByOthers
    <3> QED
      BY <2>5, <3>1, <3>3, <3>4 DEF SkipOne
  <2> QED
    BY <1>5, <2>1, <2>2, <2>3, <2>4, <2>5 DEF Continue
<1>6. ASSUME NEW r \in Requests, Abort(r) PROVE Entitled(u, c)'
  <2>1. withheld \subseteq withheld'
        /\ (rq[r].at = "roles" /\ NewUser \in rq[r].add => <<rq[r].user, rq[r].club>> \in withheld')
    BY <1>6 DEF Abort, Missed
  <2> QED
    BY <1>6, <2>1, EntitledByOthers DEF Abort
<1>7. CASE UNCHANGED vars
  BY <1>7, EntitledUnchanged DEF vars
<1> QED
  BY <1>1, <1>2, <1>4, <1>5, <1>6, <1>7 DEF Next, Administer

\* Only Link makes a link, and the request still has the minimal role to grant.
LEMMA NewLinks ==
  ASSUME Inv, [Next]_vars, NEW m \in Members, NEW u, u # NULL,
         member'[m].user = u, member[m].user # u
  PROVE  Entitled(u, ClubOf[m])'
<1>1. PICK r \in Requests : Link(r)
  <2>1. ASSUME NEW n \in Members, DeleteMember(n) PROVE FALSE
    BY <2>1 DEF DeleteMember, Inv, TypeOK
  <2>2. member' # member
    OBVIOUS
  <2> QED
    BY <2>1, <2>2 DEF Next, vars, Administer, Start, Continue, DeleteSeat, AssignRole, RemoveRole,
       Register, Invite, AddToBoard, UpdateBoard, FindUser, CreateUser, CreateUserRefused,
       LinkRefused, TakeSeat, SeatRefused, ReadRoles, ReadRolesFails, DropOne, AddOne, SkipOne,
       Finish, Abort
<1>2. rq[r] \in Busy /\ rq[r].at = "link" /\ Fresh(rq[r])
  BY <1>1, BusyRequests DEF Link, Inv, RequestsOK, Idle
<1>3. /\ rq[r].member \in Members /\ rq[r].kind = "invite"
      /\ rq[r].add = {NewUser} /\ rq[r].club = ClubOf[rq[r].member]
  BY <1>2 DEF Fresh, Stages
<1>4. m = rq[r].member /\ member'[m].user = rq[r].user
  BY <1>1, <1>3 DEF Link, UserOf, Inv, TypeOK
<1>5. rq'[r] = [rq[r] EXCEPT !.at = "roles"]
  BY <1>1 DEF Link, Proceed, Become, Inv, TypeOK
<1>6. rq'[r] = With(rq[r], "roles", rq[r].drop, rq[r].add, rq[r].foreign)
  BY <1>2, <1>5, Updated DEF Stages
<1>7. /\ rq'[r].at = "roles" /\ rq'[r].add = rq[r].add
      /\ rq'[r].user = rq[r].user /\ rq'[r].club = rq[r].club
  BY <1>2, <1>6, WithFields, BusyFields DEF Stages
<1>8. /\ rq'[r].at = "roles" /\ NewUser \in rq'[r].add
      /\ rq'[r].user = u /\ rq'[r].club = ClubOf[m]
  BY <1>3, <1>4, <1>7
<1> QED
  BY <1>8 DEF Entitled, Pending

LEMMA NextLinked ==
  ASSUME Inv, [Next]_vars
  PROVE  LinkedMayEnter'
<1>1. ASSUME NEW m \in Members, NEW u, u # NULL, member'[m].user = u
      PROVE  Entitled(u, ClubOf[m])'
  <2>1. CASE member[m].user = u
    <3>1. Entitled(u, ClubOf[m])
      BY <1>1, <2>1, LinkedAreEntitled DEF Inv
    <3> QED
      BY <3>1, StepEntitled
  <2>2. CASE member[m].user # u
    BY <1>1, <2>2, NewLinks
  <2> QED
    BY <2>1, <2>2
<1> QED
  BY <1>1 DEF LinkedMayEnter, Entitled, Pending, RolesOf

-------------------------------------------------------------------------------
LEMMA InitInv == Init => Inv
<1> SUFFICES ASSUME Init PROVE Inv
  OBVIOUS
<1>1. TypeOK
  BY IdleOK DEF Init, TypeOK
<1>2. RequestsOK
  BY IdleOK DEF Init, RequestsOK
<1>3. ReferencesHold /\ LinkedMayEnter
  BY DEF Init, ReferencesHold, LinkedMayEnter
<1> QED
  BY <1>1, <1>2, <1>3 DEF Inv

\* The inductive invariant; the theorems after it are read off it.
THEOREM Invariance == Spec => []Inv
<1>1. Inv /\ [Next]_vars => Inv'
  <2>1. SUFFICES ASSUME Inv, [Next]_vars PROVE Inv'
    OBVIOUS
  <2>2. TypeOK'
    BY <2>1, NextRequests, NextTables DEF TypeOK
  <2>3. RequestsOK' /\ ReferencesHold' /\ LinkedMayEnter'
    BY <2>1, NextRequests, NextTables, NextLinked
  <2> QED
    BY <2>2, <2>3 DEF Inv
<1> QED
  BY <1>1, InitInv, PTL DEF Spec

\* Every column and every request has its type (handlers of users, invitations
\* and boards, whatever they interleave with).
THEOREM TypeCorrect == Spec => []TypeOK
<1>1. Inv => TypeOK
  BY DEF Inv
<1> QED
  BY <1>1, Invariance, PTL

\* Seats, links and roles refer to members and accounts that exist
\* (board_handler.go:130-179, invite_handler.go:70-133).
THEOREM ReferencesAreSafe == Spec => []ReferencesHold
<1>1. Inv => ReferencesHold
  BY DEF Inv
<1> QED
  BY <1>1, Invariance, PTL

\* A member with an account may enter the club (invite_handler.go:114-133).
THEOREM LinkedEnter == Spec => []LinkedMayEnter
<1>1. Inv => LinkedMayEnter
  BY DEF Inv
<1> QED
  BY <1>1, Invariance, PTL

\* A request that is done has its roles, and a replacement left no other
\* (board_handler.go:185-200, 258-298).
THEOREM RolesComeAsAsked == Spec => []RolesAsAsked
<1>1. Inv => RolesAsAsked
  <2>1. SUFFICES ASSUME Inv, NEW r \in Requests, Done(r)
                 PROVE  /\ rq[r].wanted \ rq[r].foreign \subseteq RolesOf(rq[r].user, rq[r].club)
                        /\ rq[r].kind = "update" =>
                             RolesOf(rq[r].user, rq[r].club) \ rq[r].foreign \subseteq rq[r].wanted
    BY DEF RolesAsAsked
  <2>2. UnderWay(rq[r]) /\ rq[r].at = "roles" /\ rq[r].drop = {} /\ rq[r].add = {}
    BY <2>1 DEF Inv, RequestsOK, Done
  <2> QED
    BY <2>2 DEF UnderWay
<1> QED
  BY <1>1, Invariance, PTL
===============================================================================
