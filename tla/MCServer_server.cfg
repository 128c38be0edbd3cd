\* Deployments, crashes and restarts of the server, its limiter and its tokens.
SPECIFICATION FairSpec
CONSTANTS
    old = old
    new = new
    r1 = r1
    Instances = {old, new}
    Knows <- Images
    Addresses = {a1}
    Limit = 2
    Window = 1
    Clubs = {c1}
    RoleNames = {admin, writer}
    Admin = admin
    Permitting = {writer}
    Requests = {r1}
    RunsOn <- AtNew
    Life = 2
    MaxFaults = 2
    MaxCount = 3
    MaxTokens = 2
    MaxTime = 5
    Plans <- AllPlans
CHECK_DEADLOCK FALSE
INVARIANTS AppliedOnceInOrder ServesMigrated AtMostTwoWindows RefusalsDeserved ClaimsFade BlockOutlasts
PROPERTIES EventuallyServes
