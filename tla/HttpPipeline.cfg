CONSTANTS
    r1 = r1
    r2 = r2
    Request = {r1, r2}
    FeatureSets = {{"cors", "cookies", "limiter", "health"}}
    Mount = {"sms"}
    Asked = {"health", "nowhere", "preflight", "badCookie", "sms", "editor", "guest"}
    Thrown = {"plain"}
    Reporters = 1
    Actor = {"editor", "guest"}
    Holds <- HoldsMC
    RoleMap <- RoleMapMC
    Needed <- NeededMC
SPECIFICATION FairSpec
INVARIANTS AnsweredOnce EnvelopeHasOwnId MountedIsReached GuardedRunsAsItself
PROPERTY EveryRequestEnds
