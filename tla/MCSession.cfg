SPECIFICATION Spec
CONSTANTS
    Layers = {"tls", "ws"}
    Auths = {TRUE, FALSE}
    Subs = {"s1"}
    Unsubs = {"u1"}
    Topic <- TopicDef
    Props = {"p", "q"}
    LateFaults = {"timeout", "network", "auth"}
INVARIANTS
    SubscriptionsBacked
    LimitsAgreed
    ExpiredOnlyIfLost
PROPERTIES
    EveryAttemptEnds
