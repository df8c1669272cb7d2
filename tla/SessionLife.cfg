CONSTANTS
    SessionTTL = 6
    RevalidateInterval = 3
    RevalidateTransportBackoff = 2
    ReresolveOnRevalidate = TRUE
    RetainTokens = TRUE
    NoToken = NoToken
    Tokens = {rt}
    NoSession = NoSession
    SessionSyncEnabled = TRUE
    AnswerAge = 1
    Start = 4
    MaxTime = 12
SPECIFICATION Spec
INVARIANTS TypeOK LifeBound FloorHolds GrantPaced ResolverPaced ResolvedLifeBound AuthTimeEvidenced
