CONSTANTS
    SessionTTL = 4
    RevalidateInterval = 2
    RevalidateTransportBackoff = 1
    ReresolveOnRevalidate = FALSE
    RetainTokens = TRUE
    NoToken = NoToken
    Requests = {r1, r2, r3}
    Replicas = {n1, n2}
    NoSession = NoSession
    Keep = Keep
    Abandoned = Abandoned
    NoAnswer = NoAnswer
    RevalidateFlightRetention = 1
    RevalidateSharedTimeout = 1
    RotateRefreshTokens = TRUE
    Faults = {"lost", "panic", "cancel", "update", "access", "restart"}
    Transit = 4
    MaxToken = 2
    Start = 3
    MaxTime = 5
SPECIFICATION Spec
SYMMETRY Symmetry
INVARIANTS SignOutHasCause
CHECK_DEADLOCK FALSE
