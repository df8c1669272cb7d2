CONSTANTS
    SessionTTL = 14
    RevalidateInterval = 7
    RevalidateTransportBackoff = 6
    ReresolveOnRevalidate = TRUE
    RetainTokens = TRUE
    NoToken = NoToken
    Requests = {r1, r2, r3}
    Replicas = {n1}
    NoSession = NoSession
    Keep = Keep
    Abandoned = Abandoned
    NoAnswer = NoAnswer
    RevalidateFlightRetention = 3
    RevalidateSharedTimeout = 1
    RotateRefreshTokens = TRUE
    Faults = {}
    Transit = 1
    MaxToken = 3
    Start = 8
    MaxTime = 17
SPECIFICATION Spec
SYMMETRY Symmetry
INVARIANTS RotationNotLost
CHECK_DEADLOCK FALSE
