CONSTANTS
    SessionTTL = 8
    RevalidateInterval = 2
    RevalidateTransportBackoff = 1
    ReresolveOnRevalidate = TRUE
    RetainTokens = TRUE
    NoToken = NoToken
    Requests = {r1, r2, r3}
    Replicas = {n1}
    NoSession = NoSession
    Keep = Keep
    Abandoned = Abandoned
    NoAnswer = NoAnswer
    RevalidateFlightRetention = 3
    RevalidateSharedTimeout = 1
    RotateRefreshTokens = FALSE
    Faults = {"update", "bare"}
    Transit = 2
    MaxToken = 1
    Start = 3
    MaxTime = 12
SPECIFICATION Spec
SYMMETRY Symmetry
INVARIANTS SignOutReaches AnsweredOnce AnswerFresh
CHECK_DEADLOCK FALSE
