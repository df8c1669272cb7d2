CONSTANTS
    Flows = {f1, f2}
    FlowKinds = {"login", "stepup", "sync"}
    Users = {u1, u2}
    None = None
    OIDCCookieMaxAge = 2
    AuthTimeSkew = 0
    StepUpMaxAge = 0
    RejectSameSiteCallback = TRUE
    CookieHostPrefix = FALSE
    Shadows = {{}, {"state"}, {"pkce"}, {"max_age"}, {"sync"}}
    MaxSSO = 2
    MaxTime = 3
SPECIFICATION Spec
SYMMETRY Symmetry
INVARIANTS StepUpHonoured LoginLostHasCause SoleCookiesDecide SyncEndsOnEvidence
CHECK_DEADLOCK FALSE
