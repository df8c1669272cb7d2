CONSTANTS
    Flows = {f1, f2}
    FlowKinds = {"login", "sync"}
    Users = {u1, u2}
    None = None
    OIDCCookieMaxAge = 2
    AuthTimeSkew = 0
    StepUpMaxAge = 0
    RejectSameSiteCallback = FALSE
    CookieHostPrefix = FALSE
    Shadows = {{}}
    MaxSSO = 2
    MaxTime = 3
SPECIFICATION Spec
SYMMETRY Symmetry
INVARIANTS MarkerSeparates
CHECK_DEADLOCK FALSE
