CONSTANTS
    SessionTTL = 3
    RevalidateInterval = 2
    RevalidateTransportBackoff = 1
    ReresolveOnRevalidate = TRUE
    RetainTokens = TRUE
    NoToken = NoToken
    Orgs = {o1, o2}
    NoOrg = NoOrg
    NoSession = NoSession
    NoLanding = NoLanding
    Landings <- MCLandings
    AllowEmptyMembership = FALSE
    RequireEmailVerified = TRUE
    RequireEmailDomain = "vaudience.ai"
    NoDomain = NoDomain
    StaffPolicy <- VAIStaffPolicy
    FirstClaims <- Staff
    LaterClaims <- NoLongerStaff
    SessionSyncEnabled = TRUE
    Start = 3
    MaxTime = 8
SPECIFICATION Spec
SYMMETRY Symmetry
INVARIANTS TenantVouched RemovalBounded OrglessExplained PickKept GateEndsSession StaffBounded
CHECK_DEADLOCK FALSE
