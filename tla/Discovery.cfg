CONSTANTS
    Configs <- MCConfigs
    DefaultSessionTTL = 8
    DiscoveryRetryBudgetDefault = 12
    TicksPerSecond = 2
    DiscoveryRetryPerAttemptTimeout = 3
    DiscoveryRetryBaseDelay = 2
    DiscoveryRetryMaxDelay = 4
    DurationBits = 6
    Getters = {g1, g2}
    None = None
    Pending = Pending
    MaxAttempts = 9
SPECIFICATION FairSpec
INVARIANTS BudgetHeld GivesUpLate  NothingInert
PROPERTIES GetReturns HandleIsFuture
CHECK_DEADLOCK FALSE
