CONSTANTS
    Tabs = {t1, t2}
    Visible = {t1}
    MaxSilent = 2
    MaxSessions = 2
    MaxLate = 1
SPECIFICATION FairSpec
INVARIANTS TypeOK NoIdleReload ClosingVerdictHeard
PROPERTIES BlockedReported
CHECK_DEADLOCK FALSE
