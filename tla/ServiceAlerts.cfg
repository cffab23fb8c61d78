CONSTANTS
    gw = gw
    au = au
    old = old
    Incidents = {gw, au, old}
    Legacy = {old}
    Critical = {gw}
    Services = {"gateway", "auth"}
    Source <- MCSource
    Domain <- MCSource
    Unmapped = "unmapped"
    Queryable = {"gateway", "auth"}
    EnvEnabled = FALSE
    EnvRoutes = {}
    Cooldown = 2
    MaxRows = 2
    MaxFaults = 1
SPECIFICATION FairSpec
INVARIANTS
    TypeOK
    RecordMatchesNotices
PROPERTIES
    CooldownRespected
    ResolvedOnlyIfLookedFor
    KeepsPromise
    PersistentIncidentsAlert
    GoneIncidentsResolve
