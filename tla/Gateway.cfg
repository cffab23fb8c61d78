CONSTANTS
    kl = kl
    km = km
    kr = kr
    t1 = t1
    t2 = t2
    s1 = s1
    report = report
    r1 = r1
    r2 = r2
    w1 = w1
    Keys = {kl, km, kr}
    Kinds = {"login", "refresh", "logout"}
    limitOf <- MClimitOf
    Rows = {1, 2}
    Slots = {1, 2}
    bucketIndexes <- MCbucketIndexes
    IntMax = 2
    MaxMinute = 1
    Requests = {r1, r2}
    Webhooks = {w1}
    Infos <- MCInfos
    Services = {report}
    Tokens = {t1, t2}
    Subjects = {s1}
    SubjectOf <- MCSubjectOf
    Nothing = nothing
    Ttl = 2
    MaxTime = 2
    MaxArrivals = 3
    MaxFaults = 1
SPECIFICATION Spec
SYMMETRY Symmetry
INVARIANTS TypeOK AllowedWithinLimit DisabledIsRefused EntriesAreFound
PROPERTY RefusedOnlyIfBusy
CHECK_DEADLOCK FALSE
