CONSTANTS
    r = r
    Assignments = {a}
    Variants <- MCVariants
    Absent = absent
    StaleGrace = 1
    CountBudget = 1
    Cooldown = 2
    Interval = 1
    Slack = 2
    MinWindow = 1
    MaxWindow = 3
    RowLimit = 2
    TraceOf <- MCTraceOf
    NoTrace = notrace
    MaxDelay = 1
    MaxTime = 4
    MaxChanges = 1
    MaxFaults = 2
SPECIFICATION Spec
INVARIANTS
    TypeOK
    AuditPostedOnce
    AuditEventsDelivered
PROPERTIES
    ChangesSentOnce
    CooldownBetweenChanges
CHECK_DEADLOCK FALSE
