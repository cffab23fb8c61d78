SPECIFICATION Spec
INVARIANTS
    AlertsAreQueried
