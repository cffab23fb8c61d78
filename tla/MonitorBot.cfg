CONSTANTS
    i1 = i1  i2 = i2  poll = poll
    handlerClient = handlerClient  monitorClient = monitorClient
    Interactions <- MCInteractions
    Callers <- MCCallers
    Limited <- MCInteractions
    Poll <- poll
    Clients <- MCClients
    ClientOf <- MCClientOf
    Nobody = Nobody
    Codes <- MCCodes
    BaseURLs = {TRUE}
    AuthURLs = {TRUE}
    MaxIssued = 2
    MaxFaults = 1
    MaxCourses = 1
    Requests <- MCRequests
    Configs <- MCConfigs
SPECIFICATION Spec
INVARIANTS TypeOK HealthyMeansUsable MutexHeldByRefresh HoldsLiveToken
           ExpiryIsHidden
PROPERTY UsesClient
CHECK_DEADLOCK FALSE
