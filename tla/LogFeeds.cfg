CONSTANTS
    Feeds = {errors}
    ByLatency = {}
    Latency <- MCLatency
    OwnLimit = {errors}
    Channels = {c1, c2}
    NoChannel = nochannel
    NoFeed = nofeed
    Limits = {1, 2}
    DefaultLimit = 1
    Shown = 1
    Fits = {0, 1}
    Budget = 2
    Commands = {w1}
    NoCommand = nocommand
    NoJob = nojob
    MaxRows = 2
    MaxCommands = 2
    MaxFaults = 2
SPECIFICATION FairSpec
INVARIANTS
    TypeOK
    NothingSwallowed
    ServedAsAsked
PROPERTIES
    NoRowTwice
    OnlyNewRows
    FoundRowsDelivered
CHECK_DEADLOCK FALSE
