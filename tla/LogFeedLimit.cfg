CONSTANTS
    Feeds = {recent}
    ByLatency = {}
    Latency <- MCLatency
    OwnLimit = {}
    Channels = {c1}
    NoChannel = nochannel
    NoFeed = nofeed
    Limits = {2}
    DefaultLimit = 2
    Shown = 1
    Fits = {2}
    Budget = 2
    Commands = {w1}
    NoCommand = nocommand
    NoJob = nojob
    MaxRows = 2
    MaxCommands = 1
    MaxFaults = 0
SPECIFICATION Spec
INVARIANT NewRowsShown
CHECK_DEADLOCK FALSE
