CONSTANTS
    All = all
    ServiceKeys = {}
    Channels = {c1, c2}
    NoChannel = nochannel
    NoWatch = nowatch
    Loop = loop
    Commands = {w1}
    EnvEnabled = TRUE
    EnvChannel = c1
    MaxMessages = 8
    MaxCommands = 2
    MaxFaults = 1
SPECIFICATION FairSpec
PROPERTIES
    WatchesConverge
CHECK_DEADLOCK FALSE
