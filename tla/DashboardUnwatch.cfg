CONSTANTS
    All = all
    ServiceKeys = {auth}
    Channels = {c1}
    NoChannel = nochannel
    NoWatch = nowatch
    Loop = loop
    Commands = {w1}
    EnvEnabled = FALSE
    EnvChannel = nochannel
    MaxMessages = 3
    MaxCommands = 2
    MaxFaults = 0
SPECIFICATION Spec
INVARIANTS
    UnwatchedStays
CHECK_DEADLOCK FALSE
