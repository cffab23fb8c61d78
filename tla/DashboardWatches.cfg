CONSTANTS
    All = all
    ServiceKeys = {auth}
    Channels = {c1, c2}
    NoChannel = nochannel
    NoWatch = nowatch
    Loop = loop
    Commands = {w1}
    EnvEnabled = FALSE
    EnvChannel = nochannel
    MaxMessages = 3
    MaxCommands = 3
    MaxFaults = 2
SPECIFICATION Spec
SYMMETRY Symmetry
INVARIANTS
    TypeOK
    LegacyMirrorsAll
    UnracedOrdersObeyed
PROPERTIES
    ForgottenStaysForgotten
CHECK_DEADLOCK FALSE
