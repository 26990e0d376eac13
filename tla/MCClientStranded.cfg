SPECIFICATION Spec
CONSTANTS
    Radix = 4
    MaxPayloadSize = 2
    Configs <- MCStranded
    DialTimeout = 1
    Deadline = 1
    IdleWindow = 1
    Base = 1
    Max = 1
    MaxDuration = 3
    Cuts <- MCCuts
    MaxCommands = 3
INVARIANT
    SessionReconnects
CHECK_DEADLOCK FALSE
