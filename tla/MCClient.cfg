SPECIFICATION FairSpec
CONSTANTS
    Radix = 4
    MaxPayloadSize = 2
    Configs <- MCConfigs
    DialTimeout = 1
    Deadline = 1
    IdleWindow = 1
    Base = 1
    Max = 1
    MaxDuration = 3
    Cuts <- MCCuts
    MaxCommands = 3
INVARIANTS
    TypeOK
    RunsBounded
    SuccessIsAnswer
    NoSocketLeak
    BoundedByTimeout
    BackoffWithinMax
    HttpHeals
    RefusedNotRun
PROPERTY
    CallReturns
CHECK_DEADLOCK FALSE
