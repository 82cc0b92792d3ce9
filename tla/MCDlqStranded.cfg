SPECIFICATION FairSpec
CONSTANTS
    Ids = {i1}
    Payloads = {p1}
    MaxRetries = 2
    MaxDiskFaults = 1
    Width = 8
    OneSecond = 1
    FiveMinutes = 4
    BatchSize = 1
    BaseDelay = 1
    MaxDelay = 2
    Jitter = 1
    AdminBaseDelay = 1
    AdminMaxDelay = 2
    MaxCommands = 0
    MaxCrashes = 0
PROPERTY Settles
