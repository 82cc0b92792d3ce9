SPECIFICATION FairSpec
CONSTANTS
    Ids = {i1, i2}
    Payloads = {p1}
    MaxRetries = 3
    MaxDiskFaults = 0
    Width = 8
    OneSecond = 1
    FiveMinutes = 4
    BatchSize = 1
    BaseDelay = 1
    MaxDelay = 2
    Jitter = 1
    AdminBaseDelay = 1
    AdminMaxDelay = 2
    MaxCommands = 1
    MaxCrashes = 1
PROPERTIES Settles WaitFollowsAttempts
