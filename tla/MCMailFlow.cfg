SPECIFICATION Spec
CONSTANTS
    Ids = {i1, i2}
    Payloads = {g, d}
    Group = g
    Direct = d
    GroupSize = 2
    MaxSendRetries = 1
    MaxSubmissions = 2
    MaxEvents = 2
    MaxRetries = 2
    MaxDiskFaults = 0
    Width = 8
    OneSecond = 1
    FiveMinutes = 4
    BatchSize = 1
    BaseDelay = 1
    MaxDelay = 1
    Jitter = 1
SYMMETRY Symmetry
INVARIANTS Responsible CopiesAccounted
CHECK_DEADLOCK FALSE
