SPECIFICATION Spec
CONSTANTS
    Ids = {i1, i2}
    Payloads = {p1, p2}
    MaxRetries = 2
    MaxDiskFaults = 1
    Width = 8
    OneSecond = 1
    FiveMinutes = 4
    BatchSize = 2
    BaseDelay = 1
    MaxDelay = 2
    Jitter = 1
    AdminBaseDelay = 1
    AdminMaxDelay = 2
    MaxCommands = 1
    MaxCrashes = 1
SYMMETRY Symmetry
INVARIANTS TypeOK AckedDurable VerdictsEarned UniqueActive DeliveryBound RetryBudget
PROPERTIES DurablySettled ImplementsLedger
