SPECIFICATION DelaySpec
CONSTANTS
    Width = 10
    OneSecond = 12
    FiveMinutes = 80
    Millisecond = 4
    BaseMS <- SomeBaseMS
    MaxMS <- SomeMaxMS
    MaxAttempt = 14
INVARIANTS DelayInBounds DelayExact
CHECK_DEADLOCK FALSE
