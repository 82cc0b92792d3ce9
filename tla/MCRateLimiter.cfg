SPECIFICATION FairSpec
CONSTANTS
    Callers = {c1, c2, c3}
    Burst = 1
    QueueCapacity = 2
    MaxTicks = 2
INVARIANTS TypeOK RateBound DepthExact
PROPERTY CallsReturn
