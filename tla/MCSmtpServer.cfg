SPECIFICATION FairSpec
CONSTANTS
    Conns = {c1, c2, c3}
    MaxSessions = 2
    Addrs = {a, b, x}
    LocalAddrs = {a, b}
    MaxRcpts = 2
    MaxLines = 3
INVARIANTS TypeOK SlotsExact ReplyHonest LocalOnly
PROPERTY Stops
