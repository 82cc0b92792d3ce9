SPECIFICATION Spec
CONSTANTS
    Names = {n1, n2}
    Targets = {t1, t2}
    Malformed = {t2}
    MaxCrashes = 2
    MaxFaults = 2
INVARIANTS TypeOK FileCurrent Parses
