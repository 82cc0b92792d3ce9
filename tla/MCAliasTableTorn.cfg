SPECIFICATION Spec
CONSTANTS
    Names = {n1, n2}
    Targets = {t1}
    Malformed = {}
    MaxCrashes = 1
    MaxFaults = 0
INVARIANT SavedSurvives
