SPECIFICATION LimiterSpec
CONSTANTS
    Calls = {c1, c2, c3, c4}
    Limits <- MCOneLimit
    ShortestWindow = 3
    LargestMax = 1
    MaxDelay = 1
    MaxTime = 7
INVARIANTS
    DeniedForAdmitted
CHECK_DEADLOCK FALSE
