SPECIFICATION BreakerSpec
CONSTANTS
    Callers = {c1, c2, c3, c4}
    FailureThreshold = 2
    RecoveryTimeout = 2
    HalfOpenLimit = 2
INVARIANT HalfOpenAdmits
