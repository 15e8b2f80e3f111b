SPECIFICATION GuardSpec
CONSTANTS
    Requests = {r1, r2, r3, r4}
    MaxConcurrent = 2
    MaxWaiting = 3
INVARIANT IdleGuardAdmits
