SPECIFICATION Spec
CONSTANTS
    Callers = {c1, c2, c3, c4}
    FailureThreshold = 2
    RecoveryTimeout = 2
    HalfOpenLimit = 2
    Requests = {r1, r2, r3, r4}
    MaxConcurrent = 2
    MaxWaiting = 3
    Clients = {b1, b2}
    MaxRuns = 2
    Tasks = {t1, t2, t3}
    Increments = 1
    None = None
    Workers = {w1, w2}
    Messages = {m1, m2, m3, m4}
    MaxMsgs = 2
    Items = 2
    Plenty = 3
    MaxFaults = 3
    SagaSteps = 4
INVARIANTS
    TypeOK
    ClosedIsFresh
    OpenShields
    GuardCounts
    WaitersServed
    ComparisonIsOwn
    LeaseProtects
    SharedOut
    SagasSettle
PROPERTIES
    ImplementsDiagram
    WaitEnds
    TasksEnd
