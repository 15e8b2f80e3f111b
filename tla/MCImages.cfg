SPECIFICATION Spec
CONSTANTS
    Tasks = {t1, t2}
    Workers = {w1, w2}
    Prefetch = 2
    MaxRedeliveries = 1
    None = None
    Sizes <- MCSizes
    Colours <- MCColours
    MaxFilters = 2
INVARIANTS
    TypeOK
    NoRequestLost
    DuplicatesAreRedeliveries
    OneAtATime
    CompletedIsStored
PROPERTIES
    RequestsAnswered
    NoArtefacts
CHECK_DEADLOCK FALSE
