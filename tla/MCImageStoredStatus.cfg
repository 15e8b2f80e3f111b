SPECIFICATION PipelineSpec
CONSTANTS
    Tasks = {t1, t2}
    Workers = {w1, w2}
    Prefetch = 2
    MaxRedeliveries = 1
    None = None
INVARIANT StoredStatusKnown
CHECK_DEADLOCK FALSE
