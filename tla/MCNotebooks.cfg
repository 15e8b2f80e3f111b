SPECIFICATION Spec
CONSTANTS
    InFlight = {h1, h2}
    Names = {n1}
    k1 = k1
    k2 = k2
    Keys <- MCKeys
    Patterns <- MCPatterns
    PeekCount = 2
    BenchCount = 2
    MaxMessages = 2
    None = None
    Deliveries = {1, 2}
    MaxFaulty = 1
    MaxSlow = 2
    Stores = {h1, h2}
    Queries = {h1, h2}
    Elements = {e1}
    Topics = {p1, p2}
    Nil = Nil
    Readers = {h1, h2}
    TTL = 2
    Latency = 1
    LastVersion = 1
    LastTick = 5
    NoEntry = NoEntry
    Takers = {1, 2, 3}
    MaxTokens = 2
    RefillRate = 1
    Asked = {1, 2}
    LatestTick = 4
    Due <- MCDue
    Rounds = 6
    Batch = 3
    LateTicks = 2
INVARIANTS
    TypeOK
    NothingLost
    AnswerIsTrue
    DeadLettersHaveAHome
    ShownIsTrue
    BucketBound
    JobsOnTime
SYMMETRY Symmetry
