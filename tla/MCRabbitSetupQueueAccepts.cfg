SPECIFICATION RabbitSpec
CONSTANTS
    InFlight = {h1, h2}
    Names = {n1}
    k1 = k1
    k2 = k2
    Keys <- MCKeys
    Patterns <- MCPatterns
    PeekCount = 2
    BenchCount = 2
    MaxMessages = 2
    None = None
INVARIANT SetupQueueAccepts
