SPECIFICATION Spec
CONSTANTS
    Handlers = {h1, h2, h3}
    Groups = {g1, g2}
    Count = 2
    MaxItems = 3
    Calls = {h1, h2, h3}
    Limits <- MCLimits
    ShortestWindow = 3
    LargestMax = 2
    MaxDelay = 1
    MaxTime = 7
    Members <- MCMembers
    Shapes <- MCShapes
    Stock = 3
    Sales = 3
    AtOnce = 1
    MaxRetries = 2
    MaxFaults = 2
    Gone = Gone
INVARIANTS
    TypeOK
    ServedInOrder
    TakenIsAccounted
    WindowBound
    DeniedForCause
    NoFalseNegative
    SalesMatchStock
SYMMETRY Symmetry
