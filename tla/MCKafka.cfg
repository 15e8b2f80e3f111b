SPECIFICATION Spec
CONSTANTS
    Handlers = {h1, h2, h3}
    MaxAdmins = 2
    Partitions = {p1, p2}
    Consumers = {n1}
    Requests = {r1}
    Poison = {1}
    MaxBatch = 2
    MaxRecords = 2
    MaxResent = 1
    Groups = {g1, g2}
    MaxEnd = 1
INVARIANTS
    TypeOK
    NoClientLeft
    AtLeastOnce
PROPERTIES
    ImplementsOffsets
    NotUnderstated
    ApplicationServes
    MeasuringSettles
