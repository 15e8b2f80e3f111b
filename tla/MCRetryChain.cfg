SPECIFICATION Spec
CONSTANTS
    Levels = 3
    MaxRejections = 5
INVARIANT ClimbsTheChain
CHECK_DEADLOCK FALSE
