SPECIFICATION WorkersSpec
CONSTANTS
    Workers = {w1, w2, w3}
    Messages = {m1, m2, m3, m4, m5}
    MaxMsgs = 2
PROPERTY GatherReturns
CHECK_DEADLOCK FALSE
