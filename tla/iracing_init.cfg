\* A client whose members have any value, and a simulator that does not move.
CONSTANTS
    w1 = w1
    w2 = w2
    h1 = h1
    h2 = h2
    Handles = {h1, h2}
    Words = {w1, w2}
    Variables <- SomeVariables
    N = 3
    MayFail = TRUE
    MaxTick = 0
    MaxSession = 0
SPECIFICATION ClientSpec
PROPERTIES InitReportsItsCause
