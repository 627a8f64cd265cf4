\* The session text changes once.
CONSTANTS
    w1 = w1
    w2 = w2
    Words = {w1, w2}
    Variables <- SomeVariables
    N = 3
    MayFail = TRUE
    MaxTick = 3
    MaxSession = 1
SPECIFICATION Spec
SYMMETRY Symmetry
INVARIANTS TextHasItsVersion
