\* Three buffers of two words, enough ticks to overwrite what a header names, and
\* the handles a client needs, which others may have in between.
CONSTANTS
    w1 = w1
    w2 = w2
    h1 = h1
    h2 = h2
    Handles = {h1, h2}
    Words = {w1, w2}
    Variables <- SomeVariables
    N = 3
    MayFail = TRUE
    MaxTick = 5
    MaxSession = 1
SPECIFICATION ClientSpec
SYMMETRY Symmetry
INVARIANTS ClientTypeOK NothingIsLeftOpen FreshValueIsWhole ValueIsNotOlder HeaderIsRecent TextIsNotOlder
PROPERTIES OthersAreNotClosed LaterInitReportsItsCause
