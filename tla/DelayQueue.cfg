SPECIFICATION FairSpec
CONSTANTS
    Consumers = {c1, c2}
    Elements = {e1, e2}
    Delays = {0, 1}
    Timeouts = {1}
    TicksPerMs = 2
    MaxTime = 3
CHECK_DEADLOCK FALSE
PROPERTIES
    TakeReturnsWhenExpired
