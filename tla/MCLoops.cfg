SPECIFICATION LoopsSpec
CONSTANTS
    Creator = maker
    Threads = {maker, other}
    Functors = {f1, f2, f3}
CHECK_DEADLOCK FALSE
INVARIANTS
    LoopIsSafe
    PollerAgrees
    ReactorIsSafe
    TransitionsNest
PROPERTIES
    ConnectionIsSound
    LoopsAnswer
