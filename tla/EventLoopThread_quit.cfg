SPECIFICATION ThreadFairSpec
CONSTANTS
    Creator = c
    Threads = {c, t}
    Functors = {f1}
PROPERTY QuitFromOtherThreadExits
CHECK_DEADLOCK FALSE
