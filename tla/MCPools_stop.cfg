SPECIFICATION PoolsSpec
CONSTANTS
    Workers = {w1, w2, w3}
    Tasks = {t1, t2, t3}
    None = none
CHECK_DEADLOCK FALSE
PROPERTY GracefulStopReturns
