SPECIFICATION AmfSpec
CONSTANTS
    Callers = {t1, t2}
    MaxActive = 2
INVARIANT CreatedOnce
CHECK_DEADLOCK FALSE
