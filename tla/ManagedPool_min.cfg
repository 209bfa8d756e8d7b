SPECIFICATION Spec
CONSTANTS
    Threads = {w1, w2, w3}
    Tasks = {t1, t2}
    m_min_thread_num = 1
    m_max_thread_num = 2
INVARIANT AtLeastMin
CHECK_DEADLOCK FALSE
