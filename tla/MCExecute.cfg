SPECIFICATION Spec
CONSTANTS
    t1 = t1
    t2 = t2
    Threads = {t1, t2}
    Calls = {"system"}
    Fds = {0, 1, 2, 3, 4, 5}
    BaseFds = {2}
    Hardware = TRUE
    MaxCalls = 1
INVARIANT ExecuteReturns
CHECK_DEADLOCK FALSE
