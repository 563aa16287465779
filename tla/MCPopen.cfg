SPECIFICATION Spec
CONSTANTS
    t1 = t1
    t2 = t2
    Threads = {t1, t2}
    Calls = {"r"}
    Fds = {0, 1, 2, 3, 4, 5}
    BaseFds = {2}
    Hardware = FALSE
    MaxCalls = 1
INVARIANT PopenStarts
CHECK_DEADLOCK FALSE
