SPECIFICATION Spec
CONSTANTS
    l1 = l1
    l2 = l2
    Launches = {l1, l2}
    Zero = zero
    Parts = 2
    MaxAlive = 2
    DiskMayFill = FALSE
PROPERTY SavedTokenKept
CHECK_DEADLOCK FALSE
