SPECIFICATION Spec
CONSTANTS
    l1 = l1
    l2 = l2
    l3 = l3
    Launches = {l1, l2, l3}
    Zero = zero
    Parts = 2
    MaxAlive = 3
    DiskMayFill = FALSE
INVARIANT TypeOK
INVARIANT FileUnmixed
INVARIANT TokenSound
PROPERTY LaunchEnds
CHECK_DEADLOCK FALSE
