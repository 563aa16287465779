SPECIFICATION Spec
CONSTANTS
    MaxCalls = 18
    MaxNest = 1
    MinStack = 20
INVARIANT WithinReservation
CHECK_DEADLOCK FALSE
