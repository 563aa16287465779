SPECIFICATION Spec
CONSTANTS
    MaxCalls = 3
    MaxNest = 2
    MinStack = 20
INVARIANT TypeOK
INVARIANT OneSlotPerCall
INVARIANT LeakAccounting
PROPERTY ImplementsService
CHECK_DEADLOCK FALSE
