SPECIFICATION Spec
CONSTANTS
    s1 = s1
    s2 = s2
    n1 = n1
    h1 = h1
    Str = {s1, s2}
    Num = {n1}
    Hex = {h1}
    Kept <- MCKept
    Texts <- DeepTexts
    Documents = {}
    MaxDepth = 100
    MinStack = 20
INVARIANT SlotsReserved
CHECK_DEADLOCK FALSE
