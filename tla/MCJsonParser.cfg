SPECIFICATION Spec
CONSTANTS
    s1 = s1
    s2 = s2
    n1 = n1
    h1 = h1
    Str = {s1, s2}
    Num = {n1}
    Hex = {h1}
    Kept <- MCKept
    Texts <- AnyTexts
    Documents <- MCDocuments
    MaxDepth = 1
    MinStack = 4
INVARIANT TypeOK
INVARIANT TablesStayPut
INVARIANT StackBalanced
INVARIANT SlotDemand
INVARIANT ReadsDocument
PROPERTY Termination
CHECK_DEADLOCK FALSE
