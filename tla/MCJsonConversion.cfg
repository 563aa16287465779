SPECIFICATION ConversionSpec
CONSTANTS
    s1 = s1
    s2 = s2
    d1 = d1
    d2 = d2
    n1 = n1
    t1 = t1
    h1 = h1
    Str = {s1, s2, d1, d2, t1}
    Num = {n1}
    Hex = {h1}
    Kept <- MCKept
    Texts <- DocTexts
    Documents <- MCDocuments
    MaxDepth = 2
    MinStack = 6
    Digits <- MCDigits
    Decimal <- MCDecimal
    IndexOf <- MCIndexOf
    Unsafe = {}
    Escaped = {}
    MaxNesting = 1
    Slots = 4
INVARIANT ConvertsBack
CHECK_DEADLOCK FALSE
