SPECIFICATION Spec
CONSTANTS
    s1 = s1
    e1 = e1
    u1 = u1
    d1 = d1
    d2 = d2
    d3 = d3
    r1 = r1
    n1 = n1
    t1 = t1
    Str = {s1, e1, u1, d1, d2, d3, r1, t1}
    Num = {n1}
    Digits <- MCDigits
    Decimal <- MCDecimal
    IndexOf <- MCIndexOf
    Unsafe = {e1, u1}
    Escaped = {e1}
    Heaps <- AllHeaps
    MaxNesting = 1
    Slots = 4
INVARIANT ArrayMeansIndices
CHECK_DEADLOCK FALSE
