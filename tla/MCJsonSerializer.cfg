SPECIFICATION Spec
CONSTANTS
    s1 = s1
    e1 = e1
    u1 = u1
    d1 = d1
    d2 = d2
    d3 = d3
    r1 = r1
    n1 = n1
    t1 = t1
    Str = {s1, e1, u1, d1, d2, d3, r1, t1}
    Num = {n1}
    Digits <- MCDigits
    Decimal <- MCDecimal
    IndexOf <- MCIndexOf
    Unsafe = {e1, u1}
    Escaped = {e1}
    Heaps <- MCHeaps
    MaxNesting = 1
    Slots = 4
INVARIANT TypeOK
INVARIANT StackRestored
INVARIANT EntriesOnce
INVARIANT ErrorMeansMixed
INVARIANT OutputDenotes
PROPERTY Termination
CHECK_DEADLOCK FALSE
