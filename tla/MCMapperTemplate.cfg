SPECIFICATION Spec
CONSTANTS
    Payloads <- MCPayloads
    Values <- MCValues
    Results <- MCResults
    Specs <- MCSpecs
    Depth <- MCDepth
    MaxDepth = 4
    Outputs <- MCOutputs
    Timeout = 1
    MaxHistory = 2
    MaxTime = 2
    MaxCalls = 3
INVARIANT TypeOK
INVARIANT OnlySelected
INVARIANT NoMarksReturned
PROPERTY OneMetricPerCall
PROPERTY ProcessedIsValidated
CHECK_DEADLOCK FALSE
