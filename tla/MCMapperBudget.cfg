SPECIFICATION Spec
CONSTANTS
    Payloads <- MCPayloads
    Values <- MCValues
    Results <- MCResults
    Specs <- MCSpecs
    Depth <- MCDepth
    MaxDepth = 4
    Outputs <- MCOutputs
    Timeout = 1
    MaxHistory = 2
    MaxTime = 3
    MaxCalls = 1
PROPERTY BudgetKept
CHECK_DEADLOCK FALSE
