CONSTANTS
    Scripts <- OneOrMore
    MaxWait = 2
    MaxCalls = 2
SPECIFICATION Spec
INVARIANTS
    EveryMessageFreed
CHECK_DEADLOCK FALSE
