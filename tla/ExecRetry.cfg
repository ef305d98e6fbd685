CONSTANTS
    Scripts <- OneOrMore
    MaxWait = 2
    MaxCalls = 2
SPECIFICATION Spec
INVARIANTS
    OneStatementOnce
    ScriptsRepeatPrefixes
    RetriesLoseMessages
CHECK_DEADLOCK FALSE
