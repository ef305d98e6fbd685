CONSTANTS
    Char <- TheChars
    NameArg <- TheNames
    SeparatorArg <- TheSeparators
    NullArg <- TheNulls
    Widths <- TheWidths
    File = {"f"}
    Pipe = {"|p"}
    BadName = {"bad", "|bad"}
    Results <- TheResults
    FieldSize = 3
    MaxCommands = 4
SPECIFICATION Spec
INVARIANTS
    CsvReadsBack
    InsertReadsBack
    ShowReadsBack
    NoDanglingStream
PROPERTIES
    ExplainRestores
CHECK_DEADLOCK FALSE
