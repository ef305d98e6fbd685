CONSTANTS
    Dictionaries <- DictionaryFiles
    Inputs <- Piped
    BufSize = 5
SPECIFICATION Spec
INVARIANTS
    OnlyOneToOne
    CutsInvisible
PROPERTIES
    EndsUnlessStuck
    ValidEnds
CHECK_DEADLOCK FALSE
