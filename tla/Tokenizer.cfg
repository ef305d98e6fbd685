CONSTANTS
    Texts <- ValidTexts
SPECIFICATION FairSpec
INVARIANTS
    FindsAllTokens
    OffsetsIdentify
PROPERTIES
    CursorAdvances
    NextReturns
