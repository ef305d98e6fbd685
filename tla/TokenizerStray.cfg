CONSTANTS
    Texts <- StrayByteTexts
SPECIFICATION FairSpec
PROPERTIES
    NextReturns
