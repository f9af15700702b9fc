SPECIFICATION Spec
CONSTANTS
    Segments <- MCSegments
    Texts <- MCTexts
INVARIANTS
    FixedShown
PROPERTIES
    DestroyReturns
    FileSeen
    TickerSpec
