SPECIFICATION ReadSpec
CONSTANTS
    Payloads <- Lines
    MaxLength = 6
    CHUNK = 2
    STREAM_ABOVE = 1
    Tails = {0, 2}
    Ranges <- Pages
INVARIANTS
    ReadTypeOK
    TailIsLast
    FoundStaysReadable
    PagesOnlyGrow
