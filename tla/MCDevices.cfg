SPECIFICATION Spec
CONSTANTS
    NULL = NULL
    Line = {0, 1, 14}
    hz = 2
    Wait = {1}
    Key = {1, 2}
    ROWS = 2
    COLS = 4
    TAB = 2
    Printable = {"a", "m"}
    Char = {"a", "newline", "return", "tab", "backspace"}
    Message <- MCMessage
    MaxRequests = 4
    MaxCalls = 3
INVARIANTS
    TypeOK
    RequestsPass
    ConsoleContained
    ScreenShowsText
PROPERTIES
    NoUncaptured
    ReadingWithinASecond
    ReadReturnsFreshKey
