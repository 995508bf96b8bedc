SPECIFICATION Spec
CONSTANTS
    MinInt <- MCMin
    MaxInt = 31
    Rects <- MCRects
    Points <- MCPoints
    MaxRects = 3
    Pieces <- MCPieces
    MaxPieces = 3
    CONTENT_MAX_BYTES = 6
    Configs <- MCConfigs
    Letters <- MCLetters
    MaxText = 3
    Octets = {0, 65, 131, 255}
    MaxOctets = 4
    WordLetters <- MCWordLetters
    MaxWord = 4
    Bits = 6
    CsvOptions <- MCCsv
    BreakerConfigs <- MCBreakers
    ClockValues = 4
    MaxOutstanding = 3
    Calls = {show, hide, ui, p1, p2, p3}
    UiCalls = {ui}
    Posted = {p1, p2, p3}
INVARIANTS RectsAreTheirCells TransformsUndo MeasuresFitTheCells CutsBetweenCharacters CleanedOnceIsEnough EncodingsUndo CallsKeepOrder
PROPERTIES BreakerDecides CallsAreAnswered
CHECK_DEADLOCK FALSE
