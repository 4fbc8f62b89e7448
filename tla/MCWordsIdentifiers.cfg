SPECIFICATION Spec
CONSTANTS
    CommandLines <- MCCommandLines
    Mark = "mark"
    Composed <- MCComposed
    MayFail = TRUE
    CodePoints <- MCCodePoints
    HexValue <- MCHexValue
    Blanks = {" "}
    Digits = {"0", "1", "8"}
    Connectors = {"_"}
    IdStarts = {"x", "u", "n", "c", "d", "x with mark"}
    IdContinues = {"0", "1", "8", "_", "mark", "x", "u", "n", "c", "d", "x with mark"}
    WhiteSpaces <- MCWhiteSpaces
    MathSymbols = {"^", "+"}
    Keywords <- MCKeywords
INVARIANTS
    IdentifiersWhole
CHECK_DEADLOCK FALSE
