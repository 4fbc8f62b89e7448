SPECIFICATION PartSpec
CONSTANTS
    none = none
    None = none
    NoToken = null
    Tokens <- MCFileTokens
    Texts <- MCTexts
    Utf8 <- MCUtf8
    MaxTokens = 3
    a = a
    b = b
    Eof = eof
    Bad = bad
    NullToken = null
    Idle = idle
    Elements <- MCElements
    Input <- MCInput
    Strings <- MCStrings
    SizeModulus = 4
    TokenKinds <- MCKinds
    NudPower <- MCNudPower
    Lbp <- MCLbp
    LedPower <- MCLedPower
    Postfixes <- MCPostfixes
    Minimum <- MCMinimum
    MaxParsed = 6
INVARIANTS
    EntriesFillDataFile
    GetterTypeOK
    
PROPERTIES
    ImplementsStoredTokens
    ImplementsStream
    CallsReturn
CHECK_DEADLOCK FALSE
