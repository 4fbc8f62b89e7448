\* Three threads and four tickets, the fewest that can tell the threads apart,
\* so that both counters of a lock wrap around while all others wait; two of
\* the threads make three symbols.
SPECIFICATION PartSpec
CONSTANTS
    Threads = {t1, t2, t3}
    Callers = {t1, t2}
    TicketModulus = 4
    Digits <- DigitCharacters
    Characters <- MCCharacters
    CallPrefixes <- MCCallPrefixes
    Texts <- MCTexts
    Numbers <- MCNumbers
    MaxCounter = 3
    Decimal <- MCDecimal
INVARIANTS
    MutualExclusion
    CallsTypeOK
    InitializedOnce
    AllCallsAgree
    UniqueSymbols
    SymbolTellsNumber
PROPERTIES
    FirstComeFirstServed
    NoStarvation
    EveryCallReturns
CHECK_DEADLOCK FALSE
