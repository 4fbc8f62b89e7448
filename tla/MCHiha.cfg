CONSTANTS
    NVec = 7
    MaxTokens = 1
    MaxSelected = 2
    Libraries <- MCLibraries
    PluginInit <- MCPluginInit
    PassNames <- Names
    Slots <- MCSlots
    DefaultNud <- Default
    Handlers <- MCHandlers
    Passthrough <- MCPassthrough
    Null <- Nothing
    Variables <- MCVariables
    CommandLines <- MCCommandLines
    Directories <- MCDirectories
SPECIFICATION HihaFairSpec
INVARIANTS
    ReadsEarlierPasses
    LatestKept
    TwoRoots
    SuccessIsComplete
    SavesFormer
    OwnHandlers
    KindsMadeBefore
PROPERTY EndsUnlessTwice
CHECK_DEADLOCK FALSE
