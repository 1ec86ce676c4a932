SPECIFICATION FairSpec
CONSTANTS
    Opts = {o1, o2}
    Values = {v, w}
    Signed = {w}
    DefaultT = DefaultT
    Other = Other
    None = None
    Junk = {"blank", "dash", x}
    TidyBound = 7
    JunkBound = 3
INVARIANTS
    StoresWhatItFound
PROPERTIES
    ImplementsChannel
    ReadsChangeOnlyAsFound
    ReadLoopEnds
