SPECIFICATION Spec
CONSTANTS
    Opts = {o1}
    Values = {v, w}
    Signed = {w}
    DefaultT = DefaultT
    Other = Other
    None = None
    Junk = {"blank", "dash", x}
    TidyBound = 5
    JunkBound = 4
INVARIANTS
    StreamsBack
