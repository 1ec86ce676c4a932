SPECIFICATION FairSwapSpec
CONSTANTS
    Opts = {o1, o2}
    Values = {v1, v2}
    Unspec = Unspec
    Raw = Raw
    None = None
    Absent = Absent
    Arg = Arg
    Ret = Ret
    Tmp = Tmp
    Strong = TRUE
    Trivial = FALSE
CHECK_DEADLOCK FALSE
INVARIANTS
    SwapInv
    SwapExchanges
    SwapThrowsOnlyWhatItUses
    ThrowingSwapLosesNothing
    StrongButForOldSwap
PROPERTIES
    SwapEnds
