SPECIFICATION MonadicSpec
CONSTANTS
    Opts = {o1, o2}
    Values = {v1}
    Unspec = Unspec
    Raw = Raw
    None = None
    Absent = Absent
    Arg = Arg
    Ret = Ret
    Tmp = Tmp
    Null = Null
    Refs = {r1, 1}
    Depth = 1
    Strong = TRUE
    Trivial = FALSE
    ConstexprCopy = TRUE
SYMMETRY Symmetry
INVARIANTS
    StrongGuaranteeLifts
    RefSeesOwner
    LifetimesRespected
    AnswersForTheCall
PROPERTIES
    DanglesOnlyWhenOwnerEnds
