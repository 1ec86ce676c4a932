SPECIFICATION Spec
CONSTANTS
    Opts = {o1, o2}
    Values = {v1, v2}
    Unspec = Unspec
    Raw = Raw
    None = None
    Absent = Absent
    Arg = Arg
    Ret = Ret
    Tmp = Tmp
    Strong = FALSE
    Trivial = FALSE
    ConstexprCopy = FALSE
INVARIANTS
    TypeOK
    FlagTellsTheTruth
    NothingLeaks
    LifetimesRespected
    EngagementSurvivesThrow
PROPERTIES
    PointersStayValid
    ImplementsContract
