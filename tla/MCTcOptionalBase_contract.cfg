SPECIFICATION Spec
CONSTANTS
    Opts = {o1, o2}
    Values = {v1, v2}
    Unspec = Unspec
    Garbage = Garbage
    None = None
    Absent = Absent
    Arg = Arg
    Strong = FALSE
INVARIANTS
    TcInv
    EngagedIsWritten
PROPERTIES
    ImplementsContract
