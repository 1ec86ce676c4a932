SPECIFICATION Spec
CONSTANTS
    Values = {v1, v2, v3}
    None = None
    Hashes = {h0, h1}
    NoHash = h0
    Lawful = TRUE
INVARIANTS
    MixedFormsAgree
    OrderLifts
    EqualityLifts
    EqualHashAlike
