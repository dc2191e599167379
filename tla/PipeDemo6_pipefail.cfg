SPECIFICATION Spec
CONSTANTS
    Message <- MCMessage
    Capacity = 2
    PipeMayFail = {"p0", "p1"}
    ForkMayFail = FALSE
    Killable = {}
    MaxScreen = 5
INVARIANT PipeErrorsExit
