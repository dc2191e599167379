SPECIFICATION Spec
CONSTANTS
    Messages = 3
    Message <- MCMessage
    CharsToRead = 2
    Capacity = 7
    Iterations <- MCIterations
    Run = {FirstRun, SecondRun}
    PipeMayFail = FALSE
    ForkMayFail = FALSE
    ExecMayFail = FALSE
    Killable = {}
INVARIANTS MessagesDisplayed
