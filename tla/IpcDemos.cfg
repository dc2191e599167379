SPECIFICATION Spec
CONSTANTS
    Messages = 3
    Message <- MCMessage
    CharsToRead = 2
    Capacity = 7
    Iterations <- MCIterations
    Run = {FirstRun, SecondRun}
    PipeMayFail = TRUE
    ForkMayFail = TRUE
    ExecMayFail = TRUE
    Killable = {"reader", "writer", "parent", "child", "Parent", "Child1", "Child2", "program"}
INVARIANTS TypeOK PrefixShown NeverBroken Chopped DoneIsLast AllDoneIsTrue OwnTerminalUnlessKilled NothingLeft
PROPERTIES Ends EndsOrStarves ImplementsStream
