SPECIFICATION Spec
CONSTANTS
    Message <- MCMessage
    Capacity = 2
    PipeMayFail = {"p0", "p1"}
    ForkMayFail = TRUE
    Killable = {"parent", "child"}
    MaxScreen = 5
INVARIANTS Delivery ChildEndsLast
PROPERTIES Termination
