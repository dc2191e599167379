SPECIFICATION Spec
CONSTANTS
    Message <- MCLongMessage
    Capacity = 4
    PipeMayFail = {}
    ForkMayFail = FALSE
    Killable = {}
    MaxScreen = 10
INVARIANTS TypeOK NoLeftovers
PROPERTIES ImplementsTransfer
