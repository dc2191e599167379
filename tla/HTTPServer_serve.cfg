SPECIFICATION Spec
CONSTANTS
    Client = {alice, bob, carol, dave}
    Remote = {dave}
    Slot = {s1, s2}
    Backlog = 2
    Killable = TRUE
    SetupMayFail = TRUE
CHECK_DEADLOCK FALSE
SYMMETRY Interchangeable
INVARIANTS TypeOK NoneKept OnePlace
PROPERTIES DropsOnlyWhenBusy AnswersFollowRequests
