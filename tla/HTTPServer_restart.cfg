SPECIFICATION Spec
CONSTANTS
    Client = {alice, bob}
    Remote = {}
    Slot = {s1, s2}
    Backlog = 1
    Killable = TRUE
    SetupMayFail = FALSE
CHECK_DEADLOCK FALSE
PROPERTIES ZombiesSubside ConnectionsEnd ServesAgain
