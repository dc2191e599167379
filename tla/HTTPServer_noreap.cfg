SPECIFICATION Spec
CONSTANTS
    Client = {alice}
    Remote = {}
    Slot = {s1}
    Backlog = 1
    Killable = FALSE
    SetupMayFail = FALSE
CHECK_DEADLOCK FALSE
PROPERTIES ZombiesPrevented
