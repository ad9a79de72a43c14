SPECIFICATION Spec
CONSTANTS
    m1 = m1
    m2 = m2
    m3 = m3
    Player = {m1, m2}
    Input = {idle, go}
    Idle = idle
    Window = 2
    Redundancy = 1
    RevealDelay = 1
    FlushWait = 1
    NoHash = NoHash
    Presses <- OneFlatOut
    Distance = 5
    Leavers = {}
    LastTick = 3
    Queue = 1
    Blackout <- AnyLoss
INVARIANTS
    NoFalseAccusation
    NoDesync
PROPERTIES
    ImplementsAgreedRace
CHECK_DEADLOCK FALSE
