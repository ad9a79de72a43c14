SPECIFICATION Spec
CONSTANTS
    m1 = m1
    m2 = m2
    m3 = m3
    Player = {m1, m2, m3}
    Input = {idle, go}
    Idle = idle
    Window = 2
    Redundancy = 1
    RevealDelay = 1
    FlushWait = 1
    NoHash = NoHash
    Presses <- FlatOut
    Distance = 5
    Leavers = {}
    LastTick = 3
    Queue = 0
    Blackout <- AnyLoss
SYMMETRY Symmetry
INVARIANTS
    NoFalseAccusation
CHECK_DEADLOCK FALSE
