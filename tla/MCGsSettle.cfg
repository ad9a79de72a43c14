SPECIFICATION Spec
CONSTANTS
    m1 = m1
    m2 = m2
    m3 = m3
    Player = {m1, m2}
    Input = {idle, go}
    Idle = idle
    Window = 3
    Redundancy = 1
    RevealDelay = 1
    FlushWait = 1
    NoHash = NoHash
    Presses <- OneFlatOut
    Distance = 2
    Leavers = {m2}
    LastTick = 5
    Queue = 0
    Blackout <- AnyLoss
INVARIANTS
    RecordingIsTheRace
    EndingsMatch
CHECK_DEADLOCK FALSE
