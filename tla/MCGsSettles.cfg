SPECIFICATION FairSpec
CONSTANTS
    m1 = m1
    m2 = m2
    Player = {m1, m2}
    Input = {idle, go}
    Idle = idle
    Window = 4
    Redundancy = 2
    RevealDelay = 2
    FlushWait = 4
    NoHash = NoHash
    Presses <- FlatOut
    Distance = 3
    Leavers = {}
    LastTick = 6
    Queue = 0
    Blackout = 1
PROPERTIES
    RaceEnds
CHECK_DEADLOCK FALSE
