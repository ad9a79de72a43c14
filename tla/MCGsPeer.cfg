SPECIFICATION PeerSpec
CONSTANTS
    Player = {me, peer}
    Me = me
    Input = {idle, go}
    Idle = idle
    Window = 3
    Redundancy = 2
    RevealDelay = 1
    FlushWait = 1
    NoHash = NoHash
    LastPeerTick = 3
    Said <- MCSaid
    Claimed <- MCClaimed
INVARIANTS
    WindowHeld
    VisibleIsReplay
    NoStaleGuess
PROPERTIES
    PromisedFirst
    FirstWordStands
CHECK_DEADLOCK FALSE
