SPECIFICATION KitSpec
CONSTANTS
    Key = {1, 2}
    Escape = 1
    Button = {10}
    Pad = {"a"}
    Action = {"go", "drop"}
    Cars = 1
    Defaults <- TheDefaults
    OldFiles <- TheOldFiles
    Blip = 1
    Grace = 1
    MaxTime = 5
    Racers = 2
    Place = {"x"}
    Weapons <- TheWeapons
    Loadout <- TheLoadout
    Lasts <- TheLasts
    Ring = 2
    FireHold = 2
    Cooldown = 2
    FlameEvery = 2
    Hook = 2
    Blows = 2
    Does <- TheDoes
    Knock <- TheKnocks
    LastStep = 6
    Name = {"ann", "bob"}
    Word = {"x", "y"}
    ProfilesMax = 2
    Rosters <- TheRosters
    Slots = 2
    Drivers = {"ann"}
    Machines = {"bug", "jeep"}
    OwnMachine <- TheOwnMachine
    Gravities = {1, 2}
    LapCounts = {1, 2}
    Times = {1}
    Turns = 3
    GridX = 4
    GridY = 3
    Draws <- TheDraws
    Cells <- TheCells
    Attempts = 2
    SoftenAt = {1}
    LessAt = {1}
    LeastCells = 5
    RouteTiles = {300}
    RampEvery <- TheRampEvery
    CrestEvery = {110, 140}
    MaxGates = 28
    Tile = 4
    Width = 3
    Height = 3
    Corner <- TheCorner
    RunOff = 1
    Fall = 3
    Floor = 4
    Back = 2
    Stagger = 1
    GridSlots = 2
    LeastHalf = 1
    LeastApart = 2
    Sites <- TheSites
    Steps <- TheSteps
    MostGates = 3
    DrivenGates = 2
    CarTurns = 1
    Wander = 8
    ArcMax = 4
    Flight = 20
    FieldWidth = 14
    FieldHeight = 14
    Rises <- TheRises
    RunOffTiles = 10
    Courses <- TheCourses
    Spots <- TheSpots
    Ways = {0, 3}
    Velocities <- TheVelocities
    Lanes = {0, 1}
    Skill = 10
    Traction = 8
    Loose = 3
CHECK_DEADLOCK FALSE
INVARIANTS
    ArmsStand
    HeardRight
    TimesAreTold
    TrackIsSound
    GroundIsSound
    DrivesTheRace
PROPERTIES
    KeysAnswer
    DoorHolds
