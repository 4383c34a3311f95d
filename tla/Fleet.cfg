SPECIFICATION FairSpec
CONSTANTS
    Players = {1, 2, 3}
    Team <- OneAndTwo
    Places = {1, 2, 3, 4, 5, 6, 7}
    Shoreline = {2}
    Sight = 1
    PatrolRange = 1
    RepairRange = 1
    DockRange = 1
    Cell = 5
    MaxHealth = 4
    Damages = {2}
    Gap = 1
    Grace = 2
    SafeTicks = 1
    MaxFlight = 1
    ShellLife = 1
    DockPool = 1
    UnitIds = {1, 2, 3, 4, 5, 6, 7}
    Scenarios <- EveryScenario
    Bots = {}
    Second = 2
    Calm = 1
    Ramp = 1
    Pause = 1
    Levels <- TwoWaves
    Warn = 1
    DrainStart = 2
    DrainMax = 50
    DrainRamp = 2
INVARIANTS
    BerthsSuffice
    OrdersComeFirst
PROPERTIES
    OnlyHeirsDrift
    VoyagesPayTheRightOnes
    VoyagesEnd
    ShipsReturnToSea
    DoomedFleetsSink
