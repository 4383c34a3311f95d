SPECIFICATION Spec

CONSTANTS
    NumPlayers = 2
    Tiles <- Tiles4
    Nowhere = Nowhere
    Neighbors <- Neighbors4
    Near <- Neighbors4
    Pos <- Line4
    Shore = {2,3,4}
    Fringe = {1,4}
    Team <- NoTeams2
    InitOwner <- Islands
    InitTroops <- Troops2
    Parts = 2
    Immune = {}
    MaxJobs = 6
    AttackOrders <- SeaAttacks
    BoatOrders <- SeaOrders
    GiftOrders <- SeaGifts
    Incomes = {0}
    MaxTroops = 3
    AttackerLosses = {2}
    DefenderLosses = {2}
    DeadDefenderTiles = 100
    Passes = 10
    CancelDelay = 1
    MaxBoats = 1
    MaxDiplomacy = 2

INVARIANTS
    TypeOK
    TheDeadStayDead
    EveryBoatIsSteered

PROPERTIES
    NoTroopsFromNowhere
