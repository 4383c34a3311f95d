SPECIFICATION Spec

CONSTANTS
    NumPlayers = 2
    Tiles <- Tiles4
    Nowhere = Nowhere
    Neighbors <- Neighbors4
    Near <- Neighbors4
    Pos <- Line4
    Shore = {3,4}
    Fringe = {1,4}
    Team <- OneTeam2
    InitOwner <- TwoAndFree
    InitTroops <- Troops2
    Parts = 1
    Immune = {}
    MaxJobs = 5
    AttackOrders <- TeamAttacks
    BoatOrders <- TeamBoats
    GiftOrders = {}
    Incomes = {0}
    MaxTroops = 3
    AttackerLosses = {1}
    DefenderLosses = {1}
    DeadDefenderTiles = 100
    Passes = 10
    CancelDelay = 2
    MaxBoats = 1
    MaxDiplomacy = 1

INVARIANTS
    EveryBoatIsSteered
