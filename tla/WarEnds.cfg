SPECIFICATION FairSpec

CONSTANTS
    NumPlayers = 2
    Tiles <- Tiles4
    Nowhere = Nowhere
    Neighbors <- Neighbors4
    Near <- Neighbors4
    Pos <- Line4
    Shore = {}
    Fringe = {1,4}
    Team <- NoTeams2
    InitOwner <- TwoByTwo
    InitTroops <- Troops22
    Parts = 2
    Immune = {}
    MaxJobs = 5
    AttackOrders <- EndsOrders
    BoatOrders = {}
    GiftOrders = {}
    Incomes = {1}
    MaxTroops = 3
    AttackerLosses = {2}
    DefenderLosses = {1}
    DeadDefenderTiles = 100
    Passes = 10
    CancelDelay = 2
    MaxBoats = 1
    MaxDiplomacy = 1

PROPERTIES
    EveryAttackEnds
