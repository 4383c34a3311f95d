SPECIFICATION Spec

CONSTANTS
    NumPlayers = 3
    Tiles <- Tiles5
    Nowhere = Nowhere
    Neighbors <- Neighbors5
    Near <- Neighbors5
    Pos <- Line5
    Shore = {}
    Fringe = {1,5}
    Team <- NoTeams3
    InitOwner <- Enclave
    InitTroops <- Troops3
    Parts = 1
    Immune = {}
    MaxJobs = 6
    AttackOrders <- CrowdOrders
    BoatOrders = {}
    GiftOrders = {}
    Incomes = {1}
    MaxTroops = 3
    AttackerLosses = {1}
    DefenderLosses = {1}
    DeadDefenderTiles = 3
    Passes = 10
    CancelDelay = 1
    MaxBoats = 1
    MaxDiplomacy = 1

INVARIANTS
    RegistriesAreExact
    OneOverlandAttack

PROPERTIES
    FriendsKeepTheirLand
    NoHeadOnAttacks
