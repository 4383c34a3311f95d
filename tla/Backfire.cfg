SPECIFICATION FairSpec
CONSTANTS
    Players = {1, 2, 3}
    Humans = {1, 2}
    Team <- TwoAndThree
    Tiles = {1, 2, 3, 4}
    Zone <- Ring
    InitOwner <- FourTiles
    UnitIds = {1, 2, 3, 4, 5, 6, 7, 8, 9}
    Plans <- OnlyBackfire
    Duration = 1
    Cooldown = 2
    Flights = {0, 2}
    WarheadWaits = {0, 1}
    WarheadCount = 2
    DeletionTicks = 1
    DeleteCooldown = 1
    RailRange <- AllNear
    StationIds = {1, 2, 3, 4, 5}
    RoadIds = {1, 2, 3, 4, 5, 6, 7, 8}
    ClusterIds = {1, 2, 3, 4, 5, 6}
    MaxHops = 4
    MaxRow = 2
    Rides = {0}
PROPERTIES
    StaysInCooldown
