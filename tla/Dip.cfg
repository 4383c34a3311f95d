SPECIFICATION Spec

CONSTANTS
    Ann = Ann
    Rex = Rex
    Players = {Ann, Rex}
    Team <- NoTeams
    RequestDuration = 0
    RequestCooldown = 2
    AllianceDuration = 2
    EmbargoDuration = 1
    TraitorTicks = 1
    EmbargoAllCooldown = 1
    Bots = {}
    Deciders = {Rex}
    Mortal = {Ann, Rex}
    Strikers = {Rex}
    Intents <- AllIntents
    MaxQueue = 2

INVARIANTS
    OnePactPerPair
    RequestsTimeOut
    TemporaryEmbargoEnds
    AlliancesEndOnTime

PROPERTIES
    KeepsPromises
    PermanentEmbargoStands
