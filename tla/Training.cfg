SPECIFICATION Spec
CONSTANTS
    NumShards = 2
    Envs = {e1, e2}
    RolloutLen = 1
    Rounds = 2
    Updates = 2
    EvalEvery = 1
    CkptEvery = 1
    Modes <- BothModes
    MaySpoil <- FirstMinibatch
    MaxStages = 1
    MaxFaults = 1
INVARIANTS ReplicasAgree VersionsNameWeights ErrorsHaveACause
PROPERTIES EveryRunEnds
CHECK_DEADLOCK FALSE
