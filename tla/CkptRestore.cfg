\* A pod is lost while the hub has the weights of the first save only.
SPECIFICATION Spec
CONSTANTS
    MaxSaves = 1
    Flaky = {}
    KeepLast = 1
    MaxRetries = 1
PROPERTIES
    RestoresPairsOnly
