\* The upload of the first milestone fails.
SPECIFICATION Spec
CONSTANTS
    MaxSaves = 2
    Flaky = {4}
    KeepLast = 1
    MaxRetries = 1
INVARIANTS
    BacklogIsKept
