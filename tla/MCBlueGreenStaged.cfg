SPECIFICATION Spec
CONSTANTS
    Automatic = FALSE
    MaxGeneration = 3
    MaxSelectors = 5
    MaxRequests = 1
    MaxFailures = 0
    MaxPodFailures = 0
PROPERTY LiveOnlyStaged
CHECK_DEADLOCK FALSE
