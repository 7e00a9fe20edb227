SPECIFICATION FairSpec
CONSTANTS
    Automatic = FALSE
    MaxGeneration = 3
    MaxSelectors = 5
    MaxRequests = 2
    MaxFailures = 2
    MaxPodFailures = 1
INVARIANT PromotedOnRequest
PROPERTIES TrafficServed RolloutCompletes
CHECK_DEADLOCK FALSE
