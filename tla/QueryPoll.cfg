SPECIFICATION FairSpec
CONSTANTS
    MaxPolls = 3
    MaxExtra = 1
    BuilderThrows = TRUE
INVARIANTS
    PollingIsLive
PROPERTIES
    StopHalts
    PollContinues
    StopResolves
