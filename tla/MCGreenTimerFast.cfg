SPECIFICATION FairSpec
CONSTANTS
    Timings <- FastTicks
    MaxBatch = 1
    MaxEdits = 1
    Horizon = 5
PROPERTIES
    EventuallyPickedUp
