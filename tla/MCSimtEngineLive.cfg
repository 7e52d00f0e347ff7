\* One worker and the host, two dispatches, then the shutdown.
CONSTANTS
    P = 2
    BlockSize = 1
    MaxTotal = 3
    ParallelMin = 2
    MaxDispatches = 2
    MaxSpurious = 1
SPECIFICATION SEFairSpec
PROPERTIES
    ReturnsUnlessMissed
    ShutdownJoins
