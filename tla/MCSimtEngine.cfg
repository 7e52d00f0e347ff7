\* Two workers and the host, two dispatches, a worker's first range empty.
CONSTANTS
    P = 3
    BlockSize = 1
    MaxTotal = 2
    ParallelMin = 2
    MaxDispatches = 2
    MaxSpurious = 1
SPECIFICATION SESpec
INVARIANTS
    KernelsOnlyWhileJobLive
PROPERTIES
    StartsOnce
    JoinsAnArmedJob
