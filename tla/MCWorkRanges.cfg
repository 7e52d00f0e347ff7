\* Three participants, up to six blocks of two indices, the last one maybe short;
\* worker 0 may stay away.
CONSTANTS
    P = 3
    BlockSize = 2
    MaxTotal = 11
SPECIFICATION WRFairSpec
INVARIANTS
    NoBlockTwice
    RemainingIsExact
    FinishedMeansAllRan
    InFlightCoversWork
PROPERTIES
    StoreOverwritesNothing
    ImplementsParallelFor
    JobGetsFinished
    OthersTakeTheRest
