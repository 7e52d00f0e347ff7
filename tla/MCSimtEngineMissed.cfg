\* A notification is missed: the dispatch never returns.
CONSTANTS
    P = 2
    BlockSize = 1
    MaxTotal = 2
    ParallelMin = 2
    MaxDispatches = 1
    MaxSpurious = 1
SPECIFICATION SEFairSpec
PROPERTIES
    DispatchReturns
