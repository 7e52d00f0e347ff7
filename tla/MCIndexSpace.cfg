\* Grids of one to three dimensions and tiled ones, blocks of five indices,
\* at most three of them, and integers that overflow at 31.
CONSTANTS
    Dims <- SmallDims
    TileSizes <- SmallTileSizes
    BlockSize = 5
    MaxBlocks = 3
    MaxInt = 31
SPECIFICATION Spec
INVARIANTS
    EachCellOnce
    ResultIsDeterministic
