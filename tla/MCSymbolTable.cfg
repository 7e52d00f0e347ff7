\* Three names, every assignment of four hashes, capacities 2, 4 and 8; one
\* reader between lookup and use while others write.
CONSTANTS
    Name = {a, b, c}
    Value = {v, w}
    Thread = {reader}
    Undefined = Undefined
    MinCapacity = 2
    HashRange = 4
    Cells = 4
SYMMETRY Alike
SPECIFICATION STSpec
INVARIANTS
    ProbesEnd
    CellsOwnedOnce
    CachedCellsLive
PROPERTY ImplementsGlobalMap
