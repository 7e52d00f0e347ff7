\* Degree 2, asked for as 1.  Nine keys make trees of three levels in which
\* inner nodes split, merge and lend each other children.
CONSTANTS
    Size = 10
    Touched = {2, 3, 5, 6, 9}
    v = v
    w = w
    Key <- Numbers
    Value = {v, w}
    Item <- Items
    Starts <- FromTheStart
    Absent = Absent
    Lost = Lost
    Degrees = {1}
    CountMax = 10
SPECIFICATION BTSpec
INVARIANTS
    IsBTree
    ItemsHeldOnce
    CountCovers
PROPERTY ImplementsKeyedMap
CHECK_DEADLOCK FALSE
