----------------------------- MODULE IndexSpace -----------------------------
(***************************************************************************)
(* The arithmetic of a dispatch in vm.cpp: the sizes dispatchJob accepts,  *)
(* how it cuts the grid into blocks, which cell mapIndex gives an index,   *)
(* the lanes that accumulateBlock fills and the tree of finishReduce.      *)
(*                                                                         *)
(* Blocks run in any order and at the same time (WorkRanges decides), the  *)
(* indices of a block in ascending order.  A reduction combines terms of   *)
(* the free monoid: a term is the sequence of cells combined, reduceOp2    *)
(* appends, the identity is <<>>.  A term says which values are combined   *)
(* and in which order, whatever the operation.                             *)
(*                                                                         *)
(* int64 arithmetic has its range scaled down to -MaxInt-1 .. MaxInt and   *)
(* wraps around where the code does not test for overflow.                 *)
(*                                                                         *)
(* A definition named Slip... is the one below it with a plausible slip;   *)
(* no specification uses it.                                               *)
(***************************************************************************)
EXTENDS Integers, Sequences, FiniteSets

CONSTANTS
    Dims,         \* the sizes a script asks for
    TileSizes,    \* the tile sizes it asks for
    BlockSize,    \* 256
    MaxBlocks,    \* 0xFFFFFFFF, the blocks a packed range can count
    MaxInt        \* INT64_MAX

ASSUME DimsAssumption == Dims \subseteq Int
ASSUME TileSizesAssumption == TileSizes \subseteq Int
ASSUME BlockSizeAssumption == BlockSize \in Nat \ {0}
ASSUME MaxBlocksAssumption == MaxBlocks \in Nat
ASSUME MaxIntAssumption == MaxInt \in Nat /\ MaxInt >= BlockSize

VARIABLES
    job,       \* the grid: dimCount, x, y, z, tiled, tx, ty
    phase,     \* "sizing", "running", "done", "rejected", "undefined"
    total,     \* the linear extent dispatchJob computed
    lanes,     \* blockLaneAcc: a term for each block and lane
    next,      \* the next index of each block
    failed,    \* the kernel returned something else than a number
    visits,    \* ghost: how often each cell's kernel ran
    result     \* reduceOut, or NoResult (nil)

vars == <<job, phase, total, lanes, next, failed, visits, result>>

NoResult == <<"nil">>
Identity == <<>>
Op2(a, b) == a \o b

-----------------------------------------------------------------------------
(* Sizes                                                                   *)

Wrap(n) == ((n + MaxInt + 1) % (2 * (MaxInt + 1))) - (MaxInt + 1)
AtLeast(n, least) == IF n < least THEN least ELSE n

\* Division of C++: towards zero (the divisors here are positive).
Quotient(a, b) == IF a >= 0 THEN a \div b ELSE -((-a) \div b)

\* mulNonNeg: the product, or Overflow.
Overflow == -1
MulNonNeg(a, b) ==
    IF a = 0 \/ b = 0 THEN 0
    ELSE IF a < 0 \/ b < 0 \/ a > MaxInt \div b THEN Overflow
    ELSE a * b

TilesX(j) == Quotient(Wrap(j.x + j.tx - 1), j.tx)
TilesY(j) == Quotient(Wrap(j.y + j.ty - 1), j.ty)
Tiled(j) == j.tiled /\ j.dimCount = 2

\* The number of linear indices, or Overflow; whole tiles when tiled.
Extent(j) ==
    LET cells == MulNonNeg(MulNonNeg(j.x, j.y), j.z)
        whole == MulNonNeg(MulNonNeg(TilesX(j), TilesY(j)), MulNonNeg(j.tx, j.ty))
    IN  IF MulNonNeg(j.x, j.y) = Overflow THEN Overflow
        ELSE IF cells = Overflow \/ ~Tiled(j) THEN cells
        ELSE IF MulNonNeg(TilesX(j), TilesY(j)) = Overflow \/ MulNonNeg(j.tx, j.ty) = Overflow
        THEN Overflow
        ELSE whole

BlockCount(n) == Quotient(Wrap(n + BlockSize - 1), BlockSize)

-----------------------------------------------------------------------------
(* Cells                                                                   *)

\* mapIndex: the cell of index i, or Skip outside the grid.
Skip == <<>>
MapIndex(j, i) ==
    LET r == i % (j.tx * j.ty)
        t == i \div (j.tx * j.ty)
        ix == (t % TilesX(j)) * j.tx + (r % j.tx)
        iy == (t \div TilesX(j)) * j.ty + (r \div j.tx)
    IN  IF Tiled(j) THEN IF ix >= j.x \/ iy >= j.y THEN Skip ELSE <<ix, iy, 0>>
        ELSE IF j.dimCount >= 2
        THEN <<i % j.x, (i \div j.x) % j.y, i \div (j.x * j.y)>>
        ELSE <<i, 0, 0>>

Cells(j) == {<<a, b, c>> : a \in 0 .. j.x - 1, b \in 0 .. j.y - 1, c \in 0 .. j.z - 1}

-----------------------------------------------------------------------------
(* Lanes and the tree                                                      *)

Lane(i) == i % 4
LaneCount == 4

First(x) == x * BlockSize
SlipPast(x) == First(x) + BlockSize          \* the std::min with total forgotten
Past(x) == IF First(x) + BlockSize < total THEN First(x) + BlockSize ELSE total

\* accumulateBlock: which block and which lane take the value of index i.
SlipBlockOf(i) == 0                          \* all blocks share their lanes
BlockOf(i) == i \div BlockSize

Partial(acc) == Op2(Op2(acc[0], acc[1]), Op2(acc[2], acc[3]))

\* 1, 2, 4, ...: as far as a tree over n blocks can need.
Doubled(n) ==
    LET power[m \in 0 .. n] == IF m = 0 THEN 1 ELSE 2 * power[m - 1]
    IN  power

\* The smallest power of two that is not below n has Levels(n) factors.
Levels(n) ==
    CHOOSE l \in 0 .. n : Doubled(n)[l] >= n /\ \A m \in 0 .. l - 1 : Doubled(n)[m] < n

\* One level of the tree, in place: entry n becomes the pair (2n, 2n + 1).
Combine(lvl, half) ==
    LET after[n \in 0 .. half] ==
            IF n = 0 THEN lvl
            ELSE LET old == after[n - 1]
                 IN  [old EXCEPT ![n - 1] = Op2(old[2 * n - 2], old[2 * n - 1])]
    IN  after[half]

\* finishReduce: the partials, filled up with identities, level after level.
Tree(acc, blocks) ==
    LET width == Doubled(blocks)
        height == Levels(blocks)
        leaves == [n \in 0 .. width[height] - 1 |->
                    IF n < blocks THEN Partial(acc[n]) ELSE Identity]
        at[m \in 0 .. height] ==
            IF m = 0 THEN leaves ELSE Combine(at[m - 1], width[height - m])
    IN  at[height][0]

-----------------------------------------------------------------------------
Grid(dimCount, x, y, z, tiled, tx, ty) ==
    [dimCount |-> dimCount, x |-> AtLeast(x, 0), y |-> AtLeast(y, 0), z |-> AtLeast(z, 0),
     tiled |-> tiled, tx |-> AtLeast(tx, 1), ty |-> AtLeast(ty, 1)]

Untiled == {Grid(n, x, IF n >= 2 THEN y ELSE 1, IF n >= 3 THEN z ELSE 1, FALSE, 1, 1) :
              n \in 1 .. 3, x \in Dims, y \in Dims, z \in Dims}
TiledGrids == {Grid(2, x, y, 1, TRUE, tx, ty) :
              x \in Dims, y \in Dims, tx \in TileSizes, ty \in TileSizes}

Init ==
    /\ job \in Untiled \cup TiledGrids
    /\ phase = "sizing"
    /\ total = 0
    /\ lanes = <<>>
    /\ next = <<>>
    /\ failed = FALSE
    /\ visits = <<>>
    /\ result = NoResult

Reject ==
    /\ phase = "sizing"
    /\ \/ Extent(job) = Overflow
       \/ BlockCount(Extent(job)) > MaxBlocks
    /\ phase' = "rejected"
    /\ UNCHANGED <<job, total, lanes, next, failed, visits, result>>

\* Nothing to run: the reduction is the identity.
NothingToRun ==
    /\ phase = "sizing"
    /\ Extent(job) = 0
    /\ phase' = "done"
    /\ result' = Identity
    /\ UNCHANGED <<job, total, lanes, next, failed, visits>>

\* fillJob: every lane of every block holds the identity.
Accept ==
    /\ phase = "sizing"
    /\ Extent(job) > 0
    /\ BlockCount(Extent(job)) \in 1 .. MaxBlocks
    /\ phase' = "running"
    /\ total' = Extent(job)
    /\ next' = [x \in 0 .. BlockCount(Extent(job)) - 1 |-> First(x)]
    /\ lanes' = [x \in DOMAIN next' |-> [l \in 0 .. LaneCount - 1 |-> Identity]]
    /\ visits' = [c \in Cells(job) |-> 0]
    /\ UNCHANGED <<job, failed, result>>

\* The rounding up to blocks overflowed: a negative number of blocks passes the
\* test against 0xFFFFFFFF.  Nothing is said of what happens then.
BlocksWrapAround ==
    /\ phase = "sizing"
    /\ Extent(job) > 0
    /\ BlockCount(Extent(job)) <= 0
    /\ phase' = "undefined"
    /\ UNCHANGED <<job, total, lanes, next, failed, visits, result>>

More(x) == next[x] < Past(x)

\* One turn of runKernelRange's loop: an index outside the grid is skipped.
RunIndex(x) ==
    LET i == next[x]
        cell == MapIndex(job, i)
    IN  /\ phase = "running" /\ ~failed
        /\ More(x)
        /\ next' = [next EXCEPT ![x] = i + 1]
        /\ IF cell = Skip
           THEN UNCHANGED <<lanes, visits>>
           ELSE /\ lanes' = [lanes EXCEPT ![BlockOf(i)][Lane(i)] = Op2(@, <<cell>>)]
                /\ visits' = [c \in DOMAIN visits \cup {cell} |->
                                (IF c \in DOMAIN visits THEN visits[c] ELSE 0)
                                + (IF c = cell THEN 1 ELSE 0)]
        /\ UNCHANGED <<job, phase, total, failed, result>>

\* accumulateBlock got something else than a number.
FailIndex(x) ==
    /\ phase = "running" /\ ~failed
    /\ More(x)
    /\ failed' = TRUE
    /\ UNCHANGED <<job, phase, total, lanes, next, visits, result>>

FinishReduce ==
    /\ phase = "running"
    /\ failed \/ \A x \in DOMAIN next : ~More(x)
    /\ phase' = "done"
    /\ result' = IF failed THEN NoResult ELSE Tree(lanes, BlockCount(total))
    /\ UNCHANGED <<job, total, lanes, next, failed, visits>>

Settled == phase \in {"done", "rejected", "undefined"} /\ UNCHANGED vars

Next ==
    \/ Reject
    \/ NothingToRun
    \/ Accept
    \/ BlocksWrapAround
    \/ \E x \in DOMAIN next : RunIndex(x) \/ FailIndex(x)
    \/ FinishReduce
    \/ Settled

Spec == Init /\ [][Next]_vars

-----------------------------------------------------------------------------
\* The sums that round up to whole tiles and whole blocks have no overflow
\* test; this says that they do not wrap around.
NoRoundingWraps ==
    /\ Tiled(job) => job.x + job.tx - 1 <= MaxInt /\ job.y + job.ty - 1 <= MaxInt
    /\ Extent(job) + BlockSize - 1 <= MaxInt

\* A dispatch is over with success.
Succeeded == phase = "done" /\ ~failed

\* A grid is rejected or run whole: the kernel has run once for each cell of
\* the grid and for nothing else, tiled or not.
EachCellOnce ==
    (Succeeded /\ NoRoundingWraps) =>
        /\ DOMAIN visits = Cells(job)
        /\ \A c \in Cells(job) : visits[c] = 1

\* The term of a lane when indices are taken in ascending order.
LaneTerm(x, l) ==
    LET Taken == {i \in First(x) .. Past(x) - 1 : Lane(i) = l /\ MapIndex(job, i) # Skip}
        Nth(n) == CHOOSE i \in Taken : Cardinality({m \in Taken : m <= i}) = n
    IN  [n \in 1 .. Cardinality(Taken) |-> MapIndex(job, Nth(n))]

\* The result does not depend on the order in which participants ran the
\* blocks: it takes the blocks in order, each lane by lane, as the serial path does.
ResultIsDeterministic ==
    LET InOrder[x \in 0 .. BlockCount(total)] ==       \* the first x blocks
            IF x = 0 THEN Identity
            ELSE InOrder[x - 1] \o LaneTerm(x - 1, 0) \o LaneTerm(x - 1, 1)
                                \o LaneTerm(x - 1, 2) \o LaneTerm(x - 1, 3)
    IN  (Succeeded /\ total > 0) => result = InOrder[BlockCount(total)]
=============================================================================
