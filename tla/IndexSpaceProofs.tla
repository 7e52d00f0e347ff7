--------------------------- MODULE IndexSpaceProofs ---------------------------
(***************************************************************************)
(* Proofs about IndexSpace, for any sizes, tile sizes, block size and      *)
(* integer range. The cells of a grid and the linear indices that mapIndex *)
(* does not skip correspond one to one, so that the kernel of a dispatch   *)
(* that succeeds has run once for each cell (sections 1 to 4). The lanes   *)
(* of a block take its values in the order of their indices, and the tree  *)
(* keeps the order of the blocks, so that a reduction has one result       *)
(* (sections 5 to 7).                                                      *)
(***************************************************************************)
EXTENDS IndexSpace, NumberLemmas, SequenceTheorems, FiniteSetTheorems

-----------------------------------------------------------------------------
(* 1. Grids and their extents *)

\* What dispatchJob knows of the numbers of a grid.
ProperGrid(j) ==
    /\ j.dimCount \in 1 .. 3
    /\ j.x \in Nat /\ j.y \in Nat /\ j.z \in Nat
    /\ j.tiled \in BOOLEAN
    /\ j.tx \in Nat \ {0} /\ j.ty \in Nat \ {0}
    /\ j.dimCount = 1 => j.y = 1
    /\ j.dimCount < 3 => j.z = 1

\* No sum that rounds up wraps around, said of a grid.
NoWraps(j) ==
    /\ Tiled(j) => j.x + j.tx - 1 <= MaxInt /\ j.y + j.ty - 1 <= MaxInt
    /\ Extent(j) + BlockSize - 1 <= MaxInt

\* Tiles in a row and tiles in a column.
Across(j) == (j.x + j.tx - 1) \div j.tx
Down(j) == (j.y + j.ty - 1) \div j.ty

Indices(j) == IF Tiled(j) THEN (j.tx * j.ty) * (Across(j) * Down(j)) ELSE (j.x * j.y) * j.z

\* The grids that a script can dispatch over are proper.
LEMMA GridsAreProper == ASSUME NEW j \in Untiled \cup TiledGrids PROVE ProperGrid(j)
<1>2. CASE j \in Untiled
  <2>1. PICK n \in 1 .. 3, x \in Dims, y \in Dims, z \in Dims :
          j = Grid(n, x, IF n >= 2 THEN y ELSE 1, IF n >= 3 THEN z ELSE 1, FALSE, 1, 1)
    BY <1>2 DEF Untiled, Grid
  <2>2. x \in Int /\ y \in Int /\ z \in Int
    BY DimsAssumption
  <2> DEFINE b == IF n >= 2 THEN y ELSE 1  c == IF n >= 3 THEN z ELSE 1
  <2>3. b \in Int /\ c \in Int /\ (n = 1 => b = 1) /\ (n < 3 => c = 1)
    BY <2>2
  <2> HIDE DEF b, c
  <2>4. ProperGrid(Grid(n, x, b, c, FALSE, 1, 1))
    BY <2>2, <2>3 DEF ProperGrid, Grid, AtLeast
  <2>5. QED
    BY <2>1, <2>4, Zenon DEF b, c
<1>3. CASE j \in TiledGrids
  <2>1. PICK x \in Dims, y \in Dims, u \in TileSizes, v \in TileSizes :
          j = Grid(2, x, y, 1, TRUE, u, v)
    BY <1>3 DEF TiledGrids, Grid
  <2>2. x \in Int /\ y \in Int /\ u \in Int /\ v \in Int
    BY DimsAssumption, TileSizesAssumption
  <2>3. ProperGrid(Grid(2, x, y, 1, TRUE, u, v))
    BY <2>2 DEF ProperGrid, Grid, AtLeast
  <2>4. QED
    BY <2>1, <2>3, Zenon
<1>4. QED
  BY <1>2, <1>3

\* A number in range is not changed by Wrap.
LEMMA WrapIsIdentity == ASSUME NEW n \in 0 .. MaxInt PROVE Wrap(n) = n
<1>1. 2 * (MaxInt + 1) \in Nat \ {0} /\ n + MaxInt + 1 \in 0 .. 2 * (MaxInt + 1) - 1
  BY MaxIntAssumption
<1>2. (2 * (MaxInt + 1)) * 0 + (n + MaxInt + 1) = n + MaxInt + 1
  BY <1>1
<1>3. (n + MaxInt + 1) % (2 * (MaxInt + 1)) = n + MaxInt + 1
  BY <1>1, <1>2, DivModUnique
<1>4. QED
  BY <1>3, MaxIntAssumption DEF Wrap

\* A product that mulNonNeg does not refuse is the product.
LEMMA MulNonNegMultiplies ==
    ASSUME NEW a \in Nat, NEW b \in Nat, MulNonNeg(a, b) # Overflow
    PROVE  MulNonNeg(a, b) = a * b
<1>1. a = 0 \/ b = 0 => a * b = 0
  OBVIOUS
<1>2. QED
  BY <1>1 DEF MulNonNeg

\* Where nothing wraps around, rows and columns of tiles are quotients rounded up.
LEMMA TilesRoundUp ==
    ASSUME NEW j, ProperGrid(j), Tiled(j), NoWraps(j)
    PROVE  TilesX(j) = Across(j) /\ TilesY(j) = Down(j)
<1>1. j.x + j.tx - 1 \in 0 .. MaxInt /\ j.y + j.ty - 1 \in 0 .. MaxInt
  BY MaxIntAssumption DEF ProperGrid, NoWraps
<1>2. Wrap(j.x + j.tx - 1) = j.x + j.tx - 1 /\ Wrap(j.y + j.ty - 1) = j.y + j.ty - 1
  BY <1>1, WrapIsIdentity
<1>3. QED
  BY <1>1, <1>2 DEF TilesX, TilesY, Quotient, Across, Down

\* Unless a sum wraps around, the extent counts the indices of the grid.
LEMMA ExtentCountsIndices ==
    ASSUME NEW j, ProperGrid(j), NoWraps(j), Extent(j) # Overflow
    PROVE  Extent(j) = Indices(j)
<1>1. MulNonNeg(j.x, j.y) = j.x * j.y /\ j.x * j.y \in Nat
  BY MulNonNegMultiplies DEF ProperGrid, Extent
<1>2. MulNonNeg(j.x * j.y, j.z) # Overflow
  BY <1>1 DEF Extent
<1>3. MulNonNeg(j.x * j.y, j.z) = (j.x * j.y) * j.z
  BY <1>1, <1>2, MulNonNegMultiplies DEF ProperGrid
<1>4. CASE ~Tiled(j)
  BY <1>1, <1>2, <1>3, <1>4 DEF Extent, Indices
<1>5. CASE Tiled(j)
  <2>1. TilesX(j) = Across(j) /\ TilesY(j) = Down(j)
    BY <1>5, TilesRoundUp
  <2>2. Across(j) \in Nat /\ Down(j) \in Nat /\ j.tx \in Nat /\ j.ty \in Nat
    BY RoundUp DEF ProperGrid, Across, Down
  <2>3. /\ MulNonNeg(Across(j), Down(j)) # Overflow
        /\ MulNonNeg(j.tx, j.ty) # Overflow
        /\ Extent(j) = MulNonNeg(MulNonNeg(Across(j), Down(j)), MulNonNeg(j.tx, j.ty))
    BY <1>1, <1>2, <1>5, <2>1 DEF Extent
  <2>4. /\ MulNonNeg(Across(j), Down(j)) = Across(j) * Down(j)
        /\ MulNonNeg(j.tx, j.ty) = j.tx * j.ty
    BY <2>2, <2>3, MulNonNegMultiplies
  <2> DEFINE a == Across(j) * Down(j)  b == j.tx * j.ty
  <2>5. a \in Nat /\ b \in Nat
    BY <2>2
  <2>6. Extent(j) = MulNonNeg(a, b)
    BY <2>3, <2>4
  <2> HIDE DEF a, b
  <2>7. Extent(j) = b * a
    BY <2>5, <2>6, MulNonNegMultiplies
  <2>8. QED
    BY <1>5, <2>7 DEF a, b, Indices
<1>6. QED
  BY <1>4, <1>5

-----------------------------------------------------------------------------
(* 2. mapIndex is one to one                                               *)

\* The linear index that mapIndex sends to a cell.
IndexOf(j, c) ==
    IF Tiled(j)
    THEN (j.tx * j.ty) * (Across(j) * (c[2] \div j.ty) + (c[1] \div j.tx))
         + (j.tx * (c[2] % j.ty) + (c[1] % j.tx))
    ELSE IF j.dimCount >= 2 THEN (j.x * j.y) * c[3] + (j.x * c[2] + c[1])
    ELSE c[1]

\* Coordinates within the sizes make up a cell.
LEMMA CellsByCoordinates ==
    ASSUME NEW j, NEW a \in 0 .. j.x - 1, NEW b \in 0 .. j.y - 1, NEW c \in 0 .. j.z - 1
    PROVE  <<a, b, c>> \in Cells(j)
BY DEF Cells

\* Two positive factors of a positive product.
LEMMA PositiveFactors ==
    ASSUME NEW a \in Nat, NEW b \in Nat, a * b > 0
    PROVE  a > 0 /\ b > 0
<1>1. a = 0 => a * b = 0
  OBVIOUS
<1>2. b = 0 => a * b = 0
  OBVIOUS
<1>3. QED
  BY <1>1, <1>2

\* The indices of a tiled grid: the tile, and the place in the tile.
LEMMA TiledMapping ==
    ASSUME NEW j, ProperGrid(j), NoWraps(j), Tiled(j), Indices(j) > 0
    PROVE  /\ \A i \in 0 .. Indices(j) - 1 :
                 \/ MapIndex(j, i) = Skip
                 \/ MapIndex(j, i) \in Cells(j) /\ IndexOf(j, MapIndex(j, i)) = i
           /\ \A c \in Cells(j) :
                 /\ IndexOf(j, c) \in 0 .. Indices(j) - 1
                 /\ MapIndex(j, IndexOf(j, c)) = c
<1> DEFINE w == j.tx * j.ty  n == Across(j)  m == Down(j)
<1>1. /\ j.x \in Nat /\ j.y \in Nat /\ j.z = 1 /\ j.dimCount = 2
      /\ j.tx \in Nat \ {0} /\ j.ty \in Nat \ {0}
  BY DEF ProperGrid, Tiled
<1>2. /\ n \in Nat /\ \A a \in 0 .. j.x - 1 : a \div j.tx < n
      /\ m \in Nat /\ \A b \in 0 .. j.y - 1 : b \div j.ty < m
  BY <1>1, RoundUp DEF Across, Down
<1>3. w \in Nat /\ n * m \in Nat /\ Indices(j) = w * (n * m)
  BY <1>1, <1>2 DEF Indices
<1>4. w \in Nat \ {0} /\ n \in Nat \ {0} /\ m \in Nat \ {0}
  <2>1. w > 0 /\ n * m > 0
    BY <1>3, PositiveFactors
  <2>2. n > 0 /\ m > 0
    BY <1>2, <2>1, PositiveFactors
  <2>3. QED
    BY <1>2, <1>3, <2>1, <2>2
<1>5. TilesX(j) = n
  BY TilesRoundUp
<1>6. ASSUME NEW i \in 0 .. Indices(j) - 1
      PROVE  \/ MapIndex(j, i) = Skip
             \/ MapIndex(j, i) \in Cells(j) /\ IndexOf(j, MapIndex(j, i)) = i
  <2> DEFINE r == i % w  t == i \div w
             p == t % n  q == t \div n
             u == r % j.tx  v == r \div j.tx
             ix == p * j.tx + u  iy == q * j.ty + v
  <2>1. i \in Nat /\ i < w * (n * m)
    BY <1>3
  <2>2. t \in Nat /\ r \in 0 .. w - 1 /\ i = w * t + r
    BY <1>4, <2>1, DivMod
  <2>3. t < n * m
    BY <1>3, <1>4, <2>1, DivBelow
  <2>4. q \in Nat /\ p \in 0 .. n - 1 /\ t = n * q + p
    BY <1>4, <2>2, DivMod
  <2>5. r \in Nat /\ r < j.tx * j.ty
    BY <1>4, <2>2
  <2>6. v \in Nat /\ u \in 0 .. j.tx - 1 /\ r = j.tx * v + u /\ v < j.ty
    <3>1. v < j.ty
      BY <1>1, <2>5, DivBelow
    <3>2. QED
      BY <1>1, <2>5, <3>1, DivMod
  <2>7. MapIndex(j, i) = IF ix >= j.x \/ iy >= j.y THEN Skip ELSE <<ix, iy, 0>>
    BY <1>5 DEF MapIndex
  <2>8. ASSUME ix < j.x, iy < j.y
        PROVE  <<ix, iy, 0>> \in Cells(j) /\ IndexOf(j, <<ix, iy, 0>>) = i
    <3> HIDE DEF w, n, m, r, t, p, q, u, v
    <3>1. ix \in 0 .. j.x - 1 /\ iy \in 0 .. j.y - 1 /\ 0 \in 0 .. j.z - 1
      BY <1>1, <2>4, <2>6, <2>8
    <3>2. ix = j.tx * p + u /\ iy = j.ty * q + v
      BY <1>1, <2>4, <2>6
    <3> HIDE DEF ix, iy
    <3>0. p \in Nat /\ u \in 0 .. j.tx - 1 /\ q \in Nat /\ v \in 0 .. j.ty - 1
      BY <1>1, <1>4, <2>4, <2>6
    <3>3. ix \div j.tx = p /\ ix % j.tx = u
      <4>1. (j.tx * p + u) \div j.tx = p /\ (j.tx * p + u) % j.tx = u
        BY <1>1, <3>0, DivModUnique
      <4>2. QED
        BY <3>2, <4>1
    <3>4. iy \div j.ty = q /\ iy % j.ty = v
      <4>1. (j.ty * q + v) \div j.ty = q /\ (j.ty * q + v) % j.ty = v
        BY <1>1, <3>0, DivModUnique
      <4>2. QED
        BY <3>2, <4>1
    <3>5. IndexOf(j, <<ix, iy, 0>>) = w * (n * q + p) + (j.tx * v + u)
      BY <3>3, <3>4 DEF IndexOf, w, n
    <3>6. QED
      BY <2>2, <2>4, <2>6, <3>1, <3>5, CellsByCoordinates
  <2> HIDE DEF ix, iy
  <2>9. ix \in Int /\ iy \in Int
    BY <1>1, <2>4, <2>6 DEF ix, iy
  <2>10. QED
    BY <1>1, <2>7, <2>8, <2>9
<1>7. ASSUME NEW c \in Cells(j)
      PROVE  IndexOf(j, c) \in 0 .. Indices(j) - 1 /\ MapIndex(j, IndexOf(j, c)) = c
  <2>1. PICK a \in 0 .. j.x - 1, b \in 0 .. j.y - 1, d \in 0 .. j.z - 1 : c = <<a, b, d>>
    BY DEF Cells
  <2>2. a \in Nat /\ b \in Nat /\ d = 0 /\ a < j.x /\ b < j.y
    BY <1>1
  <2> DEFINE p == a \div j.tx  u == a % j.tx  q == b \div j.ty  v == b % j.ty
             t == n * q + p  r == j.tx * v + u
  <2>3. p \in 0 .. n - 1 /\ u \in 0 .. j.tx - 1 /\ a = j.tx * p + u
    <3>1. p \in Nat /\ u \in 0 .. j.tx - 1 /\ a = j.tx * p + u
      BY <1>1, <2>2, DivMod
    <3>2. p < n
      BY <1>2
    <3> HIDE DEF p, u, n
    <3>3. QED
      BY <1>4, <3>1, <3>2
  <2>4. q \in 0 .. m - 1 /\ v \in 0 .. j.ty - 1 /\ b = j.ty * q + v
    <3>1. q \in Nat /\ v \in 0 .. j.ty - 1 /\ b = j.ty * q + v
      BY <1>1, <2>2, DivMod
    <3>2. q < m
      BY <1>2
    <3> HIDE DEF q, v, m
    <3>3. QED
      BY <1>4, <3>1, <3>2
  <2>5. IndexOf(j, c) = w * t + r
    BY <2>1 DEF IndexOf
  <2> HIDE DEF w, n, m, p, q, u, v
  <2>6. t \in 0 .. n * m - 1
    BY <1>4, <2>3, <2>4, DigitsBelow
  <2>7. r \in 0 .. w - 1
    <3>1. r \in 0 .. j.tx * j.ty - 1
      BY <1>1, <2>3, <2>4, DigitsBelow
    <3>2. QED
      BY <3>1 DEF w
  <2>8. t \div n = q /\ t % n = p /\ r \div j.tx = v /\ r % j.tx = u
    <3>0. q \in Nat /\ v \in Nat
      BY <1>1, <1>4, <2>4
    <3>1. t \div n = q /\ t % n = p
      BY <1>4, <2>3, <3>0, DivModUnique
    <3>2. r \div j.tx = v /\ r % j.tx = u
      BY <1>1, <2>3, <3>0, DivModUnique
    <3>3. QED
      BY <3>1, <3>2
  <2> HIDE DEF t, r
  <2>9. w * t + r \in 0 .. w * (n * m) - 1
    BY <1>3, <1>4, <2>6, <2>7, DigitsBelow
  <2>10. (w * t + r) \div w = t /\ (w * t + r) % w = r
    BY <1>4, <2>6, <2>7, DivModUnique
  <2> DEFINE i == w * t + r
  <2>11. i \div w = t /\ i % w = r /\ IndexOf(j, c) = i
    BY <2>5, <2>10
  <2> HIDE DEF i
  <2>12. MapIndex(j, i) = IF p * j.tx + u >= j.x \/ q * j.ty + v >= j.y THEN Skip
                         ELSE <<p * j.tx + u, q * j.ty + v, 0>>
    BY <1>5, <2>8, <2>11 DEF MapIndex, w
  <2>13. p * j.tx + u = a /\ q * j.ty + v = b
    BY <1>1, <2>3, <2>4
  <2>14. MapIndex(j, i) = <<a, b, 0>>
    BY <1>1, <2>2, <2>12, <2>13
  <2>15. QED
    BY <1>3, <2>1, <2>2, <2>9, <2>11, <2>14 DEF i
<1>8. QED
  BY <1>6, <1>7

\* The indices of an untiled grid: rows of x cells, planes of x * y cells.
LEMMA UntiledMapping ==
    ASSUME NEW j, ProperGrid(j), ~Tiled(j), Indices(j) > 0
    PROVE  /\ \A i \in 0 .. Indices(j) - 1 :
                 MapIndex(j, i) \in Cells(j) /\ IndexOf(j, MapIndex(j, i)) = i
           /\ \A c \in Cells(j) :
                 /\ IndexOf(j, c) \in 0 .. Indices(j) - 1
                 /\ MapIndex(j, IndexOf(j, c)) = c
<1> DEFINE x == j.x  y == j.y  z == j.z  w == x * y
<1>1. x \in Nat /\ y \in Nat /\ z \in Nat /\ w \in Nat /\ Indices(j) = w * z
  BY DEF ProperGrid, Indices
<1>2. x \in Nat \ {0} /\ y \in Nat \ {0} /\ w \in Nat \ {0} /\ z \in Nat \ {0}
  <2>1. w > 0 /\ z > 0
    BY <1>1, PositiveFactors
  <2>2. x > 0 /\ y > 0
    BY <1>1, <2>1, PositiveFactors
  <2>3. QED
    BY <1>1, <2>1, <2>2
<1>3. CASE j.dimCount = 1
  <2>1. y = 1 /\ z = 1 /\ Indices(j) = x
    BY <1>1, <1>3 DEF ProperGrid
  <2>2. \A i : MapIndex(j, i) = <<i, 0, 0>>
    BY <1>3 DEF MapIndex, Tiled
  <2>3. \A c : IndexOf(j, c) = c[1]
    BY <1>3 DEF IndexOf, Tiled
  <2>4. ASSUME NEW i \in 0 .. Indices(j) - 1
        PROVE  MapIndex(j, i) \in Cells(j) /\ IndexOf(j, MapIndex(j, i)) = i
    <3>1. <<i, 0, 0>> \in Cells(j)
      BY <2>1, CellsByCoordinates
    <3>2. QED
      BY <2>2, <2>3, <3>1
  <2>5. ASSUME NEW c \in Cells(j)
        PROVE  IndexOf(j, c) \in 0 .. Indices(j) - 1 /\ MapIndex(j, IndexOf(j, c)) = c
    <3>1. PICK a \in 0 .. x - 1, b \in 0 .. y - 1, d \in 0 .. z - 1 : c = <<a, b, d>>
      BY DEF Cells
    <3>2. b = 0 /\ d = 0
      BY <2>1
    <3>3. QED
      BY <2>1, <2>2, <2>3, <3>1, <3>2
  <2>6. QED
    BY <2>4, <2>5
<1>4. CASE j.dimCount # 1
  <2>1. j.dimCount >= 2
    BY <1>4 DEF ProperGrid
  <2>2. \A i : MapIndex(j, i) = <<i % x, (i \div x) % y, i \div w>>
    BY <2>1 DEF MapIndex
  <2>3. \A c : IndexOf(j, c) = w * c[3] + (x * c[2] + c[1])
    BY <2>1 DEF IndexOf
  <2>4. ASSUME NEW i \in 0 .. Indices(j) - 1
        PROVE  MapIndex(j, i) \in Cells(j) /\ IndexOf(j, MapIndex(j, i)) = i
    <3> DEFINE a == i % x  q == i \div x  b == q % y  d == q \div y
    <3>1. i \in Nat /\ i < w * z
      BY <1>1
    <3>2. q \in Nat /\ a \in 0 .. x - 1 /\ i = x * q + a
      BY <1>2, <3>1, DivMod
    <3>3. d \in Nat /\ b \in 0 .. y - 1 /\ q = y * d + b
      BY <1>2, <3>2, DivMod
    <3>4. i \div w = d
      BY <1>2, <3>1, DivDiv
    <3>5. d < z
      <4>1. i \div w < z
        BY <1>1, <1>2, <3>1, DivBelow
      <4>2. QED
        BY <3>4, <4>1
    <3>6. MapIndex(j, i) = <<a, b, d>>
      BY <2>2, <3>4
    <3> HIDE DEF a, q, b, d
    <3>7. <<a, b, d>> \in Cells(j)
      BY <1>1, <3>2, <3>3, <3>5, CellsByCoordinates
    <3>8. IndexOf(j, <<a, b, d>>) = w * d + (x * b + a)
      BY <2>3
    <3>9. w * d + (x * b + a) = x * (y * d + b) + a
      <4>1. a \in Nat /\ b \in Nat /\ d \in Nat
        BY <1>1, <3>2, <3>3
      <4>2. QED
        BY <1>1, <4>1
    <3>10. QED
      BY <3>2, <3>3, <3>6, <3>7, <3>8, <3>9
  <2>5. ASSUME NEW c \in Cells(j)
        PROVE  IndexOf(j, c) \in 0 .. Indices(j) - 1 /\ MapIndex(j, IndexOf(j, c)) = c
    <3>1. PICK a \in 0 .. x - 1, b \in 0 .. y - 1, d \in 0 .. z - 1 : c = <<a, b, d>>
      BY DEF Cells
    <3> DEFINE q == y * d + b  r == x * b + a
    <3>2. a \in Nat /\ b \in Nat /\ d \in Nat /\ q \in Nat /\ r \in Nat
      BY <1>1
    <3>3. r \in 0 .. w - 1
      BY <1>2, DigitsBelow
    <3>4. w * d + r \in 0 .. w * z - 1
      <4> HIDE DEF r, w
      <4>1. QED
        BY <1>1, <1>2, <3>3, DigitsBelow
    <3>5. w * d + r = x * q + a
      BY <1>1, <3>2
    <3>6. (w * d + r) \div w = d
      <4> HIDE DEF r, w
      <4>1. QED
        BY <1>2, <3>2, <3>3, DivModUnique
    <3>7. (x * q + a) \div x = q /\ (x * q + a) % x = a
      <4> HIDE DEF q
      <4>1. QED
        BY <1>2, <3>2, DivModUnique
    <3>8. q % y = b
      BY <1>2, <3>2, DivModUnique
    <3>9. IndexOf(j, c) = w * d + r
      BY <2>3, <3>1
    <3> DEFINE i == w * d + r
    <3>10. i \div w = d /\ i \div x = q /\ i % x = a /\ IndexOf(j, c) = i
      BY <3>5, <3>6, <3>7, <3>9
    <3> HIDE DEF i, q
    <3>11. MapIndex(j, i) = <<a, b, d>>
      BY <2>2, <3>8, <3>10
    <3>12. QED
      BY <1>1, <3>1, <3>4, <3>10, <3>11 DEF i
  <2>6. QED
    BY <2>4, <2>5
<1>5. QED
  BY <1>3, <1>4

\* mapIndex maps the indices it does not skip one to one onto the cells.
LEMMA Mapping ==
    ASSUME NEW j, ProperGrid(j), NoWraps(j), Indices(j) > 0
    PROVE  /\ \A i \in 0 .. Indices(j) - 1 :
                 \/ MapIndex(j, i) = Skip
                 \/ MapIndex(j, i) \in Cells(j) /\ IndexOf(j, MapIndex(j, i)) = i
           /\ \A c \in Cells(j) :
                 /\ IndexOf(j, c) \in 0 .. Indices(j) - 1
                 /\ MapIndex(j, IndexOf(j, c)) = c
<1>1. CASE Tiled(j)
  BY <1>1, TiledMapping
<1>2. CASE ~Tiled(j)
  BY <1>2, UntiledMapping
<1>3. QED
  BY <1>1, <1>2

\* A grid without indices has no cells.
LEMMA NoIndicesNoCells ==
    ASSUME NEW j, ProperGrid(j), Indices(j) = 0
    PROVE  Cells(j) = {}
<1>1. SUFFICES ASSUME j.x > 0, j.y > 0, j.z > 0 PROVE FALSE
  BY DEF Cells, ProperGrid
<1>2. \A a, b \in Nat \ {0} : a * b \in Nat \ {0}
  OBVIOUS
<1>3. CASE Tiled(j)
  <2>1. Across(j) \in Nat \ {0} /\ Down(j) \in Nat \ {0}
    <3>1. /\ j.x \in Nat /\ j.tx \in Nat \ {0} /\ j.x > 0
          /\ j.y \in Nat /\ j.ty \in Nat \ {0} /\ j.y > 0
      BY <1>1 DEF ProperGrid
    <3>2. (j.x + j.tx - 1) \div j.tx \in Nat /\ (j.x + j.tx - 1) \div j.tx > 0
      BY <3>1, RoundUp
    <3>3. (j.y + j.ty - 1) \div j.ty \in Nat /\ (j.y + j.ty - 1) \div j.ty > 0
      BY <3>1, RoundUp
    <3>4. QED
      BY <3>2, <3>3 DEF Across, Down
  <2>2. Across(j) * Down(j) \in Nat \ {0} /\ j.tx * j.ty \in Nat \ {0}
    BY <1>2, <2>1 DEF ProperGrid
  <2>3. (j.tx * j.ty) * (Across(j) * Down(j)) \in Nat \ {0}
    BY <1>2, <2>2, Zenon
  <2>4. QED
    BY <1>3, <2>3 DEF Indices
<1>4. CASE ~Tiled(j)
  <2>1. j.x * j.y \in Nat \ {0} /\ j.z \in Nat \ {0}
    BY <1>1, <1>2 DEF ProperGrid
  <2>2. (j.x * j.y) * j.z \in Nat \ {0}
    BY <1>2, <2>1, Zenon
  <2>3. QED
    BY <1>4, <2>2 DEF Indices
<1>5. QED
  BY <1>3, <1>4

-----------------------------------------------------------------------------
(* 3. What has run                                                         *)

Blocks == (total + BlockSize - 1) \div BlockSize

\* A block has run its indices below next, each once.
Progress ==
    /\ total = Indices(job) /\ total \in Nat /\ total > 0
    /\ next \in [0 .. Blocks - 1 -> Int]
    /\ \A x \in 0 .. Blocks - 1 : First(x) <= next[x] /\ next[x] <= Past(x)
    /\ visits = [c \in Cells(job) |->
                    IF IndexOf(job, c) < next[BlockOf(IndexOf(job, c))] THEN 1 ELSE 0]

SpaceInv ==
    /\ ProperGrid(job)
    /\ phase = "sizing" => visits = <<>>
    /\ phase = "running" /\ NoWraps(job) => Progress
    /\ phase = "done" /\ NoWraps(job) =>
         \/ Indices(job) = 0 /\ visits = <<>>
         \/ Progress /\ (failed \/ \A x \in DOMAIN next : ~More(x))

\* Each index below total lies in one of the blocks.
LEMMA IndexInBlock ==
    ASSUME total \in Nat, NEW i \in 0 .. total - 1
    PROVE  /\ BlockOf(i) \in 0 .. Blocks - 1
           /\ First(BlockOf(i)) \in Nat
           /\ First(BlockOf(i)) <= i /\ i < Past(BlockOf(i))
<1> DEFINE x == i \div BlockSize
<1>1. i \in Nat /\ BlockSize \in Nat \ {0}
  BY BlockSizeAssumption
<1>2. x \in Nat /\ i % BlockSize \in 0 .. BlockSize - 1 /\ i = BlockSize * x + (i % BlockSize)
  BY <1>1, DivMod
<1>3. x < Blocks /\ Blocks \in Nat
  BY <1>1, RoundUp DEF Blocks
<1> HIDE DEF x
<1>4. x * BlockSize \in Nat /\ x * BlockSize = BlockSize * x
  BY <1>1, <1>2
<1>5. x * BlockSize <= i /\ i < x * BlockSize + BlockSize
  BY <1>1, <1>2, <1>4
<1>6. QED
  BY <1>2, <1>3, <1>4, <1>5 DEF x, BlockOf, First, Past

\* An index that a block has yet to run is in no other block.
LEMMA BlockOfNext ==
    ASSUME total \in Nat, NEW x \in Nat, NEW i \in Int, First(x) <= i, i < Past(x)
    PROVE  BlockOf(i) = x /\ i \in 0 .. total - 1
<1> DEFINE f == x * BlockSize  r == i - f
<1>1. BlockSize \in Nat \ {0} /\ f \in Nat /\ f = BlockSize * x
  BY BlockSizeAssumption
<1>2. f <= i /\ i < f + BlockSize /\ i < total
  <2> HIDE DEF r
  <2>1. f <= i /\ i < (IF f + BlockSize < total THEN f + BlockSize ELSE total)
    BY DEF First, Past
  <2> HIDE DEF f
  <2>2. QED
    BY <1>1, <2>1
<1>3. r \in 0 .. BlockSize - 1 /\ i = BlockSize * x + r
  BY <1>1, <1>2
<1> HIDE DEF r, f
<1>4. i \div BlockSize = x
  BY <1>1, <1>3, DivModUnique
<1>5. QED
  BY <1>1, <1>2, <1>4 DEF BlockOf

\* No cell is the mark of a skipped index.
LEMMA CellsAreNotSkip == ASSUME NEW j, NEW c \in Cells(j) PROVE c # Skip
<1>1. PICK a, b, d : c = <<a, b, d>>
  BY DEF Cells
<1>2. QED
  BY <1>1 DEF Skip

\* Running an index keeps what the indices below next have done.
LEMMA RunIndexProgress ==
    ASSUME ProperGrid(job), NoWraps(job), Progress, NEW x \in DOMAIN next, RunIndex(x)
    PROVE  Progress'
<1> DEFINE i == next[x]  cell == MapIndex(job, i)
           k(c) == IndexOf(job, c)
<1>1. x \in 0 .. Blocks - 1 /\ x \in Nat /\ i \in Int /\ First(x) <= i /\ i < Past(x)
  BY DEF Progress, RunIndex, More
<1>2. BlockOf(i) = x /\ i \in 0 .. total - 1
  BY <1>1, BlockOfNext DEF Progress
<1>3. /\ next' = [next EXCEPT ![x] = i + 1]
      /\ job' = job /\ total' = total
  BY DEF RunIndex
<1>4. Blocks' = Blocks /\ \A y : First(y)' = First(y) /\ Past(y)' = Past(y)
  BY <1>3 DEF Blocks, First, Past
<1>5. next' \in [0 .. Blocks - 1 -> Int]
  BY <1>1, <1>3 DEF Progress
<1>6. ASSUME NEW y \in 0 .. Blocks - 1 PROVE First(y) <= next'[y] /\ next'[y] <= Past(y)
  <2>1. First(y) \in Int /\ Past(y) \in Int
    BY BlockSizeAssumption DEF First, Past, Progress
  <2>2. First(y) <= next[y] /\ next[y] <= Past(y)
    BY DEF Progress
  <2>3. CASE y = x
    BY <1>1, <1>3, <2>1, <2>2, <2>3 DEF Progress
  <2>4. CASE y # x
    BY <1>3, <2>2, <2>4 DEF Progress
  <2>5. QED
    BY <2>3, <2>4
<1>7. /\ \A c \in Cells(job) : k(c) \in 0 .. total - 1 /\ MapIndex(job, k(c)) = c
      /\ cell = Skip \/ (cell \in Cells(job) /\ k(cell) = i)
  <2>1. total = Indices(job) /\ Indices(job) > 0
    BY DEF Progress
  <2>2. i \in 0 .. Indices(job) - 1
    BY <1>2, <2>1
  <2> HIDE DEF i
  <2>3. /\ \A c \in Cells(job) : /\ IndexOf(job, c) \in 0 .. Indices(job) - 1
                                 /\ MapIndex(job, IndexOf(job, c)) = c
        /\ \/ MapIndex(job, i) = Skip
           \/ MapIndex(job, i) \in Cells(job) /\ IndexOf(job, MapIndex(job, i)) = i
    BY <2>1, <2>2, Mapping
  <2>4. \A c \in Cells(job) : k(c) \in 0 .. total - 1 /\ MapIndex(job, k(c)) = c
    BY <2>1, <2>3
  <2>5. cell = Skip \/ (cell \in Cells(job) /\ k(cell) = i)
    BY <2>3
  <2>6. QED
    BY <2>4, <2>5
<1>8. \A c \in Cells(job) : BlockOf(k(c)) \in 0 .. Blocks - 1
  BY <1>7, IndexInBlock DEF Progress
<1> HIDE DEF k
<1>9. ASSUME NEW c \in Cells(job), c # cell
      PROVE  k(c) < next'[BlockOf(k(c))] <=> k(c) < next[BlockOf(k(c))]
  <2>1. k(c) # i /\ k(c) \in Int
    BY <1>7, <1>9
  <2>2. CASE BlockOf(k(c)) = x
    <3>1. next'[BlockOf(k(c))] = i + 1 /\ next[BlockOf(k(c))] = i
      BY <1>1, <1>3, <2>2 DEF Progress
    <3>2. k(c) < i + 1 <=> k(c) < i
      BY <1>1, <2>1
    <3>3. QED
      BY <3>1, <3>2
  <2>3. CASE BlockOf(k(c)) # x
    BY <1>3, <1>8, <2>3 DEF Progress
  <2>4. QED
    BY <2>2, <2>3
<1>10. visits' = [c \in Cells(job) |-> IF k(c) < next'[BlockOf(k(c))] THEN 1 ELSE 0]
  <2>1. visits = [c \in Cells(job) |-> IF k(c) < next[BlockOf(k(c))] THEN 1 ELSE 0]
    BY DEF Progress, k
  <2>2. CASE cell = Skip
    <3>1. visits' = visits
      BY <2>2 DEF RunIndex
    <3>2. \A c \in Cells(job) : c # cell
      BY <2>2, CellsAreNotSkip
    <3>3. QED
      BY <1>9, <2>1, <3>1, <3>2
  <2>3. CASE cell # Skip
    <3>1. visits' = [c \in DOMAIN visits \cup {cell} |->
                       (IF c \in DOMAIN visits THEN visits[c] ELSE 0)
                       + (IF c = cell THEN 1 ELSE 0)]
      BY <2>3 DEF RunIndex
    <3>2. cell \in Cells(job) /\ k(cell) = i /\ DOMAIN visits = Cells(job)
      BY <1>7, <2>1, <2>3
    <3> HIDE DEF cell
    <3>3. visits' = [c \in Cells(job) |-> visits[c] + (IF c = cell THEN 1 ELSE 0)]
      <4>1. Cells(job) \cup {cell} = Cells(job)
        BY <3>2
      <4>2. QED
        BY <3>1, <3>2, <4>1
    <3>4. visits[cell] = 0 /\ i < next'[BlockOf(k(cell))]
      <4>1. next[BlockOf(k(cell))] = i /\ next'[BlockOf(k(cell))] = i + 1
        BY <1>1, <1>2, <1>3, <3>2 DEF Progress
      <4> HIDE DEF i
      <4>2. QED
        BY <1>1, <2>1, <3>2, <4>1
    <3>5. ASSUME NEW c \in Cells(job)
          PROVE  visits[c] + (IF c = cell THEN 1 ELSE 0)
                   = IF k(c) < next'[BlockOf(k(c))] THEN 1 ELSE 0
      <4>1. CASE c = cell
        BY <3>2, <3>4, <4>1
      <4>2. CASE c # cell
        BY <1>9, <2>1, <4>2
      <4>3. QED
        BY <4>1, <4>2
    <3>6. QED
      BY <3>3, <3>5
  <2>4. QED
    BY <2>2, <2>3
<1>11. \A y : BlockOf(y)' = BlockOf(y)
  BY DEF BlockOf
<1>12. QED
  BY <1>3, <1>4, <1>5, <1>6, <1>10 DEF Progress, k

\* The blocks of a job cover its indices and no more.
LEMMA BlocksRoundUp ==
    ASSUME NEW n \in Nat, n + BlockSize - 1 <= MaxInt
    PROVE  BlockCount(n) = (n + BlockSize - 1) \div BlockSize
<1>1. n + BlockSize - 1 \in 0 .. MaxInt
  BY BlockSizeAssumption, MaxIntAssumption
<1>2. Wrap(n + BlockSize - 1) = n + BlockSize - 1
  BY <1>1, WrapIsIdentity
<1>3. QED
  BY <1>1, <1>2 DEF BlockCount, Quotient

\* When a job is accepted no index has been run.
LEMMA AcceptProgress ==
    ASSUME ProperGrid(job), NoWraps(job), Accept
    PROVE  Progress'
<1>1. job' = job /\ total' = Extent(job) /\ Extent(job) > 0 /\ Extent(job) # Overflow
  BY DEF Accept, Overflow
<1>2. Extent(job) = Indices(job)
  BY <1>1, ExtentCountsIndices
<1> DEFINE n == Extent(job)
<1>3. n \in Nat
  <2>1. Indices(job) \in Int
    <3>1. CASE Tiled(job)
      <4>1. Across(job) \in Nat /\ Down(job) \in Nat
        BY RoundUp DEF ProperGrid, Across, Down
      <4>2. QED
        BY <3>1, <4>1 DEF Indices, ProperGrid
    <3>2. CASE ~Tiled(job)
      BY <3>2 DEF Indices, ProperGrid
    <3>3. QED
      BY <3>1, <3>2
  <2>2. QED
    BY <1>1, <1>2, <2>1
<1> HIDE DEF n
<1>4. BlockCount(n) = (n + BlockSize - 1) \div BlockSize /\ Blocks' = BlockCount(n)
  <2>1. n + BlockSize - 1 <= MaxInt
    BY DEF n, NoWraps
  <2>2. QED
    BY <1>1, <1>3, <2>1, BlocksRoundUp DEF n, Blocks
<1>5. next' = [x \in 0 .. BlockCount(n) - 1 |-> First(x)] /\ BlockCount(n) \in Nat
  <2>1. BlockCount(n) \in Nat
    BY <1>3, <1>4, RoundUp, BlockSizeAssumption
  <2>2. QED
    BY <2>1 DEF Accept, n
<1>6. \A x : First(x)' = First(x) /\ BlockOf(x)' = BlockOf(x)
  BY DEF First, BlockOf
<1>7. \A x \in 0 .. BlockCount(n) - 1 : First(x) \in Int
  BY <1>5, BlockSizeAssumption DEF First
<1>8. ASSUME NEW x \in 0 .. BlockCount(n) - 1
      PROVE  First(x)' <= next'[x] /\ next'[x] <= Past(x)'
  <2>1. x * BlockSize < n
    <3> DEFINE q == (n + BlockSize - 1) \div BlockSize
    <3>1. /\ n + BlockSize - 1 \in Nat /\ BlockSize \in Nat \ {0} /\ x \in Nat
          /\ x + 1 <= q /\ q \in Nat
      BY <1>3, <1>4, <1>5, BlockSizeAssumption
    <3>2. BlockSize * q <= n + BlockSize - 1
      BY <3>1, DivFloor
    <3> HIDE DEF q
    <3>3. BlockSize * (x + 1) <= BlockSize * q
      BY <3>1
    <3>4. BlockSize * (x + 1) = x * BlockSize + BlockSize /\ x * BlockSize \in Nat
      BY <3>1
    <3>5. QED
      BY <1>3, <3>1, <3>2, <3>3, <3>4
  <2>2. next'[x] = First(x) /\ First(x) \in Int
    BY <1>5, <1>7
  <2>3. Past(x)' = IF First(x) + BlockSize < n THEN First(x) + BlockSize ELSE n
    BY <1>1, <1>6 DEF Past, n
  <2>4. QED
    BY <1>3, <1>6, <2>1, <2>2, <2>3, BlockSizeAssumption DEF First
<1>9. ASSUME NEW c \in Cells(job)
      PROVE  ~(IndexOf(job, c) < next'[BlockOf(IndexOf(job, c))])
  <2> DEFINE k == IndexOf(job, c)
  <2>1. k \in 0 .. n - 1
    BY <1>1, <1>2, Mapping DEF n
  <2> HIDE DEF k
  <2>2. n' = n /\ total' = n
    BY <1>1, <1>3 DEF n
  <2>3. k \in Nat /\ k < n /\ BlockSize \in Nat \ {0}
    BY <1>3, <2>1, BlockSizeAssumption
  <2> DEFINE x == k \div BlockSize
  <2>4. x \in Nat /\ BlockSize * x <= k
    BY <2>3, DivFloor
  <2>5. x < BlockCount(n)
    BY <1>3, <1>4, <2>1, <2>3, RoundUp
  <2> HIDE DEF x
  <2>6. next'[x] = x * BlockSize /\ x * BlockSize = BlockSize * x
    BY <1>5, <2>3, <2>4, <2>5 DEF First
  <2>7. QED
    BY <2>3, <2>4, <2>6 DEF BlockOf, k, x
<1>10. visits' = [c \in Cells(job) |->
                    IF IndexOf(job, c) < next'[BlockOf(IndexOf(job, c))] THEN 1 ELSE 0]
  <2>1. visits' = [c \in Cells(job) |-> 0]
    BY DEF Accept
  <2>2. QED
    BY <1>9, <2>1
<1>11. next' \in [0 .. BlockCount(n) - 1 -> Int]
  BY <1>5, <1>7
<1>12. QED
  BY <1>1, <1>2, <1>3, <1>4, <1>6, <1>8, <1>10, <1>11 DEF Progress, n

-----------------------------------------------------------------------------
(* 4. The theorem                                                          *)

\* While nothing that Progress speaks of changes, it stays true.
LEMMA ProgressFrame ==
    ASSUME Progress, UNCHANGED <<job, total, next, visits>>
    PROVE  Progress'
BY DEF Progress, Blocks, First, Past, BlockOf

\* Every step keeps the invariant on visits.
LEMMA SpaceInvStep == ASSUME SpaceInv, [Next]_vars PROVE SpaceInv'
<1>1. job' = job
  BY DEF Next, vars, Reject, NothingToRun, Accept, BlocksWrapAround, RunIndex, FailIndex,
         FinishReduce, Settled
<1>2. ProperGrid(job') /\ (NoWraps(job') <=> NoWraps(job))
  BY <1>1 DEF SpaceInv
<1>3. CASE Reject
  BY <1>2, <1>3 DEF SpaceInv, Reject
<1>4. CASE NothingToRun
  <2>1. Extent(job) # Overflow /\ Extent(job) = 0 /\ visits = <<>>
    BY <1>4 DEF NothingToRun, Overflow, SpaceInv
  <2>2. NoWraps(job) => Indices(job) = 0
    BY <2>1, ExtentCountsIndices DEF SpaceInv
  <2>3. QED
    BY <1>1, <1>2, <1>4, <2>1, <2>2 DEF SpaceInv, NothingToRun
<1>5. CASE Accept
  <2>1. NoWraps(job) => Progress'
    BY <1>5, AcceptProgress DEF SpaceInv
  <2>2. phase' = "running"
    BY <1>5 DEF Accept
  <2>3. QED
    BY <1>1, <1>2, <2>1, <2>2 DEF SpaceInv
<1>6. CASE BlocksWrapAround
  BY <1>2, <1>6 DEF SpaceInv, BlocksWrapAround
<1>7. ASSUME NEW x \in DOMAIN next, RunIndex(x) PROVE SpaceInv'
  <2>1. phase = "running" /\ phase' = "running"
    BY <1>7 DEF RunIndex
  <2>2. NoWraps(job) => Progress'
    BY <1>7, <2>1, RunIndexProgress DEF SpaceInv
  <2>3. QED
    BY <1>1, <1>2, <2>1, <2>2 DEF SpaceInv
<1>8. ASSUME NEW x \in DOMAIN next, FailIndex(x) PROVE SpaceInv'
  <2>1. phase = "running" /\ phase' = "running" /\ UNCHANGED <<job, total, next, visits>>
    BY <1>8 DEF FailIndex
  <2>2. NoWraps(job) => Progress'
    BY <2>1, ProgressFrame DEF SpaceInv
  <2>3. QED
    BY <1>1, <1>2, <2>1, <2>2 DEF SpaceInv
<1>9. CASE FinishReduce
  <2>1. /\ phase = "running" /\ phase' = "done"
        /\ UNCHANGED <<job, total, next, failed, visits>>
        /\ failed \/ \A x \in DOMAIN next : ~More(x)
    BY <1>9 DEF FinishReduce
  <2>2. NoWraps(job) => Progress'
    BY <2>1, ProgressFrame DEF SpaceInv
  <2>3. failed' \/ (\A x \in DOMAIN next : ~More(x))'
    BY <2>1 DEF More, Past, First
  <2>4. QED
    BY <1>1, <1>2, <2>1, <2>2, <2>3 DEF SpaceInv
<1>10. CASE UNCHANGED vars
  <2>1. UNCHANGED <<job, phase, total, next, failed, visits>>
    BY <1>10 DEF vars
  <2>2. Progress => Progress'
    BY <2>1, ProgressFrame
  <2>3. (failed \/ \A x \in DOMAIN next : ~More(x))
          => (failed \/ \A x \in DOMAIN next : ~More(x))'
    BY <2>1 DEF More, Past, First
  <2>4. QED
    BY <1>1, <1>2, <2>1, <2>2, <2>3 DEF SpaceInv
<1>11. CASE Settled
  BY <1>10, <1>11 DEF Settled
<1>12. QED
  BY <1>3, <1>4, <1>5, <1>6, <1>7, <1>8, <1>9, <1>10, <1>11 DEF Next

\* The invariant on visits says that each cell was run once.
LEMMA SpaceInvCovers == SpaceInv => EachCellOnce
<1> SUFFICES ASSUME SpaceInv, phase = "done", ~failed, NoRoundingWraps
             PROVE  DOMAIN visits = Cells(job) /\ \A c \in Cells(job) : visits[c] = 1
  BY DEF EachCellOnce, Succeeded
<1>1. NoWraps(job)
  BY DEF NoRoundingWraps, NoWraps
<1>2. CASE Indices(job) = 0 /\ visits = <<>>
  <2>1. Cells(job) = {}
    BY <1>2, NoIndicesNoCells DEF SpaceInv
  <2>2. QED
    BY <1>2, <2>1
<1>3. CASE Progress /\ \A x \in DOMAIN next : ~More(x)
  <2>1. ASSUME NEW c \in Cells(job)
        PROVE  IndexOf(job, c) < next[BlockOf(IndexOf(job, c))]
    <3> DEFINE k == IndexOf(job, c)  x == BlockOf(k)
    <3>1. k \in 0 .. total - 1 /\ total \in Nat
      BY <1>1, <1>3, Mapping DEF Progress, SpaceInv
    <3> HIDE DEF k
    <3>2. x \in 0 .. Blocks - 1 /\ First(x) \in Nat /\ k < Past(x)
      BY <3>1, IndexInBlock
    <3> HIDE DEF x
    <3>3. x \in DOMAIN next /\ next[x] \in Int
      BY <1>3, <3>2 DEF Progress
    <3>4. ~(next[x] < Past(x))
      BY <1>3, <3>3 DEF More
    <3>5. Past(x) \in Int
      BY <3>1, <3>2, BlockSizeAssumption DEF Past
    <3>6. QED
      BY <3>1, <3>2, <3>3, <3>4, <3>5 DEF k, x
  <2>2. QED
    BY <1>3, <2>1 DEF Progress
<1>4. QED
  BY <1>1, <1>2, <1>3 DEF SpaceInv

\* What is known of a dispatch while its blocks run: each block has run its
\* indices below next once, and no others.
THEOREM SpaceInvariance == Spec => []SpaceInv
<1>1. Init => SpaceInv
  BY GridsAreProper DEF Init, SpaceInv
<1>2. SpaceInv /\ [Next]_vars => SpaceInv'
  BY SpaceInvStep
<1>3. QED
  BY <1>1, <1>2, PTL DEF Spec

\* A dispatch that succeeds, and whose rounding up does not wrap around, has
\* called the kernel once for each cell of the grid and for no other, with or
\* without tiles, in whatever order its blocks ran (mapIndex, vm.cpp).
THEOREM KernelRunsOnEachCell == Spec => []EachCellOnce
<1>1. QED
  BY SpaceInvariance, SpaceInvCovers, PTL
-----------------------------------------------------------------------------
(* 5. The tree combines in order                                           *)

\* Rows of n terms over the cells T.
Rows(n, T) == [0 .. n - 1 -> Seq(T)]

\* The first i terms of a row one after the other, for every i.
Joined(row, n) ==
    LET join[i \in 0 .. n] == IF i = 0 THEN <<>> ELSE join[i - 1] \o row[i - 1]
    IN  join

\* Joined is the concatenation of the first x rows.
LEMMA JoinedSteps ==
    ASSUME NEW n \in Nat, NEW T, NEW row \in Rows(n, T)
    PROVE  /\ Joined(row, n) \in [0 .. n -> Seq(T)] /\ Joined(row, n)[0] = <<>>
           /\ \A i \in 0 .. n - 1 : Joined(row, n)[i + 1] = Joined(row, n)[i] \o row[i]
<1> DEFINE J == Joined(row, n)
           Turn == [i \in 1 .. n |-> [s \in Seq(T) |-> s \o row[i - 1]]]
<1>1. ASSUME NEW i \in 1 .. n, NEW s \in Seq(T)
      PROVE  s \o row[i - 1] \in Seq(T)
  <2>1. row[i - 1] \in Seq(T)
    BY DEF Rows
  <2>2. QED
    BY <2>1, ConcatProperties
<1>2. Turn \in Turns(n, Seq(T))
  BY <1>1 DEF Turns
<1>3. PICK g : Follows(g, n, Seq(T), <<>>, Turn)
  <2> HIDE DEF Turn
  <2>1. QED
    BY <1>2, EmptySeq, RecursionHasSolution
<1>4. /\ \A i \in 1 .. n : g[i - 1] \in Seq(T)
      /\ g = [i \in 0 .. n |-> IF i = 0 THEN <<>> ELSE Turn[i][g[i - 1]]]
  <2> HIDE DEF Turn
  <2>1. QED
    BY <1>3, FollowsSteps
<1>5. g = [i \in 0 .. n |-> IF i = 0 THEN <<>> ELSE g[i - 1] \o row[i - 1]]
  <2>1. \A i \in 1 .. n : Turn[i][g[i - 1]] = g[i - 1] \o row[i - 1]
    BY <1>4
  <2>2. \A i \in 0 .. n : i # 0 => i \in 1 .. n
    OBVIOUS
  <2> HIDE DEF Turn
  <2>3. QED
    BY <1>4, <2>1, <2>2, Zenon
<1>6. J = [i \in 0 .. n |-> IF i = 0 THEN <<>> ELSE J[i - 1] \o row[i - 1]]
  BY <1>5 DEF Joined
<1> HIDE DEF J
<1>7. 0 \in 0 .. n /\ J[0] = <<>>
  BY <1>6
<1>8. ASSUME NEW i \in 0 .. n - 1
      PROVE  J[i + 1] = J[i] \o row[i]
  <2>1. i + 1 \in 0 .. n /\ i + 1 # 0 /\ (i + 1) - 1 = i
    OBVIOUS
  <2>2. QED
    BY <1>6, <2>1
<1> DEFINE S == {i \in 0 .. n : J[i] \in Seq(T)}
<1>9. 0 \in S
  BY <1>7, EmptySeq
<1>10. ASSUME NEW i \in 0 .. n - 1, i \in S
       PROVE  i + 1 \in S
  <2>1. row[i] \in Seq(T) /\ i + 1 \in 0 .. n
    BY DEF Rows
  <2>2. QED
    BY <1>8, <1>10, <2>1, ConcatProperties
<1>11. \A i \in 0 .. n : i \in S
  <2> HIDE DEF S
  <2>1. QED
    BY <1>9, <1>10, IntervalInduction
<1>12. J \in [0 .. n -> Seq(T)]
  BY <1>6, <1>11
<1>13. QED
  BY <1>7, <1>8, <1>12 DEF J

\* One level, done in place, has joined neighbours: what it overwrites has
\* been read.
LEMMA CombinePairs ==
    ASSUME NEW n \in Nat, NEW T, NEW row \in Rows(n, T), NEW half \in Nat, 2 * half <= n
    PROVE  /\ Combine(row, half) \in Rows(n, T)
           /\ \A k \in 0 .. half - 1 : Combine(row, half)[k] = row[2 * k] \o row[2 * k + 1]
<1> DEFINE Pair(old, i) == [old EXCEPT ![i - 1] = old[2 * i - 2] \o old[2 * i - 1]]
           after[i \in 0 .. half] == IF i = 0 THEN row ELSE Pair(after[i - 1], i)
           Turn == [i \in 1 .. half |-> [old \in Rows(n, T) |-> Pair(old, i)]]
<1>1. ASSUME NEW i \in 1 .. half, NEW old \in Rows(n, T)
      PROVE  Pair(old, i) \in Rows(n, T)
  <2>1. 2 * i - 2 \in 0 .. n - 1 /\ 2 * i - 1 \in 0 .. n - 1 /\ i - 1 \in 0 .. n - 1
    OBVIOUS
  <2>2. old[2 * i - 2] \in Seq(T) /\ old[2 * i - 1] \in Seq(T)
    BY <2>1 DEF Rows
  <2>3. old[2 * i - 2] \o old[2 * i - 1] \in Seq(T)
    BY <2>2, ConcatProperties
  <2>4. QED
    BY <2>1, <2>3 DEF Rows
<1>2. Turn \in Turns(half, Rows(n, T))
  <2> HIDE DEF Pair
  <2>1. QED
    BY <1>1 DEF Turns
<1>3. PICK g : Follows(g, half, Rows(n, T), row, Turn)
  <2> HIDE DEF Turn
  <2>1. QED
    BY <1>2, RecursionHasSolution
<1>4. /\ \A i \in 1 .. half : g[i - 1] \in Rows(n, T)
      /\ g = [i \in 0 .. half |-> IF i = 0 THEN row ELSE Turn[i][g[i - 1]]]
  <2> HIDE DEF Turn
  <2>1. QED
    BY <1>3, FollowsSteps
<1>5. after = [i \in 0 .. half |-> IF i = 0 THEN row ELSE Pair(after[i - 1], i)]
  <2> HIDE DEF Pair
  <2>1. \A i \in 1 .. half : Turn[i][g[i - 1]] = Pair(g[i - 1], i)
    BY <1>4
  <2>2. \A i \in 0 .. half : i # 0 => i \in 1 .. half
    OBVIOUS
  <2>3. g = [i \in 0 .. half |-> IF i = 0 THEN row ELSE Pair(g[i - 1], i)]
    <3> HIDE DEF Turn
    <3>1. QED
      BY <1>4, <2>1, <2>2, Zenon
  <2>4. QED
    BY <2>3
<1>6. Combine(row, half) = after[half]
  BY DEF Combine, Op2
<1> HIDE DEF after
<1> DEFINE Paired(i) == /\ after[i] \in Rows(n, T)
                        /\ \A k \in 0 .. i - 1 : after[i][k] = row[2 * k] \o row[2 * k + 1]
                        /\ \A k \in i .. n - 1 : after[i][k] = row[k]
           S == {i \in 0 .. half : Paired(i)}
<1>7. 0 \in S
  <2>1. 0 \in 0 .. half
    OBVIOUS
  <2>2. after[0] = row
    BY <1>5, <2>1
  <2>3. Paired(0)
    BY <2>2
  <2> HIDE DEF Paired
  <2>4. QED
    BY <2>1, <2>3
<1>8. ASSUME NEW i \in 0 .. half - 1, i \in S
      PROVE  i + 1 \in S
  <2> DEFINE old == after[i]  new == after[i + 1]
  <2>1. i + 1 \in 1 .. half /\ i + 1 \in 0 .. half /\ i + 1 # 0 /\ (i + 1) - 1 = i
    OBVIOUS
  <2>2. new = Pair(old, i + 1)
    BY <1>5, <2>1
  <2>3. old \in Rows(n, T)
    BY <1>8
  <2>4. new \in Rows(n, T)
    BY <1>1, <2>1, <2>2, <2>3
  <2>5. /\ 2 * i \in i .. n - 1 /\ 2 * i + 1 \in i .. n - 1 /\ i \in 0 .. n - 1
        /\ 2 * (i + 1) - 2 = 2 * i /\ 2 * (i + 1) - 1 = 2 * i + 1
    OBVIOUS
  <2>6. old[2 * i] = row[2 * i] /\ old[2 * i + 1] = row[2 * i + 1]
    BY <1>8, <2>5
  <2>7. new = [old EXCEPT ![i] = row[2 * i] \o row[2 * i + 1]]
    BY <2>1, <2>2, <2>5, <2>6
  <2>8. /\ new[i] = row[2 * i] \o row[2 * i + 1]
        /\ \A k \in 0 .. n - 1 : k # i => new[k] = old[k]
    BY <2>3, <2>5, <2>7 DEF Rows
  <2> HIDE DEF new
  <2>9. \A k \in 0 .. (i + 1) - 1 : new[k] = row[2 * k] \o row[2 * k + 1]
    <3> SUFFICES ASSUME NEW k \in 0 .. (i + 1) - 1
                 PROVE  new[k] = row[2 * k] \o row[2 * k + 1]
      OBVIOUS
    <3>1. CASE k = i
      BY <2>8, <3>1
    <3>2. CASE k # i
      <4>1. k \in 0 .. i - 1 /\ k \in 0 .. n - 1
        BY <2>5, <3>2
      <4>2. QED
        BY <1>8, <2>8, <3>2, <4>1
    <3>3. QED
      BY <3>1, <3>2
  <2>10. \A k \in i + 1 .. n - 1 : new[k] = row[k]
    <3> SUFFICES ASSUME NEW k \in i + 1 .. n - 1
                 PROVE  new[k] = row[k]
      OBVIOUS
    <3>1. k \in i .. n - 1 /\ k \in 0 .. n - 1 /\ k # i
      OBVIOUS
    <3>2. QED
      BY <1>8, <2>8, <3>1
  <2>11. QED
    BY <2>1, <2>4, <2>9, <2>10 DEF new
<1>9. half \in S
  <2> HIDE DEF S
  <2>1. \A i \in 0 .. half : i \in S
    BY <1>7, <1>8, IntervalInduction
  <2>2. QED
    BY <2>1
<1>10. QED
  BY <1>6, <1>9

\* So a level leaves what is joined as it was, with half as many terms.
LEMMA CombineJoins ==
    ASSUME NEW n \in Nat, NEW T, NEW row \in Rows(n, T), NEW half \in Nat, 2 * half <= n
    PROVE  Joined(Combine(row, half), n)[half] = Joined(row, n)[2 * half]
<1> DEFINE new == Combine(row, half)  J == Joined(row, n)  K == Joined(new, n)
           S == {k \in 0 .. half : K[k] = J[2 * k]}
<1>1. new \in Rows(n, T) /\ \A k \in 0 .. half - 1 : new[k] = row[2 * k] \o row[2 * k + 1]
  BY CombinePairs
<1> HIDE DEF new
<1>2. /\ J \in [0 .. n -> Seq(T)] /\ J[0] = <<>>
      /\ \A i \in 0 .. n - 1 : J[i + 1] = J[i] \o row[i]
  BY JoinedSteps
<1>3. K[0] = <<>> /\ \A i \in 0 .. n - 1 : K[i + 1] = K[i] \o new[i]
  BY <1>1, JoinedSteps
<1> HIDE DEF J, K
<1>4. 0 \in S
  BY <1>2, <1>3
<1>5. ASSUME NEW k \in 0 .. half - 1, k \in S
      PROVE  k + 1 \in S
  <2> DEFINE a == row[2 * k]  b == row[2 * k + 1]
  <2>1. /\ k \in 0 .. n - 1 /\ 2 * k \in 0 .. n - 1 /\ 2 * k + 1 \in 0 .. n - 1
        /\ 2 * (k + 1) = (2 * k + 1) + 1 /\ k + 1 \in 0 .. half
    OBVIOUS
  <2>2. a \in Seq(T) /\ b \in Seq(T)
    BY <2>1 DEF Rows
  <2>3. J[2 * k] \in Seq(T)
    <3>1. 2 * k \in 0 .. n
      BY <2>1
    <3>2. QED
      BY <1>2, <3>1
  <2>4. K[k + 1] = J[2 * k] \o (a \o b)
    BY <1>1, <1>3, <1>5, <2>1
  <2>5. J[(2 * k + 1) + 1] = (J[2 * k] \o a) \o b
    BY <1>2, <2>1
  <2>6. (J[2 * k] \o a) \o b = J[2 * k] \o (a \o b)
    <3> DEFINE c == J[2 * k]
    <3>1. c \in Seq(T)
      BY <2>3
    <3> HIDE DEF a, b, c
    <3>2. (c \o a) \o b = c \o (a \o b)
      BY <2>2, <3>1, ConcatAssociative
    <3>3. QED
      BY <3>2 DEF c
  <2> HIDE DEF a, b
  <2>7. K[k + 1] = J[2 * (k + 1)]
    BY <2>1, <2>4, <2>5, <2>6
  <2>8. QED
    BY <2>1, <2>7
<1>6. half \in S
  <2> HIDE DEF S
  <2>1. \A k \in 0 .. half : k \in S
    BY <1>4, <1>5, IntervalInduction
  <2>2. QED
    BY <2>1
<1>7. QED
  BY <1>6 DEF J, K, new
LEMMA DoubledSteps ==
    ASSUME NEW n \in Nat
    PROVE  /\ Doubled(n) \in [0 .. n -> Nat] /\ Doubled(n)[0] = 1
           /\ \A i \in 0 .. n - 1 : Doubled(n)[i + 1] = 2 * Doubled(n)[i]
           /\ \A i \in 0 .. n : Doubled(n)[i] >= i + 1
<1> DEFINE D == Doubled(n)
           Turn == [i \in 1 .. n |-> [k \in Nat |-> 2 * k]]
<1>1. Turn \in Turns(n, Nat)
  BY DEF Turns
<1>2. PICK g : Follows(g, n, Nat, 1, Turn)
  <2> HIDE DEF Turn
  <2>1. QED
    BY <1>1, RecursionHasSolution
<1>3. /\ \A i \in 1 .. n : g[i - 1] \in Nat
      /\ g = [i \in 0 .. n |-> IF i = 0 THEN 1 ELSE Turn[i][g[i - 1]]]
  <2> HIDE DEF Turn
  <2>1. QED
    BY <1>2, FollowsSteps
<1>4. g = [i \in 0 .. n |-> IF i = 0 THEN 1 ELSE 2 * g[i - 1]]
  <2>1. \A i \in 1 .. n : Turn[i][g[i - 1]] = 2 * g[i - 1]
    BY <1>3
  <2>2. \A i \in 0 .. n : i # 0 => i \in 1 .. n
    OBVIOUS
  <2> HIDE DEF Turn
  <2>3. QED
    BY <1>3, <2>1, <2>2, Zenon
<1>5. D = [i \in 0 .. n |-> IF i = 0 THEN 1 ELSE 2 * D[i - 1]]
  BY <1>4 DEF Doubled
<1> HIDE DEF D
<1>6. 0 \in 0 .. n /\ D[0] = 1
  BY <1>5
<1>7. ASSUME NEW i \in 0 .. n - 1
      PROVE  i + 1 \in 0 .. n /\ D[i + 1] = 2 * D[i]
  <2>1. i + 1 \in 0 .. n /\ i + 1 # 0 /\ (i + 1) - 1 = i
    OBVIOUS
  <2>2. QED
    BY <1>5, <2>1
<1> DEFINE S == {i \in 0 .. n : D[i] \in Nat /\ D[i] >= i + 1}
<1>8. 0 \in S
  BY <1>6
<1>9. \A i \in 0 .. n - 1 : i \in S => i + 1 \in S
  BY <1>7
<1>10. \A i \in 0 .. n : i \in S
  <2> HIDE DEF S
  <2>1. QED
    BY <1>8, <1>9, IntervalInduction
<1>11. QED
  BY <1>5, <1>6, <1>7, <1>10 DEF D

\* The tree over n blocks is high enough, and no width below its top is wider.
LEMMA LevelsSuffice ==
    ASSUME NEW n \in Nat
    PROVE  /\ Levels(n) \in 0 .. n /\ Doubled(n)[Levels(n)] >= n
           /\ \A i \in 0 .. Levels(n) : Doubled(n)[i] <= Doubled(n)[Levels(n)]
<1> DEFINE D == Doubled(n)  Enough == {l \in 0 .. n : D[l] >= n}  h == Levels(n)
<1>1. /\ D \in [0 .. n -> Nat]
      /\ \A i \in 0 .. n - 1 : D[i + 1] = 2 * D[i]
      /\ \A i \in 0 .. n : D[i] >= i + 1
  BY DoubledSteps
<1> HIDE DEF D
<1>2. n \in Enough
  <2>1. n \in 0 .. n
    OBVIOUS
  <2>2. D[n] >= n + 1 /\ D[n] \in Nat
    BY <1>1, <2>1
  <2>3. QED
    BY <2>1, <2>2
<1>3. PICK l \in Enough : \A k \in Enough : l <= k
  <2>1. Enough \in SUBSET Nat
    OBVIOUS
  <2> HIDE DEF Enough
  <2>2. QED
    BY <1>2, <2>1, LeastElement
<1>4. l \in 0 .. n /\ D[l] >= n /\ \A m \in 0 .. l - 1 : D[m] < n
  <2>1. l \in 0 .. n /\ D[l] >= n
    BY <1>3
  <2>2. ASSUME NEW m \in 0 .. l - 1
        PROVE  D[m] < n
    <3>1. m \in 0 .. n /\ ~(l <= m)
      BY <2>1
    <3>2. m \notin Enough
      BY <1>3, <3>1
    <3>3. D[m] \in Nat
      BY <1>1, <3>1
    <3>4. QED
      BY <3>1, <3>2, <3>3
  <2>3. QED
    BY <2>1, <2>2
<1>5. h \in 0 .. n /\ D[h] >= n /\ \A m \in 0 .. h - 1 : D[m] < n
  BY <1>4 DEF Levels, D
<1>6. ASSUME NEW i \in 0 .. h
      PROVE  D[i] <= D[h]
  <2> HIDE DEF h
  <2>1. D[h] \in Nat /\ (i # h => i \in 0 .. h - 1) /\ i \in 0 .. n
    BY <1>1, <1>5
  <2>2. D[i] \in Nat
    BY <1>1, <2>1
  <2>3. QED
    BY <1>5, <2>1, <2>2
<1>7. QED
  BY <1>5, <1>6 DEF D, h

\* What Tree starts from.
Leaves(acc, blocks) ==
    [n \in 0 .. Doubled(blocks)[Levels(blocks)] - 1 |->
        IF n < blocks THEN Partial(acc[n]) ELSE Identity]
Lanes(T) == [0 .. LaneCount - 1 -> Seq(T)]

\* The tree gives what its leaves give one after the other.
LEMMA TreeJoins ==
    ASSUME NEW T, NEW blocks \in Nat \ {0}, NEW acc \in [0 .. blocks - 1 -> Lanes(T)]
    PROVE  LET W == Doubled(blocks)[Levels(blocks)]
           IN  /\ W \in Nat /\ W >= blocks /\ Leaves(acc, blocks) \in Rows(W, T)
               /\ Tree(acc, blocks) = Joined(Leaves(acc, blocks), W)[W]
<1> DEFINE D == Doubled(blocks)  h == Levels(blocks)  W == D[h]
           leaves == Leaves(acc, blocks)
           at[m \in 0 .. h] == IF m = 0 THEN leaves ELSE Combine(at[m - 1], D[h - m])
           Turn == [m \in 1 .. h |-> [row \in Rows(W, T) |-> Combine(row, D[h - m])]]
<1>1. /\ D \in [0 .. blocks -> Nat] /\ D[0] = 1
      /\ \A i \in 0 .. blocks - 1 : D[i + 1] = 2 * D[i]
  BY DoubledSteps
<1>2. h \in 0 .. blocks /\ W >= blocks /\ \A i \in 0 .. h : D[i] <= W
  BY LevelsSuffice
<1>3. leaves \in Rows(W, T)
  <2>1. \A n \in 0 .. W - 1 : n < blocks => Partial(acc[n]) \in Seq(T)
    <3> SUFFICES ASSUME NEW n \in 0 .. W - 1, n < blocks
                 PROVE  Partial(acc[n]) \in Seq(T)
      OBVIOUS
    <3> DEFINE a == acc[n][0]  b == acc[n][1]  c == acc[n][2]  d == acc[n][3]
    <3>1. n \in 0 .. blocks - 1
      OBVIOUS
    <3>2. a \in Seq(T) /\ b \in Seq(T) /\ c \in Seq(T) /\ d \in Seq(T)
      BY <3>1 DEF Lanes, LaneCount
    <3>3. Partial(acc[n]) = (a \o b) \o (c \o d)
      BY DEF Partial, Op2
    <3> HIDE DEF a, b, c, d
    <3>4. a \o b \in Seq(T) /\ c \o d \in Seq(T)
      BY <3>2, ConcatProperties
    <3> DEFINE ab == a \o b  cd == c \o d
    <3> HIDE DEF ab, cd
    <3>5. ab \o cd \in Seq(T)
      BY <3>4, ConcatProperties DEF ab, cd
    <3>6. QED
      BY <3>3, <3>5 DEF ab, cd
  <2>2. Identity \in Seq(T)
    BY EmptySeq DEF Identity
  <2>3. QED
    BY <2>1, <2>2 DEF Leaves, Rows
<1>4. Tree(acc, blocks) = at[h][0]
  BY DEF Tree, Leaves
<1> HIDE DEF D, h, leaves
<1>5. W \in Nat
  BY <1>1, <1>2
<1>6. ASSUME NEW m \in 0 .. h - 1
      PROVE  /\ D[h - (m + 1)] \in Nat /\ D[h - m] = 2 * D[h - (m + 1)]
             /\ 2 * D[h - (m + 1)] <= W
  <2>1. h - (m + 1) \in 0 .. blocks - 1 /\ h - m \in 0 .. h /\ (h - (m + 1)) + 1 = h - m
    BY <1>2
  <2>2. h - (m + 1) \in 0 .. blocks
    BY <2>1
  <2>3. D[h - m] = 2 * D[h - (m + 1)] /\ D[h - m] <= W
    BY <1>1, <1>2, <2>1
  <2>4. QED
    BY <1>1, <2>2, <2>3
<1>7. ASSUME NEW m \in 1 .. h, NEW row \in Rows(W, T)
      PROVE  Combine(row, D[h - m]) \in Rows(W, T)
  <2>1. m - 1 \in 0 .. h - 1 /\ (m - 1) + 1 = m
    BY <1>2
  <2>2. D[h - m] \in Nat /\ 2 * D[h - m] <= W
    BY <1>6, <2>1
  <2> HIDE DEF W
  <2>3. QED
    BY <1>5, <2>2, CombinePairs
<1>8. at = [m \in 0 .. h |-> IF m = 0 THEN leaves ELSE Combine(at[m - 1], D[h - m])]
  <2> HIDE DEF W
  <2>1. Turn \in Turns(h, Rows(W, T))
    BY <1>7 DEF Turns
  <2>2. h \in Nat
    BY <1>2
  <2>3. PICK g : Follows(g, h, Rows(W, T), leaves, Turn)
    <3> HIDE DEF Turn
    <3>1. QED
      BY <1>3, <2>1, <2>2, RecursionHasSolution
  <2>4. /\ \A m \in 1 .. h : g[m - 1] \in Rows(W, T)
        /\ g = [m \in 0 .. h |-> IF m = 0 THEN leaves ELSE Turn[m][g[m - 1]]]
    <3> HIDE DEF Turn
    <3>1. QED
      BY <2>2, <2>3, FollowsSteps
  <2>5. \A m \in 1 .. h : Turn[m][g[m - 1]] = Combine(g[m - 1], D[h - m])
    BY <2>4
  <2>6. \A m \in 0 .. h : m # 0 => m \in 1 .. h
    BY <2>2
  <2>7. g = [m \in 0 .. h |-> IF m = 0 THEN leaves ELSE Combine(g[m - 1], D[h - m])]
    <3> HIDE DEF Turn
    <3>1. QED
      BY <2>4, <2>5, <2>6, Zenon
  <2>8. QED
    BY <2>7
<1> HIDE DEF at
<1> DEFINE J == Joined(leaves, W)
           S == {m \in 0 .. h : at[m] \in Rows(W, T) /\ Joined(at[m], W)[D[h - m]] = J[W]}
<1>9. 0 \in S
  <2>1. 0 \in 0 .. h /\ h - 0 = h
    BY <1>2
  <2>2. at[0] = leaves
    BY <1>8, <2>1
  <2>3. QED
    BY <1>3, <2>1, <2>2
<1>10. ASSUME NEW m \in 0 .. h - 1, m \in S
       PROVE  m + 1 \in S
  <2> DEFINE half == D[h - (m + 1)]  row == at[m]
  <2>1. row \in Rows(W, T) /\ Joined(row, W)[D[h - m]] = J[W]
    BY <1>10
  <2>2. half \in Nat /\ D[h - m] = 2 * half /\ 2 * half <= W
    BY <1>6
  <2>3. m + 1 \in 0 .. h /\ m + 1 # 0 /\ (m + 1) - 1 = m
    BY <1>2
  <2>4. at[m + 1] = Combine(row, half)
    BY <1>8, <2>3
  <2> HIDE DEF W, half, row, J
  <2>5. Combine(row, half) \in Rows(W, T)
    BY <1>5, <2>1, <2>2, CombinePairs
  <2>6. Joined(Combine(row, half), W)[half] = Joined(row, W)[2 * half]
    BY <1>5, <2>1, <2>2, CombineJoins
  <2>7. QED
    BY <2>1, <2>2, <2>3, <2>4, <2>5, <2>6 DEF half
<1>11. h \in S
  <2> HIDE DEF S
  <2>1. \A m \in 0 .. h : m \in S
    BY <1>2, <1>9, <1>10, IntervalInduction
  <2>2. QED
    BY <1>2, <2>1
<1>12. at[h] \in Rows(W, T) /\ Joined(at[h], W)[1] = J[W]
  BY <1>1, <1>2, <1>11
<1>13. Joined(at[h], W)[1] = at[h][0]
  <2> HIDE DEF W
  <2>1. 0 \in 0 .. W - 1
    BY <1>2, <1>5
  <2>2. Joined(at[h], W)[0 + 1] = Joined(at[h], W)[0] \o at[h][0] /\ Joined(at[h], W)[0] = <<>>
    BY <1>5, <1>12, <2>1, JoinedSteps
  <2>3. at[h][0] \in Seq(T)
    BY <1>12, <2>1 DEF Rows
  <2>4. <<>> \o at[h][0] = at[h][0]
    BY <2>3, ConcatEmptySeq
  <2>5. QED
    BY <2>2, <2>4
<1>14. QED
  BY <1>2, <1>3, <1>4, <1>5, <1>12, <1>13 DEF D, h, leaves
-----------------------------------------------------------------------------
(* 6. Terms in ascending order of indices                                  *)

Rank(S, i) == Cardinality({m \in S : m <= i})
Nth(S, n) == CHOOSE i \in S : Rank(S, i) = n

\* The cells of the indices in S of a grid, in ascending order of the indices.
Listed(g, S) == [n \in 1 .. Cardinality(S) |-> MapIndex(g, Nth(S, n))]

AnyCell(g) == {MapIndex(g, i) : i \in Int}

\* The indices below m of a block whose values are in one lane.
TakenTo(g, x, l, m) == {i \in First(x) .. m - 1 : Lane(i) = l /\ MapIndex(g, i) # Skip}

\* The ranks of a finite set number its members from 1.
LEMMA RankFacts ==
    ASSUME NEW S \in SUBSET Int, IsFiniteSet(S)
    PROVE  /\ \A i \in S : Rank(S, i) \in 1 .. Cardinality(S)
           /\ \A i, j \in S : Rank(S, i) = Rank(S, j) => i = j
           /\ \A n \in 1 .. Cardinality(S) : Nth(S, n) \in S /\ Rank(S, Nth(S, n)) = n
<1> DEFINE Upto(i) == {m \in S : m <= i}
<1>1. Cardinality(S) \in Nat
  BY FS_CardinalityType
<1>2. ASSUME NEW i \in S
      PROVE  /\ IsFiniteSet(Upto(i)) /\ Rank(S, i) = Cardinality(Upto(i))
             /\ Rank(S, i) \in 1 .. Cardinality(S)
  <2>1. Upto(i) \in SUBSET S /\ i \in Upto(i)
    OBVIOUS
  <2>2. Rank(S, i) = Cardinality(Upto(i))
    BY DEF Rank
  <2> HIDE DEF Upto
  <2>3. IsFiniteSet(Upto(i)) /\ Cardinality(Upto(i)) <= Cardinality(S)
    BY <2>1, FS_Subset
  <2>4. Cardinality(Upto(i)) \in Nat /\ Cardinality(Upto(i)) # 0
    BY <2>1, <2>3, FS_CardinalityType, FS_EmptySet
  <2>5. QED
    BY <1>1, <2>2, <2>3, <2>4
<1>3. ASSUME NEW i \in S, NEW j \in S, i < j
      PROVE  Rank(S, i) # Rank(S, j)
  <2>1. Upto(i) \in SUBSET Upto(j) /\ j \in Upto(j) /\ j \notin Upto(i)
    <3>1. i \in Int /\ j \in Int /\ \A m \in S : m \in Int
      OBVIOUS
    <3>2. \A m \in S : m <= i => m <= j
      BY <1>3, <3>1
    <3>3. j <= j /\ ~(j <= i)
      BY <1>3, <3>1
    <3>4. QED
      BY <3>2, <3>3
  <2>2. IsFiniteSet(Upto(j)) /\ Rank(S, i) = Cardinality(Upto(i)) /\ Rank(S, j) = Cardinality(Upto(j))
    BY <1>2
  <2> HIDE DEF Upto
  <2>3. Cardinality(Upto(i)) # Cardinality(Upto(j))
    BY <2>1, <2>2, FS_Subset
  <2>4. QED
    BY <2>2, <2>3
<1>4. ASSUME NEW i \in S, NEW j \in S, Rank(S, i) = Rank(S, j)
      PROVE  i = j
  <2>1. i \in Int /\ j \in Int
    OBVIOUS
  <2>2. ~(i < j) /\ ~(j < i)
    BY <1>3, <1>4
  <2>3. QED
    BY <2>1, <2>2
<1> DEFINE T == 1 .. Cardinality(S)  f == [i \in S |-> Rank(S, i)]
<1>5. IsFiniteSet(T) /\ Cardinality(T) = Cardinality(S)
  <2>1. Cardinality(S) = 0 \/ Cardinality(S) >= 1
    BY <1>1
  <2>2. CASE Cardinality(S) = 0
    <3>1. T = {}
      BY <2>2
    <3>2. QED
      BY <2>2, <3>1, FS_EmptySet
  <2>3. CASE Cardinality(S) >= 1
    <3> DEFINE k == Cardinality(S)
    <3>1. k \in Int /\ k >= 1
      BY <1>1, <2>3
    <3> HIDE DEF k
    <3>2. IsFiniteSet(1 .. k) /\ Cardinality(1 .. k) = k
      BY <3>1, FS_Interval
    <3>3. QED
      BY <3>2 DEF k
  <2>4. QED
    BY <2>1, <2>2, <2>3
<1>6. f \in Injection(S, T)
  BY <1>2, <1>4 DEF Injection, IsInjective
<1>7. f \in Surjection(S, T)
  <2> HIDE DEF f, T
  <2>1. QED
    BY <1>5, <1>6, FS_Injection
<1>8. ASSUME NEW n \in 1 .. Cardinality(S)
      PROVE  Nth(S, n) \in S /\ Rank(S, Nth(S, n)) = n
  <2>1. \E i \in S : f[i] = n
    BY <1>7 DEF Surjection
  <2>2. \E i \in S : Rank(S, i) = n
    BY <2>1
  <2>3. QED
    BY <2>2 DEF Nth
<1>9. QED
  BY <1>2, <1>4, <1>8

\* What is listed of a set is a term over the cells.
LEMMA ListedIsTerm ==
    ASSUME NEW g, NEW S \in SUBSET Int, IsFiniteSet(S)
    PROVE  Listed(g, S) \in Seq(AnyCell(g)) /\ Len(Listed(g, S)) = Cardinality(S)
<1> DEFINE k == Cardinality(S)
<1>1. k \in Nat
  BY FS_CardinalityType
<1>2. \A n \in 1 .. k : Nth(S, n) \in Int
  BY RankFacts
<1> HIDE DEF k
<1>3. \A n \in 1 .. k : MapIndex(g, Nth(S, n)) \in AnyCell(g)
  BY <1>2 DEF AnyCell
<1>4. [n \in 1 .. k |-> MapIndex(g, Nth(S, n))] \in Seq(AnyCell(g))
  BY <1>1, <1>3
<1>5. Len([n \in 1 .. k |-> MapIndex(g, Nth(S, n))]) = k
  BY <1>1
<1>6. QED
  BY <1>4, <1>5 DEF k, Listed

\* One index more, above the others, appends its cell.
LEMMA ListedOneMore ==
    ASSUME NEW g, NEW S \in SUBSET Int, IsFiniteSet(S), NEW m \in Int, \A i \in S : i < m
    PROVE  Listed(g, S \cup {m}) = Listed(g, S) \o <<MapIndex(g, m)>>
<1> DEFINE k == Cardinality(S)  R == S \cup {m}
<1>1. k \in Nat /\ R \in SUBSET Int /\ IsFiniteSet(R) /\ Cardinality(R) = k + 1
  <2>1. m \notin S
    OBVIOUS
  <2>2. QED
    BY <2>1, FS_CardinalityType, FS_AddElement
<1>2. \A i \in S : Rank(R, i) = Rank(S, i)
  <2> SUFFICES ASSUME NEW i \in S
               PROVE  Rank(R, i) = Rank(S, i)
    OBVIOUS
  <2>1. {j \in R : j <= i} = {j \in S : j <= i}
    OBVIOUS
  <2>2. QED
    BY <2>1 DEF Rank
<1>3. Rank(R, m) = k + 1
  <2>1. {j \in R : j <= m} = R
    <3>1. \A j \in R : j <= m
      OBVIOUS
    <3> HIDE DEF R
    <3>2. QED
      BY <3>1
  <2>2. QED
    BY <1>1, <2>1 DEF Rank
<1>4. /\ \A n \in 1 .. k + 1 : Nth(R, n) \in R /\ Rank(R, Nth(R, n)) = n
      /\ \A i, j \in R : Rank(R, i) = Rank(R, j) => i = j
  <2> HIDE DEF R
  <2>1. /\ \A n \in 1 .. Cardinality(R) : Nth(R, n) \in R /\ Rank(R, Nth(R, n)) = n
        /\ \A i, j \in R : Rank(R, i) = Rank(R, j) => i = j
    BY <1>1, RankFacts
  <2>2. QED
    BY <1>1, <2>1
<1>5. \A n \in 1 .. k : Nth(S, n) \in S /\ Rank(S, Nth(S, n)) = n
  BY RankFacts
<1>6. ASSUME NEW n \in 1 .. k
      PROVE  Nth(R, n) = Nth(S, n)
  <2>1. n \in 1 .. k + 1
    BY <1>1
  <2>2. Nth(S, n) \in R /\ Rank(R, Nth(S, n)) = n
    BY <1>2, <1>5
  <2>3. QED
    BY <1>4, <2>1, <2>2
<1>7. Nth(R, k + 1) = m
  <2>1. k + 1 \in 1 .. k + 1 /\ m \in R
    BY <1>1
  <2> HIDE DEF R, k
  <2>2. QED
    BY <1>3, <1>4, <2>1
<1> HIDE DEF k, R
<1> DEFINE s == Listed(g, S)  t == <<MapIndex(g, m)>>  r == Listed(g, R)
<1>8. s \in Seq(AnyCell(g)) /\ Len(s) = k /\ r \in Seq(AnyCell(g)) /\ Len(r) = k + 1
  BY <1>1, ListedIsTerm DEF k
<1>9. t \in Seq(AnyCell(g)) /\ Len(t) = 1 /\ t[1] = MapIndex(g, m)
  <2>1. MapIndex(g, m) \in AnyCell(g)
    BY DEF AnyCell
  <2> DEFINE c == MapIndex(g, m)
  <2> HIDE DEF c
  <2>2. <<c>> \in Seq(AnyCell(g)) /\ Len(<<c>>) = 1 /\ <<c>>[1] = c
    BY <2>1 DEF c
  <2>3. QED
    BY <2>2 DEF c
<1>10. ASSUME NEW n \in 1 .. k
       PROVE  r[n] = s[n]
  <2>1. s[n] = MapIndex(g, Nth(S, n))
    BY <1>10 DEF Listed, k
  <2>2. n \in 1 .. Cardinality(R)
    BY <1>1
  <2>3. r[n] = MapIndex(g, Nth(R, n))
    BY <2>2 DEF Listed
  <2>4. QED
    BY <1>6, <2>1, <2>3
<1>11. r[k + 1] = MapIndex(g, m)
  <2>1. k + 1 \in 1 .. Cardinality(R)
    BY <1>1
  <2>2. QED
    BY <1>7, <2>1 DEF Listed
<1> HIDE DEF s, t, r
<1>12. /\ s \o t \in Seq(AnyCell(g)) /\ Len(s \o t) = k + 1
       /\ \A n \in 1 .. k + 1 : (s \o t)[n] = IF n <= k THEN s[n] ELSE t[n - k]
  <2>1. /\ s \o t \in Seq(AnyCell(g)) /\ Len(s \o t) = Len(s) + Len(t)
        /\ \A n \in 1 .. Len(s) + Len(t) :
                (s \o t)[n] = IF n <= Len(s) THEN s[n] ELSE t[n - Len(s)]
    BY <1>8, <1>9, ConcatProperties
  <2>2. Len(s) = k /\ Len(t) = 1
    BY <1>8, <1>9
  <2>3. QED
    BY <2>1, <2>2
<1>13. ASSUME NEW n \in 1 .. k + 1
       PROVE  r[n] = (s \o t)[n]
  <2>1. CASE n <= k
    <3>1. n \in 1 .. k
      BY <1>1, <2>1
    <3>2. QED
      BY <1>10, <1>12, <2>1, <3>1
  <2>2. CASE ~(n <= k)
    <3>1. n = k + 1 /\ n - k = 1
      BY <1>1, <2>2
    <3>2. (s \o t)[n] = t[1]
      BY <1>12, <2>2, <3>1
    <3>3. QED
      BY <1>9, <1>11, <3>1, <3>2
  <2>3. QED
    BY <2>1, <2>2
<1>14. r = s \o t
  BY <1>8, <1>12, <1>13, SeqEqual
<1>15. QED
  BY <1>14 DEF r, s, t, R

\* Of no index nothing is listed.
LEMMA ListedNone == ASSUME NEW g PROVE Listed(g, {}) = <<>>
BY FS_EmptySet DEF Listed
-----------------------------------------------------------------------------
(* 7. What the lanes hold                                                  *)

\* Each lane of a block holds the cells of the indices the block has run whose
\* lane it is, in ascending order.
LaneProgress ==
    /\ total \in 1 .. MaxInt /\ Blocks \in Nat \ {0} /\ BlockCount(total) = Blocks
    /\ next \in [0 .. Blocks - 1 -> Int]
    /\ \A x \in 0 .. Blocks - 1 : First(x) <= next[x] /\ next[x] <= Past(x)
    /\ lanes \in [0 .. Blocks - 1 -> Lanes(AnyCell(job))]
    /\ \A x \in 0 .. Blocks - 1, l \in 0 .. LaneCount - 1 :
            lanes[x][l] = Listed(job, TakenTo(job, x, l, next[x]))

LaneInv ==
    /\ ProperGrid(job)
    /\ phase = "sizing" => total = 0
    /\ phase = "running" => LaneProgress
    /\ phase = "done" =>
         \/ total = 0
         \/ /\ LaneProgress
            /\ failed \/ /\ \A x \in DOMAIN next : ~More(x)
                         /\ result = Tree(lanes, BlockCount(total))

\* What mulNonNeg returns is in range, or Overflow.
LEMMA MulNonNegInRange ==
    ASSUME NEW a \in Int, NEW b \in Int
    PROVE  MulNonNeg(a, b) \in -1 .. MaxInt
<1>1. CASE a = 0 \/ b = 0 \/ a < 0 \/ b < 0 \/ a > MaxInt \div b
  BY <1>1, MaxIntAssumption DEF MulNonNeg, Overflow
<1>2. CASE ~(a = 0 \/ b = 0 \/ a < 0 \/ b < 0 \/ a > MaxInt \div b)
  <2> DEFINE q == MaxInt \div b
  <2>1. a \in Nat \ {0} /\ b \in Nat \ {0}
    BY <1>2
  <2>2. q \in Nat /\ b * q <= MaxInt /\ a <= q
    BY <1>2, <2>1, DivFloor, MaxIntAssumption
  <2> HIDE DEF q
  <2>3. a * b <= b * q /\ a * b >= 0
    BY <2>1, <2>2
  <2>4. MulNonNeg(a, b) = a * b
    BY <1>2 DEF MulNonNeg
  <2>5. QED
    BY <2>1, <2>2, <2>3, <2>4, MaxIntAssumption
<1>3. QED
  BY <1>1, <1>2

\* An extent is in range, or Overflow, even if a sum wraps around.
LEMMA ExtentInRange ==
    ASSUME NEW j, ProperGrid(j)
    PROVE  Extent(j) \in -1 .. MaxInt
<1>1. ASSUME NEW n \in Int, NEW t \in Nat \ {0}
      PROVE  Quotient(Wrap(n), t) \in Int
  <2>1. Wrap(n) \in Int
    BY MaxIntAssumption DEF Wrap
  <2> DEFINE w == Wrap(n)
  <2> HIDE DEF w
  <2>2. \A v \in Int : Quotient(v, t) \in Int
    BY DEF Quotient
  <2>3. QED
    BY <2>1, <2>2
<1>2. TilesX(j) \in Int /\ TilesY(j) \in Int
  <2>1. /\ j.x + j.tx - 1 \in Int /\ j.tx \in Nat \ {0}
        /\ j.y + j.ty - 1 \in Int /\ j.ty \in Nat \ {0}
    BY DEF ProperGrid
  <2>2. QED
    BY <1>1, <2>1 DEF TilesX, TilesY
<1> DEFINE xy == MulNonNeg(j.x, j.y)  cells == MulNonNeg(xy, j.z)
           tiles == MulNonNeg(TilesX(j), TilesY(j))  area == MulNonNeg(j.tx, j.ty)
           whole == MulNonNeg(tiles, area)
<1> DEFINE R == -1 .. MaxInt
<1>3. \A a, b \in Int : MulNonNeg(a, b) \in R
  BY MulNonNegInRange
<1>4. R \subseteq Int
  BY MaxIntAssumption
<1>5. j.x \in Int /\ j.y \in Int /\ j.z \in Int /\ j.tx \in Int /\ j.ty \in Int
  BY DEF ProperGrid
<1> HIDE DEF R
<1>6. xy \in Int /\ tiles \in Int /\ area \in Int
  BY <1>2, <1>3, <1>4, <1>5
<1>7. Overflow \in R
  BY MaxIntAssumption DEF Overflow, R
<1>8. /\ Extent(j) = IF xy = Overflow THEN Overflow
                     ELSE IF cells = Overflow \/ ~Tiled(j) THEN cells
                     ELSE IF tiles = Overflow \/ area = Overflow THEN Overflow
                     ELSE whole
  BY DEF Extent
<1> HIDE DEF xy, tiles, area
<1>9. cells \in R /\ whole \in R
  BY <1>6, <1>3, <1>5
<1> HIDE DEF cells, whole
<1>10. QED
  BY <1>7, <1>8, <1>9 DEF R

\* A number of blocks that is positive has not wrapped around.
LEMMA PositiveBlocks ==
    ASSUME NEW n \in 1 .. MaxInt, BlockCount(n) > 0
    PROVE  /\ BlockCount(n) = (n + BlockSize - 1) \div BlockSize
           /\ BlockCount(n) \in Nat \ {0}
<1> DEFINE a == n + BlockSize - 1  M == 2 * (MaxInt + 1)  b == a - (MaxInt + 1)
<1>1. /\ BlockSize \in Nat \ {0} /\ MaxInt \in Nat /\ BlockSize <= MaxInt
      /\ a \in Nat /\ n \in Nat /\ M \in Nat \ {0}
  BY BlockSizeAssumption, MaxIntAssumption
<1>2. ASSUME a > MaxInt
      PROVE  FALSE
  <2>1. b \in 0 .. M - 1 /\ a + MaxInt + 1 = M * 1 + b
    BY <1>1, <1>2
  <2>2. a + MaxInt + 1 \in Nat
    BY <1>1
  <2> HIDE DEF b
  <2>3. (a + MaxInt + 1) % M = b
    BY <1>1, <2>1, <2>2, DivModUnique
  <2>4. Wrap(a) = a - M /\ a - M < 0
    BY <1>1, <2>1, <2>3 DEF Wrap, b
  <2> DEFINE c == M - a
  <2>5. c \in Nat /\ Wrap(a) = -c /\ c > 0
    BY <1>1, <2>4
  <2> HIDE DEF a, c
  <2>6. Quotient(-c, BlockSize) = -(c \div BlockSize)
    BY <1>1, <2>5 DEF Quotient
  <2>7. c \div BlockSize \in Nat
    BY <1>1, <2>5, DivMod
  <2>8. BlockCount(n) = -(c \div BlockSize)
    BY <2>5, <2>6 DEF BlockCount, a
  <2>9. QED
    BY <2>7, <2>8
<1>3. a <= MaxInt
  BY <1>1, <1>2
<1>4. BlockCount(n) = a \div BlockSize
  BY <1>1, <1>3, BlocksRoundUp
<1>5. a \div BlockSize \in Nat
  <2> HIDE DEF a
  <2>1. QED
    BY <1>1, DivMod
<1>6. QED
  BY <1>4, <1>5

\* The indices that a lane has taken are finitely many.
LEMMA TakenIsFinite ==
    ASSUME NEW g, NEW x \in Nat, NEW l, NEW m \in Int
    PROVE  /\ TakenTo(g, x, l, m) \in SUBSET Int /\ IsFiniteSet(TakenTo(g, x, l, m))
           /\ \A i \in TakenTo(g, x, l, m) : i < m
<1>1. First(x) \in Int
  BY BlockSizeAssumption DEF First
<1>2. IsFiniteSet(First(x) .. m - 1)
  BY <1>1, FS_Interval
<1>3. TakenTo(g, x, l, m) \in SUBSET (First(x) .. m - 1)
  BY DEF TakenTo
<1>4. IsFiniteSet(TakenTo(g, x, l, m))
  BY <1>2, <1>3, FS_Subset
<1>5. QED
  BY <1>1, <1>3, <1>4
LEMMA AcceptLanes ==
    ASSUME ProperGrid(job), Accept
    PROVE  LaneProgress'
<1> DEFINE n == Extent(job)  B == BlockCount(n)
<1>1. /\ job' = job /\ total' = n /\ n > 0 /\ B > 0
      /\ next' = [x \in 0 .. B - 1 |-> First(x)]
      /\ lanes' = [x \in DOMAIN next' |-> [l \in 0 .. LaneCount - 1 |-> Identity]]
  BY DEF Accept
<1>2. n \in 1 .. MaxInt
  BY <1>1, ExtentInRange
<1> HIDE DEF n
<1>3. B = (n + BlockSize - 1) \div BlockSize /\ B \in Nat \ {0} /\ Blocks' = B
  BY <1>1, <1>2, PositiveBlocks DEF Blocks
<1>4. BlockSize \in Nat \ {0} /\ n \in Nat
  BY <1>2, BlockSizeAssumption, MaxIntAssumption
<1>5. BlockSize * B <= n + BlockSize - 1
  BY <1>3, <1>4, DivFloor
<1> HIDE DEF B
<1>6. ASSUME NEW x \in 0 .. B - 1
      PROVE  First(x) \in Nat /\ First(x) <= n
  <2>1. x * BlockSize <= (B - 1) * BlockSize /\ x * BlockSize \in Nat
    BY <1>3, <1>4
  <2>2. (B - 1) * BlockSize = BlockSize * B - BlockSize
    BY <1>3, <1>4
  <2>3. QED
    BY <1>3, <1>4, <1>5, <2>1, <2>2 DEF First
<1>7. next' \in [0 .. Blocks' - 1 -> Int]
  BY <1>1, <1>3, <1>6
<1>8. ASSUME NEW x \in 0 .. Blocks' - 1
      PROVE  First(x) <= next'[x] /\ next'[x] <= Past(x)'
  <2>1. next'[x] = First(x) /\ First(x) \in Nat /\ First(x) <= n
    BY <1>1, <1>3, <1>6
  <2>2. Past(x)' = IF First(x) + BlockSize < n THEN First(x) + BlockSize ELSE n
    BY <1>1 DEF Past, First
  <2>3. QED
    BY <1>4, <2>1, <2>2
<1>9. <<>> \in Seq(AnyCell(job))
  BY EmptySeq
<1>10. lanes' = [x \in 0 .. B - 1 |-> [l \in 0 .. LaneCount - 1 |-> <<>>]]
  BY <1>1 DEF Identity
<1>11. lanes' \in [0 .. Blocks' - 1 -> Lanes(AnyCell(job))]
  BY <1>3, <1>9, <1>10 DEF Lanes
<1>12. ASSUME NEW x \in 0 .. B - 1, NEW l \in 0 .. LaneCount - 1
       PROVE  lanes'[x][l] = Listed(job, TakenTo(job, x, l, next'[x]))
  <2>1. next'[x] = First(x) /\ First(x) \in Nat
    BY <1>1, <1>6
  <2>2. TakenTo(job, x, l, next'[x]) = {}
    BY <2>1 DEF TakenTo
  <2>3. QED
    BY <1>10, <2>2, ListedNone
<1>13. (BlockCount(total))' = B
  BY <1>1 DEF BlockCount, B
<1>14. QED
  BY <1>1, <1>2, <1>3, <1>7, <1>8, <1>11, <1>12, <1>13 DEF LaneProgress

\* Running an index appends its cell to the term of its lane only.
LEMMA RunIndexLanes ==
    ASSUME LaneProgress, NEW x \in DOMAIN next, RunIndex(x)
    PROVE  LaneProgress'
<1> DEFINE i == next[x]  cell == MapIndex(job, i)  Before(l) == TakenTo(job, x, l, i)
           After(l) == TakenTo(job, x, l, i + 1)
<1>1. /\ x \in 0 .. Blocks - 1 /\ x \in Nat /\ i \in Int /\ First(x) <= i /\ i < Past(x)
      /\ total \in Nat
  BY MaxIntAssumption DEF LaneProgress, RunIndex, More
<1>2. BlockOf(i) = x /\ i \in 0 .. total - 1
  BY <1>1, BlockOfNext
<1>3. job' = job /\ total' = total /\ next' = [next EXCEPT ![x] = i + 1]
  BY DEF RunIndex
<1>4. /\ Blocks' = Blocks /\ BlockCount(total)' = BlockCount(total)
      /\ \A y : Past(y)' = Past(y)
  BY <1>3 DEF Blocks, BlockCount, Past, First
<1>5. next' \in [0 .. Blocks - 1 -> Int] /\ next'[x] = i + 1 /\ \A y \in 0 .. Blocks - 1 : y # x => next'[y] = next[y]
  BY <1>1, <1>3 DEF LaneProgress
<1>6. ASSUME NEW y \in 0 .. Blocks - 1
      PROVE  First(y) <= next'[y] /\ next'[y] <= Past(y)
  <2>1. First(y) \in Int /\ Past(y) \in Int
    BY <1>1, BlockSizeAssumption DEF First, Past
  <2>2. First(y) <= next[y] /\ next[y] <= Past(y)
    BY DEF LaneProgress
  <2>3. CASE y = x
    BY <1>1, <1>5, <2>1, <2>2, <2>3
  <2>4. CASE y # x
    BY <1>5, <2>2, <2>4
  <2>5. QED
    BY <2>3, <2>4
<1>7. Lane(i) \in 0 .. LaneCount - 1
  BY <1>1 DEF Lane, LaneCount
<1>8. First(x) \in Int
  BY <1>1, BlockSizeAssumption DEF First
<1>9. ASSUME NEW l, l # Lane(i) \/ cell = Skip
      PROVE  After(l) = Before(l)
  <2>1. \A k \in Int : k \in First(x) .. (i + 1) - 1 <=> k \in First(x) .. i - 1 \/ k = i
    BY <1>1, <1>8
  <2>2. QED
    BY <1>1, <1>8, <1>9, <2>1 DEF TakenTo
<1>10. ASSUME cell # Skip
       PROVE  After(Lane(i)) = Before(Lane(i)) \cup {i}
  <2>1. \A k \in Int : k \in First(x) .. (i + 1) - 1 <=> k \in First(x) .. i - 1 \/ k = i
    BY <1>1, <1>8
  <2>2. QED
    BY <1>1, <1>8, <1>10, <2>1 DEF TakenTo
<1>11. \A l \in 0 .. LaneCount - 1 : lanes[x][l] = Listed(job, Before(l))
  BY <1>1 DEF LaneProgress
<1>12. lanes \in [0 .. Blocks - 1 -> Lanes(AnyCell(job))] /\ lanes[x] \in Lanes(AnyCell(job))
  BY <1>1 DEF LaneProgress
<1>13. /\ lanes' \in [0 .. Blocks - 1 -> Lanes(AnyCell(job))]
       /\ \A y \in 0 .. Blocks - 1 : y # x => lanes'[y] = lanes[y]
       /\ \A l \in 0 .. LaneCount - 1 : lanes'[x][l] = Listed(job, After(l))
  <2>1. CASE cell = Skip
    <3>1. lanes' = lanes
      BY <2>1 DEF RunIndex
    <3>2. QED
      BY <1>9, <1>11, <1>12, <2>1, <3>1
  <2>2. CASE cell # Skip
    <3> DEFINE l0 == Lane(i)  term == lanes[x][l0] \o <<cell>>
    <3>1. lanes' = [lanes EXCEPT ![x] = [lanes[x] EXCEPT ![l0] = term]]
      BY <1>2, <2>2 DEF RunIndex, Op2
    <3>2. term = Listed(job, After(l0))
      <4>1. Listed(job, Before(l0) \cup {i}) = Listed(job, Before(l0)) \o <<MapIndex(job, i)>>
        <5>1. /\ Before(l0) \in SUBSET Int /\ IsFiniteSet(Before(l0))
              /\ \A k \in Before(l0) : k < i
          BY <1>1, TakenIsFinite
        <5> HIDE DEF Before, i
        <5>2. QED
          BY <1>1, <5>1, ListedOneMore
      <4>2. QED
        BY <1>7, <1>10, <1>11, <2>2, <4>1
    <3>3. term \in Seq(AnyCell(job))
      <4>1. After(l0) \in SUBSET Int /\ IsFiniteSet(After(l0))
        <5>1. i + 1 \in Int
          BY <1>1
        <5> HIDE DEF i, l0
        <5>2. QED
          BY <1>1, <5>1, TakenIsFinite
      <4> HIDE DEF After, term, l0
      <4>2. QED
        BY <3>2, <4>1, ListedIsTerm
    <3> HIDE DEF term, cell, Before, After
    <3>4. l0 \in 0 .. LaneCount - 1
      BY <1>7
    <3> HIDE DEF l0
    <3> DEFINE row == [lanes[x] EXCEPT ![l0] = term]
    <3>5. /\ row \in Lanes(AnyCell(job)) /\ row[l0] = term
          /\ \A l \in 0 .. LaneCount - 1 : l # l0 => row[l] = lanes[x][l]
      BY <1>12, <3>3, <3>4 DEF Lanes
    <3> HIDE DEF row
    <3>6. lanes' = [lanes EXCEPT ![x] = row]
      BY <3>1 DEF row
    <3>7. /\ lanes' \in [0 .. Blocks - 1 -> Lanes(AnyCell(job))] /\ lanes'[x] = row
          /\ \A y \in 0 .. Blocks - 1 : y # x => lanes'[y] = lanes[y]
      BY <1>1, <1>12, <3>5, <3>6
    <3>8. ASSUME NEW l \in 0 .. LaneCount - 1
          PROVE  row[l] = Listed(job, After(l))
      <4>1. CASE l = l0
        BY <3>2, <3>5, <4>1
      <4>2. CASE l # l0
        <5>1. After(l) = Before(l)
          BY <1>9, <4>2 DEF l0
        <5>2. QED
          BY <1>11, <3>5, <4>2, <5>1
      <4>3. QED
        BY <4>1, <4>2
    <3>9. QED
      BY <3>7, <3>8
  <2>3. QED
    BY <2>1, <2>2
<1>14. ASSUME NEW y \in 0 .. Blocks - 1, NEW l \in 0 .. LaneCount - 1
       PROVE  lanes'[y][l] = Listed(job, TakenTo(job, y, l, next'[y]))
  <2>1. CASE y = x
    BY <1>5, <1>13, <2>1
  <2>2. CASE y # x
    BY <1>5, <1>13, <2>2 DEF LaneProgress
  <2>3. QED
    BY <2>1, <2>2
<1> HIDE DEF i, cell, Before, After
<1>15. QED
  BY <1>3, <1>4, <1>5, <1>6, <1>13, <1>14 DEF LaneProgress

\* While nothing that LaneProgress speaks of changes, it stays true.
LEMMA LaneProgressFrame ==
    ASSUME LaneProgress, UNCHANGED <<job, total, next, lanes>>
    PROVE  LaneProgress'
BY DEF LaneProgress, Blocks, BlockCount, First, Past, Wrap, Quotient

\* Every step keeps the invariant on lanes.
LEMMA LaneInvStep == ASSUME LaneInv, [Next]_vars PROVE LaneInv'
<1>1. job' = job
  BY DEF Next, vars, Reject, NothingToRun, Accept, BlocksWrapAround, RunIndex, FailIndex,
         FinishReduce, Settled
<1>2. ProperGrid(job')
  BY <1>1 DEF LaneInv
<1>3. CASE Reject \/ BlocksWrapAround
  BY <1>2, <1>3 DEF LaneInv, Reject, BlocksWrapAround
<1>4. CASE NothingToRun
  BY <1>2, <1>4 DEF LaneInv, NothingToRun
<1>5. CASE Accept
  <2>1. LaneProgress' /\ phase' = "running"
    BY <1>5, AcceptLanes DEF LaneInv, Accept
  <2>2. QED
    BY <1>2, <2>1 DEF LaneInv
<1>6. ASSUME NEW x \in DOMAIN next, RunIndex(x) PROVE LaneInv'
  <2>1. phase = "running" /\ phase' = "running"
    BY <1>6 DEF RunIndex
  <2>2. LaneProgress'
    BY <1>6, <2>1, RunIndexLanes DEF LaneInv
  <2>3. QED
    BY <1>2, <2>1, <2>2 DEF LaneInv
<1>7. ASSUME NEW x \in DOMAIN next, FailIndex(x) PROVE LaneInv'
  <2>1. phase = "running" /\ phase' = "running" /\ UNCHANGED <<job, total, next, lanes>>
    BY <1>7 DEF FailIndex
  <2>2. LaneProgress'
    BY <2>1, LaneProgressFrame DEF LaneInv
  <2>3. QED
    BY <1>2, <2>1, <2>2 DEF LaneInv
<1>8. CASE FinishReduce
  <2>1. /\ phase = "running" /\ phase' = "done"
        /\ UNCHANGED <<job, total, lanes, next, failed>>
        /\ failed \/ /\ \A x \in DOMAIN next : ~More(x)
                     /\ result' = Tree(lanes, BlockCount(total))
    BY <1>8 DEF FinishReduce
  <2>2. LaneProgress'
    BY <2>1, LaneProgressFrame DEF LaneInv
  <2>3. failed' \/ /\ (\A x \in DOMAIN next : ~More(x))'
                   /\ result' = Tree(lanes, BlockCount(total))'
    BY <2>1 DEF More, Past, First
  <2>4. QED
    BY <1>2, <2>1, <2>2, <2>3 DEF LaneInv
<1>9. CASE UNCHANGED vars
  <2>1. UNCHANGED <<job, phase, total, next, lanes, failed, result>>
    BY <1>9 DEF vars
  <2>2. LaneProgress => LaneProgress'
    BY <2>1, LaneProgressFrame
  <2>3. /\ (\A x \in DOMAIN next : ~More(x)) => (\A x \in DOMAIN next : ~More(x))'
        /\ Tree(lanes, BlockCount(total))' = Tree(lanes, BlockCount(total))
    BY <2>1 DEF More, Past, First
  <2>4. QED
    BY <1>2, <2>1, <2>2, <2>3 DEF LaneInv
<1>10. CASE Settled
  BY <1>9, <1>10 DEF Settled
<1>11. QED
  BY <1>3, <1>4, <1>5, <1>6, <1>7, <1>8, <1>9, <1>10 DEF Next
\* How terms are grouped does not matter, and what they make is a term again.
LEMMA ConcatGroups ==
    ASSUME NEW T
    PROVE  /\ \A s, t, u \in Seq(T) : (s \o t) \o u = s \o (t \o u)
           /\ \A s, t \in Seq(T) : s \o t \in Seq(T)
<1>1. ASSUME NEW s \in Seq(T), NEW t \in Seq(T), NEW u \in Seq(T)
      PROVE  (s \o t) \o u = s \o (t \o u)
  BY ConcatAssociative
<1>2. ASSUME NEW s \in Seq(T), NEW t \in Seq(T)
      PROVE  s \o t \in Seq(T)
  BY ConcatProperties
<1>3. QED
  BY <1>1, <1>2

\* Four terms after another one, as the tree's leaves group them and one by one.
LEMMA FourInOrder ==
    ASSUME NEW T
    PROVE  \A p, a, b, c, d \in Seq(T) :
               /\ p \o ((a \o b) \o (c \o d)) = p \o a \o b \o c \o d
               /\ p \o a \o b \o c \o d \in Seq(T)
<1> SUFFICES ASSUME NEW p \in Seq(T), NEW a \in Seq(T), NEW b \in Seq(T),
                    NEW c \in Seq(T), NEW d \in Seq(T)
             PROVE  /\ p \o ((a \o b) \o (c \o d)) = p \o a \o b \o c \o d
                    /\ p \o a \o b \o c \o d \in Seq(T)
  OBVIOUS
<1> DEFINE Grouped(s, t, u) == (s \o t) \o u = s \o (t \o u)
<1>1. /\ \A s, t, u \in Seq(T) : Grouped(s, t, u)
      /\ \A s, t \in Seq(T) : s \o t \in Seq(T)
  BY ConcatGroups
<1>2. (a \o b) \in Seq(T) /\ (c \o d) \in Seq(T) /\ (p \o a) \in Seq(T)
  BY <1>1, Zenon
<1>3. ((p \o a) \o b) \in Seq(T)
  BY <1>1, <1>2, Zenon
<1>4. (((p \o a) \o b) \o c) \in Seq(T)
  BY <1>1, <1>3, Zenon
<1>5. ((((p \o a) \o b) \o c) \o d) \in Seq(T)
  BY <1>1, <1>4, Zenon
<1>6. /\ Grouped(p, a \o b, c \o d) /\ Grouped(p, a, b)
      /\ Grouped((p \o a) \o b, c, d)
  <2> HIDE DEF Grouped
  <2>1. QED
    BY <1>1, <1>2, <1>3, Zenon
<1>7. QED
  BY <1>5, <1>6, Zenon

\* What the lanes of a block that has run hold is what the serial order gives.
LEMMA LaneInvDetermines == LaneInv => ResultIsDeterministic
<1> DEFINE T == AnyCell(job)  B == BlockCount(total)
           Four(q, y) == q \o LaneTerm(y, 0) \o LaneTerm(y, 1)
                           \o LaneTerm(y, 2) \o LaneTerm(y, 3)
           InOrder[x \in 0 .. B] == IF x = 0 THEN Identity ELSE Four(InOrder[x - 1], x - 1)
           Turn == [x \in 1 .. B |-> [q \in Seq(T) |-> Four(q, x - 1)]]
<1> SUFFICES ASSUME LaneInv, phase = "done", ~failed, total > 0
             PROVE  result = InOrder[B]
  BY DEF ResultIsDeterministic, Succeeded
<1>1. /\ LaneProgress /\ \A x \in DOMAIN next : ~More(x)
      /\ result = Tree(lanes, B)
  BY DEF LaneInv
<1>2. /\ B = Blocks /\ B \in Nat \ {0} /\ total \in Nat
      /\ lanes \in [0 .. B - 1 -> Lanes(T)]
  BY <1>1, MaxIntAssumption DEF LaneProgress
<1>3. ASSUME NEW x \in 0 .. B - 1, NEW l \in 0 .. LaneCount - 1
      PROVE  lanes[x][l] = LaneTerm(x, l) /\ LaneTerm(x, l) \in Seq(T)
  <2>1. /\ x \in DOMAIN next /\ next[x] \in Int /\ next[x] <= Past(x)
        /\ lanes[x][l] = Listed(job, TakenTo(job, x, l, next[x]))
    BY <1>1, <1>2 DEF LaneProgress
  <2>2. Past(x) \in Int /\ ~(next[x] < Past(x))
    BY <1>1, <1>2, <2>1, BlockSizeAssumption DEF More, Past, First
  <2>3. next[x] = Past(x)
    BY <2>1, <2>2
  <2>4. LaneTerm(x, l) = Listed(job, TakenTo(job, x, l, Past(x)))
    BY DEF LaneTerm, Listed, TakenTo, Nth, Rank
  <2>5. lanes[x] \in Lanes(T)
    BY <1>2
  <2>6. QED
    BY <2>1, <2>3, <2>4, <2>5 DEF Lanes
<1>4. ASSUME NEW x \in 0 .. B - 1, NEW q \in Seq(T)
      PROVE  q \o Partial(lanes[x]) = Four(q, x) /\ Four(q, x) \in Seq(T)
  <2> DEFINE a == LaneTerm(x, 0)  b == LaneTerm(x, 1)  c == LaneTerm(x, 2)  d == LaneTerm(x, 3)
  <2>1. /\ lanes[x][0] = a /\ a \in Seq(T) /\ lanes[x][1] = b /\ b \in Seq(T)
        /\ lanes[x][2] = c /\ c \in Seq(T) /\ lanes[x][3] = d /\ d \in Seq(T)
    BY <1>3 DEF LaneCount
  <2> HIDE DEF a, b, c, d, T
  <2>2. Partial(lanes[x]) = (a \o b) \o (c \o d)
    BY <2>1 DEF Partial, Op2
  <2>3. Four(q, x) = q \o a \o b \o c \o d
    BY DEF a, b, c, d
  <2>4. /\ q \o ((a \o b) \o (c \o d)) = q \o a \o b \o c \o d
        /\ q \o a \o b \o c \o d \in Seq(T)
    <3> DEFINE InTurn(u, v, w, y, z) ==
                  /\ u \o ((v \o w) \o (y \o z)) = u \o v \o w \o y \o z
                  /\ u \o v \o w \o y \o z \in Seq(T)
    <3>1. \A u, v, w, y, z \in Seq(T) : InTurn(u, v, w, y, z)
      BY FourInOrder
    <3>2. q \in Seq(T)
      BY <1>4
    <3>3. InTurn(q, a, b, c, d)
      <4> HIDE DEF InTurn
      <4>1. QED
        BY <2>1, <3>1, <3>2, Zenon
    <3>4. QED
      BY <3>3
  <2> HIDE DEF Four
  <2>5. QED
    BY <2>2, <2>3, <2>4
<1> HIDE DEF T
<1>5. InOrder = [x \in 0 .. B |-> IF x = 0 THEN Identity ELSE Four(InOrder[x - 1], x - 1)]
  <2> HIDE DEF Four, B
  <2>1. Turn \in Turns(B, Seq(T))
    <3>1. \A x \in 1 .. B : x - 1 \in 0 .. B - 1
      BY <1>2
    <3>2. \A x \in 1 .. B, q \in Seq(T) : Four(q, x - 1) \in Seq(T)
      BY <1>4, <3>1
    <3>3. QED
      BY <3>2 DEF Turns
  <2>2. PICK g : Follows(g, B, Seq(T), Identity, Turn)
    <3>1. Identity \in Seq(T)
      BY EmptySeq DEF Identity
    <3> HIDE DEF Turn
    <3>2. QED
      BY <1>2, <2>1, <3>1, RecursionHasSolution
  <2>3. /\ \A x \in 1 .. B : g[x - 1] \in Seq(T)
        /\ g = [x \in 0 .. B |-> IF x = 0 THEN Identity ELSE Turn[x][g[x - 1]]]
    <3> HIDE DEF Turn
    <3>1. QED
      BY <1>2, <2>2, FollowsSteps
  <2>4. \A x \in 1 .. B : Turn[x][g[x - 1]] = Four(g[x - 1], x - 1)
    BY <2>3
  <2>5. \A x \in 0 .. B : x # 0 => x \in 1 .. B
    BY <1>2
  <2>6. g = [x \in 0 .. B |-> IF x = 0 THEN Identity ELSE Four(g[x - 1], x - 1)]
    <3> HIDE DEF Turn
    <3>1. QED
      BY <2>3, <2>4, <2>5, Zenon
  <2>7. QED
    BY <2>6
<1> HIDE DEF InOrder, Four
<1> DEFINE W == Doubled(B)[Levels(B)]  leaves == Leaves(lanes, B)  J == Joined(leaves, W)
<1>6. W \in Nat /\ W >= B /\ leaves \in Rows(W, T) /\ result = J[W]
  <2> HIDE DEF B
  <2>1. QED
    BY <1>1, <1>2, TreeJoins
<1>7. \A x \in 0 .. W - 1 : leaves[x] = IF x < B THEN Partial(lanes[x]) ELSE <<>>
  BY DEF Leaves, Identity
<1> HIDE DEF W, leaves, B
<1>8. /\ J \in [0 .. W -> Seq(T)] /\ J[0] = <<>>
      /\ \A x \in 0 .. W - 1 : J[x + 1] = J[x] \o leaves[x]
  BY <1>6, JoinedSteps
<1> HIDE DEF J
<1> DEFINE S == {x \in 0 .. B : J[x] = InOrder[x]}
<1>9. 0 \in S
  <2>1. 0 \in 0 .. B
    BY <1>2
  <2>2. InOrder[0] = <<>>
    BY <1>5, <2>1 DEF Identity
  <2>3. QED
    BY <1>8, <2>1, <2>2
<1>10. ASSUME NEW x \in 0 .. B - 1, x \in S
       PROVE  x + 1 \in S
  <2>1. /\ x + 1 \in 0 .. B /\ x + 1 # 0 /\ (x + 1) - 1 = x /\ x < B
        /\ x \in 0 .. W - 1 /\ x \in 0 .. W
    BY <1>2, <1>6
  <2>2. J[x + 1] = J[x] \o Partial(lanes[x]) /\ J[x] \in Seq(T)
    BY <1>7, <1>8, <2>1
  <2>3. InOrder[x + 1] = Four(InOrder[x], x)
    BY <1>5, <2>1
  <2>4. J[x] = InOrder[x]
    BY <1>10
  <2>5. J[x] \o Partial(lanes[x]) = Four(J[x], x)
    BY <1>4, <2>2
  <2>6. QED
    BY <2>1, <2>2, <2>3, <2>4, <2>5
<1>11. J[B] = InOrder[B]
  <2> HIDE DEF S
  <2>1. \A x \in 0 .. B : x \in S
    BY <1>2, <1>9, <1>10, IntervalInduction
  <2>2. B \in S
    BY <1>2, <2>1
  <2>3. QED
    BY <2>2 DEF S
<1> DEFINE R == {x \in B .. W : J[x] = J[B]}
<1>12. B \in R
  BY <1>2, <1>6
<1>13. ASSUME NEW x \in B .. W - 1, x \in R
       PROVE  x + 1 \in R
  <2>1. x + 1 \in B .. W /\ x \in 0 .. W - 1 /\ x \in 0 .. W /\ ~(x < B)
    BY <1>2, <1>6
  <2>2. J[x + 1] = J[x] \o <<>> /\ J[x] \in Seq(T)
    BY <1>7, <1>8, <2>1
  <2>3. J[x] \o <<>> = J[x]
    BY <2>2, ConcatEmptySeq
  <2>4. QED
    BY <1>13, <2>1, <2>2, <2>3
<1>14. J[W] = J[B]
  <2> HIDE DEF R
  <2>1. \A x \in B .. W : x \in R
    BY <1>2, <1>6, <1>12, <1>13, IntervalInduction
  <2>2. W \in R
    BY <1>2, <1>6, <2>1
  <2>3. QED
    BY <2>2 DEF R
<1>15. QED
  BY <1>6, <1>11, <1>14

\* What is known of a reduction while its blocks run: a lane of a block holds
\* the cells of the indices that fell to it, in ascending order.
THEOREM LaneInvariance == Spec => []LaneInv
<1>1. Init => LaneInv
  BY GridsAreProper DEF Init, LaneInv
<1>2. LaneInv /\ [Next]_vars => LaneInv'
  BY LaneInvStep
<1>3. QED
  BY <1>1, <1>2, PTL DEF Spec

\* A reduction that succeeds combines the same values in the same order whatever
\* the order in which participants ran its blocks, for every grid that is
\* accepted (accumulateBlock and finishReduce, vm.cpp).
THEOREM ReductionIsDeterministic == Spec => []ResultIsDeterministic
<1>1. QED
  BY LaneInvariance, LaneInvDetermines, PTL
=============================================================================
