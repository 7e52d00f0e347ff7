---------------------------- MODULE MCIndexSpace ----------------------------
(* Small instances of IndexSpace.  A negative size, which a .cfg cannot    *)
(* spell, is in the sets that stand for Dims and TileSizes.                *)
EXTENDS IndexSpace

SmallDims == {-1, 0, 1, 2, 3, 4, 5, 7, 30}
SmallTileSizes == {-1, 0, 1, 2, 3, 29, 31}
=============================================================================
