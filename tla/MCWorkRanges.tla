---------------------------- MODULE MCWorkRanges ----------------------------
(* Small instance of WorkRanges: constants are given in the .cfg files.    *)
EXTENDS WorkRanges
=============================================================================
