---------------------------- MODULE MCSimtEngine ----------------------------
(* Small instances of SimtEngine: constants are given in the .cfg files.   *)
EXTENDS SimtEngine
=============================================================================
