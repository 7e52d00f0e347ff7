--------------------------- MODULE MCJitManager ---------------------------
(* Small instance of JitManager: constants are given in the .cfg files.   *)
EXTENDS JitManager
=============================================================================
