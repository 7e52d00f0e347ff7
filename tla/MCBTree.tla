------------------------------- MODULE MCBTree -------------------------------
(* Small instance of BTree.  The scripts begin with no keys, or with those up *)
(* to Size, in one order or the other, and touch some keys after that, one of *)
(* them with either of two values.                                            *)
EXTENDS BTree

CONSTANTS Size, Touched, v, w

Numbers == 1 .. Size
Items == [key : Touched, value : {v}] \cup [key : {2}, value : {w}]
Ascending == [n \in Numbers |-> [key |-> n, value |-> v]]
FromTheStart == {<<>>, Ascending, Reverse(Ascending)}
=============================================================================
