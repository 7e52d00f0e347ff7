---------------------------- MODULE ParallelFor ----------------------------
(***************************************************************************)
(* What one parallel dispatch promises, with no scheduler in sight: a set  *)
(* of blocks is handed out to participants, each block at most once; a     *)
(* block that was handed out either runs to its end or is given up because *)
(* a kernel has failed.  WorkRanges, the work-stealing loop of vm.cpp, is  *)
(* shown to implement this module.                                         *)
(***************************************************************************)
EXTENDS Integers

CONSTANT Participants     \* the threads that share the dispatch

VARIABLES
    todo,      \* the blocks nobody has started
    busy,      \* the block each participant is running, or Idle
    ran,       \* the blocks whose kernel ran for every index
    failed     \* some kernel has failed

pfVars == <<todo, busy, ran, failed>>

Idle == -1

Init ==
    /\ todo \subseteq Nat
    /\ busy = [p \in Participants |-> Idle]
    /\ ran = {}
    /\ failed = FALSE

Start(p) ==
    /\ busy[p] = Idle
    /\ \E x \in todo :
        /\ todo' = todo \ {x}
        /\ busy' = [busy EXCEPT ![p] = x]
    /\ UNCHANGED <<ran, failed>>

Complete(p) ==
    /\ busy[p] # Idle
    /\ ran' = ran \cup {busy[p]}
    /\ busy' = [busy EXCEPT ![p] = Idle]
    /\ UNCHANGED <<todo, failed>>

Fail(p) ==
    /\ busy[p] # Idle
    /\ failed' = TRUE
    /\ busy' = [busy EXCEPT ![p] = Idle]
    /\ UNCHANGED <<todo, ran>>

Abandon(p) ==
    /\ busy[p] # Idle
    /\ failed
    /\ busy' = [busy EXCEPT ![p] = Idle]
    /\ UNCHANGED <<todo, ran, failed>>

Next == \E p \in Participants : Start(p) \/ Complete(p) \/ Fail(p) \/ Abandon(p)

Spec == Init /\ [][Next]_pfVars
=============================================================================
