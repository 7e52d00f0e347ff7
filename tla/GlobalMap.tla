----------------------------- MODULE GlobalMap -----------------------------
(***************************************************************************)
(* What the global variables promise to the threads of a script: a partial *)
(* map from names to values.  A definition, or an assignment to a name     *)
(* that has one, changes the value of that name alone; a refused           *)
(* assignment leaves no trace; a read answers what the name holds at that  *)
(* moment.  SymbolTable, the hash table with its cached cells, implements  *)
(* this module.                                                            *)
(***************************************************************************)
CONSTANTS Name, Value, Thread,
          Undefined           \* the answer for a name without a definition

VARIABLES
    globals,    \* the value of each name, or Undefined
    answer      \* what each thread has read last

gmVars == <<globals, answer>>

Init ==
    /\ globals = [n \in Name |-> Undefined]
    /\ answer = [t \in Thread |-> Undefined]

\* Name n gets some value.
Define(n) ==
    /\ UNCHANGED answer
    /\ globals'[n] \in Value
    /\ globals' = [globals EXCEPT ![n] = globals'[n]]

Answer(t, n) ==
    /\ answer' = [answer EXCEPT ![t] = globals[n]]
    /\ UNCHANGED globals

Next == \E n \in Name : Define(n) \/ \E t \in Thread : Answer(t, n)

Spec == Init /\ [][Next]_gmVars
=============================================================================
