------------------------------ MODULE KeyedMap ------------------------------
(***************************************************************************)
(* What a map of the language promises, key by key: a value that is put in *)
(* is found until another is put in or the key is removed, whatever is     *)
(* done to the other keys.  BTree promises this but for the keys that it   *)
(* holds more than once: those are Lost, until they are gone altogether.   *)
(***************************************************************************)
CONSTANTS Key, Value,
          Absent,         \* what get answers for a key that is not there
          Lost            \* nothing is promised of what get answers

VARIABLE contents         \* what get answers for each key

\* Whatever was put in before.
Init == contents \in [Key -> Value \cup {Absent}]

\* The answer for key k changes, and no other: the key is removed, or given a
\* value, or put in a second time, which only a key that is there can be.
Change(k) ==
    /\ contents'[k] # contents[k]
    /\ contents' = [contents EXCEPT ![k] = contents'[k]]
    /\ \/ contents'[k] = Absent
       \/ contents[k] # Lost /\ contents'[k] \in Value
       \/ contents[k] \in Value /\ contents'[k] = Lost

Next == \E k \in Key : Change(k)

Spec == Init /\ [][Next]_contents
=============================================================================
