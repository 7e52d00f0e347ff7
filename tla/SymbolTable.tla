---------------------------- MODULE SymbolTable ----------------------------
(***************************************************************************)
(* The global variables: the open-addressing hash table of table.cpp, the  *)
(* cells its values live in, and the inline caches through which the       *)
(* interpreter (vm.cpp) and compiled code (jit.cpp) reach a cell without   *)
(* taking the lock.                                                        *)
(*                                                                         *)
(* Writers hold globalsLock exclusively and lookups hold it shared, so a   *)
(* table operation is one step; between a lookup and the use of the cell   *)
(* it found, and between a load from a cache and that use, the lock is not *)
(* held and those are steps of their own.  A writer keeps nothing between  *)
(* steps, so writers are not told apart: any thread that is not reading.   *)
(*                                                                         *)
(* Names stand for interned strings and are compared by content, so equal  *)
(* keys are the same name; a hash is any number below HashRange.  Values   *)
(* are plain, not heap objects.  slabAlloc returns the lowest free cell,   *)
(* so that a freed cell is reused at once.                                 *)
(***************************************************************************)
EXTENDS Integers, FiniteSets, FiniteSetsExt

CONSTANTS
    Name, Value,
    Thread,                \* the threads that read
    Undefined,             \* the answer for a name without a definition
    MinCapacity,           \* GROW_CAPACITY's smallest array; 8 in the code
    HashRange,             \* hashes are 0 .. HashRange - 1
    Cells                  \* how many value cells there are

ASSUME NameAssumption == IsFiniteSet(Name) /\ Undefined \notin Value
ASSUME CellsAssumption == Cells \in Nat /\ Cells > Cardinality(Name)
ASSUME CapacityAssumption ==
    /\ MinCapacity \in {2, 4, 8}      \* a power of two, as in common.hpp
    /\ HashRange \in Nat \ {0}

VARIABLES
    hash,       \* ObjString::hash of each name, fixed for the run
    table,      \* count, capacity, entries of Table, and the cells of its values
    cache,      \* Chunk::globalCache: the cell of each name, or Null
    reading,    \* per thread: the name it reads and the cell it got, or NotReading
    answer      \* per thread: the last value read, or Undefined

stVars == <<hash, table, cache, reading, answer>>

Cell == 1 .. Cells
Null == 0
Tombstone == -1                      \* TABLE_TOMBSTONE
Free == "free"                       \* a cell slabFree has taken back
NoName == "no name"
NotReading == [name |-> NoName, cell |-> Null]

\* What marks an unused entry or cell is no name and no value.
ASSUME MarksAssumption == NoName \notin Name /\ Free \notin Value

NeverUsed == [key |-> NoName, cell |-> Null]
Grave == [key |-> NoName, cell |-> Tombstone]

EmptyTable ==                        \* Table::init
    [count |-> 0, capacity |-> 0, entries |-> <<>>, heap |-> [c \in Cell |-> Free]]
-----------------------------------------------------------------------------
(* table.cpp *)

\* findEntry: the index of the entry that holds n, or where n would go: the
\* first tombstone of the probe sequence, else the unused entry that ends it.
FindEntry(entries, capacity, n) ==
    LET At(i) == (hash[n] + i) % capacity
        Stops == {i \in 0 .. capacity - 1 :
                    entries[At(i)].key = n \/ entries[At(i)] = NeverUsed}
        Stop == Min(Stops)
        Graves == {i \in 0 .. Stop - 1 : entries[At(i)] = Grave}
    IN  At(IF entries[At(Stop)].key = n \/ Graves = {} THEN Stop ELSE Min(Graves))

EntryFor(t, n) == t.entries[FindEntry(t.entries, t.capacity, n)]

\* getPtr: the cell, or the null pointer.
GetPtr(t, n) ==
    IF t.count = 0 THEN Null
    ELSE LET entry == EntryFor(t, n) IN IF entry.key = NoName THEN Null ELSE entry.cell

\* get: the value that is found, Undefined where get returns false.
Get(n) ==
    LET cell == GetPtr(table, n) IN IF cell = Null THEN Undefined ELSE table.heap[cell]

GrowCapacity(capacity) == IF capacity < MinCapacity THEN MinCapacity ELSE 2 * capacity

\* A bug to compare with: the entries keep their places.
SlipAdjustCapacity(t, capacity) ==
    LET Old == 0 .. t.capacity - 1
        Live == {i \in Old : t.entries[i].key # NoName}
    IN  [t EXCEPT !.capacity = capacity,
                  !.entries = [i \in 0 .. capacity - 1 |->
                                 IF i \in Live THEN t.entries[i] ELSE NeverUsed],
                  !.count = Cardinality(Live)]

\* adjustCapacity: the live entries are inserted again in their order, the
\* tombstones are left behind, and count starts anew.
AdjustCapacity(t, capacity) ==
    LET Live == {i \in 0 .. t.capacity - 1 : t.entries[i].key # NoName}
        Copied[i \in 0 .. t.capacity] ==          \* after the first i old entries
            IF i = 0 THEN [j \in 0 .. capacity - 1 |-> NeverUsed]
            ELSE LET before == Copied[i - 1]
                     old == t.entries[i - 1]
                 IN  IF old.key = NoName THEN before
                     ELSE [before EXCEPT ![FindEntry(before, capacity, old.key)] = old]
    IN  [t EXCEPT !.capacity = capacity, !.entries = Copied[t.capacity],
                  !.count = Cardinality(Live)]

\* A bug to compare with: the table may fill up.
SlipOverloaded(t) == t.count + 1 > t.capacity

\* TABLE_MAX_LOAD: three quarters, tombstones included.
Overloaded(t) == (t.count + 1) * 4 > t.capacity * 3

Grown(t) ==
    IF Overloaded(t) THEN AdjustCapacity(t, GrowCapacity(t.capacity)) ELSE t

\* What set returns.
IsNewKey(t, n) == EntryFor(Grown(t), n).key = NoName

FreeCell(t) == Min({c \in Cell : t.heap[c] = Free})

\* A bug to compare with: every set takes a new cell.
SlipSet(t, n, v) ==
    LET g == Grown(t)
        i == FindEntry(g.entries, g.capacity, n)
        cell == FreeCell(g)
        heap == [c \in Cell |-> IF c = g.entries[i].cell THEN Free ELSE g.heap[c]]
    IN  [g EXCEPT !.count = IF g.entries[i] = NeverUsed THEN @ + 1 ELSE @,
                  !.entries[i] = [key |-> n, cell |-> cell],
                  !.heap = [heap EXCEPT ![cell] = v]]

\* set: a tombstone that is used again has been counted already.
Set(t, n, v) ==
    LET g == Grown(t)
        i == FindEntry(g.entries, g.capacity, n)
        cell == IF IsNewKey(t, n) THEN FreeCell(g) ELSE g.entries[i].cell
    IN  [g EXCEPT !.count = IF g.entries[i] = NeverUsed THEN @ + 1 ELSE @,
                  !.entries[i] = [key |-> n, cell |-> cell],
                  !.heap[cell] = v]

\* A bug to compare with: del keeps the cell.
SlipDelCell(t, n) ==
    IF GetPtr(t, n) = Null THEN t
    ELSE [t EXCEPT !.entries[FindEntry(t.entries, t.capacity, n)] = Grave]

\* del: the entry becomes a tombstone and keeps its place in count.
Del(t, n) ==
    IF GetPtr(t, n) = Null THEN t
    ELSE [t EXCEPT !.entries[FindEntry(t.entries, t.capacity, n)] = Grave,
                   !.heap[GetPtr(t, n)] = Free]
-----------------------------------------------------------------------------
STInit ==
    /\ hash \in [Name -> 0 .. HashRange - 1]
    /\ table = EmptyTable
    /\ cache = [n \in Name |-> Null]
    /\ reading = [t \in Thread |-> NotReading]
    /\ answer = [t \in Thread |-> Undefined]

\* OP_DEFINE_GLOBAL, isli_setglobal, isli_setcfunction and compiled code's
\* jit_helper_set_global, which does not ask whether the name exists.
Define(n, v) ==
    /\ table' = Set(table, n, v)
    /\ UNCHANGED <<hash, cache, reading, answer>>

\* OP_SET_GLOBAL of a defined name.
Assign(n, v) ==
    /\ ~IsNewKey(table, n)
    /\ table' = Set(table, n, v)
    /\ UNCHANGED <<hash, cache, reading, answer>>

\* OP_SET_GLOBAL of an undefined name inserts it and deletes it again under the
\* same lock; the script of that thread stops with an error.
RefuseAssign(n, v) ==
    /\ IsNewKey(table, n)
    /\ table' = Del(Set(table, n, v), n)
    /\ UNCHANGED <<hash, cache, reading, answer>>

\* OP_GET_GLOBAL, first step: the pointer in the inline cache, or none.
LoadCache(t, n) ==
    /\ reading[t] = NotReading
    /\ reading' = [reading EXCEPT ![t] = [name |-> n, cell |-> cache[n]]]
    /\ UNCHANGED <<hash, table, cache, answer>>

\* The cache was empty: getPtr under the shared lock.
LookUp(t) ==
    LET n == reading[t].name IN
    /\ n # NoName
    /\ reading[t].cell = Null
    /\ GetPtr(table, n) # Null
    /\ reading' = [reading EXCEPT ![t].cell = GetPtr(table, n)]
    /\ UNCHANGED <<hash, table, cache, answer>>

LookUpFails(t) ==
    LET n == reading[t].name IN
    /\ n # NoName
    /\ reading[t].cell = Null
    /\ GetPtr(table, n) = Null
    /\ reading' = [reading EXCEPT ![t] = NotReading]
    /\ answer' = [answer EXCEPT ![t] = Undefined]
    /\ UNCHANGED <<hash, table, cache>>

\* The lock has been released: the pointer is cached and the cell is read.
UseCell(t) ==
    LET r == reading[t] IN
    /\ r.cell # Null
    /\ cache' = [cache EXCEPT ![r.name] = r.cell]
    /\ answer' = [answer EXCEPT ![t] = table.heap[r.cell]]
    /\ reading' = [reading EXCEPT ![t] = NotReading]
    /\ UNCHANGED <<hash, table>>

\* isli_getglobal and jit_helper_get_global: get, all under the shared lock.
GetUnderLock(t, n) ==
    /\ reading[t] = NotReading
    /\ answer' = [answer EXCEPT ![t] = Get(n)]
    /\ UNCHANGED <<hash, table, cache, reading>>

STNext ==
    \/ \E n \in Name, v \in Value : Define(n, v) \/ Assign(n, v) \/ RefuseAssign(n, v)
    \/ \E t \in Thread, n \in Name : LoadCache(t, n) \/ GetUnderLock(t, n)
    \/ \E t \in Thread : LookUp(t) \/ LookUpFails(t) \/ UseCell(t)

STSpec == STInit /\ [][STNext]_stVars
-----------------------------------------------------------------------------
(* Properties *)

Used(t) == {i \in 0 .. t.capacity - 1 : t.entries[i] # NeverUsed}
Live == {i \in 0 .. table.capacity - 1 : table.entries[i].key # NoName}

\* findEntry's loop has no other exit than a match or a never-used entry: as
\* long as there is one of those, no lookup of a missing name goes round for
\* ever.  count keeps it so only if it counts the tombstones too.
ProbesEnd ==
    /\ table.count = Cardinality(Used(table))
    /\ table.capacity > 0 => table.count < table.capacity

\* A pointer in a cache, or in a thread's hands after the lock was released,
\* is the cell the name has now: growth moves entries, never cells, and only
\* a cell nobody can have seen is freed.
CachedCellsLive ==
    /\ \A n \in Name : cache[n] # Null => cache[n] = GetPtr(table, n)
    /\ \A t \in Thread :
        reading[t].cell # Null => reading[t].cell = GetPtr(table, reading[t].name)

\* Every cell that is not free belongs to exactly one live entry: refused
\* assignments leak nothing, and no two names share a value.
CellsOwnedOnce ==
    \A c \in Cell :
        Cardinality({i \in Live : table.entries[i].cell = c})
            = IF table.heap[c] = Free THEN 0 ELSE 1

\* What the live entries say, read without probing.
Contents ==
    [n \in Name |->
        IF \E i \in Live : table.entries[i].key = n
        THEN table.heap[table.entries[CHOOSE i \in Live : table.entries[i].key = n].cell]
        ELSE Undefined]

GM == INSTANCE GlobalMap WITH globals <- Contents

\* The hash table with its cached cells implements the map of values: what a
\* reader gets, by probing or through its cache, is what the entries hold then.
ImplementsGlobalMap == GM!Spec
=============================================================================
