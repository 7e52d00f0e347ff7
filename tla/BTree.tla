-------------------------------- MODULE BTree --------------------------------
(***************************************************************************)
(* The B-tree of object.cpp behind btree_insert, btree_get, btree_has and  *)
(* btree_remove.  Each of them holds the lock of the tree from its first   *)
(* look at it to its last, so each is one step.                            *)
(*                                                                         *)
(* A node keeps its keys and values in two vectors that always change      *)
(* together: here they are one sequence of items.  Where the code has the  *)
(* flag isLeaf, a node has a level, which is handed on as the flag is, and *)
(* is 0 for a leaf.  Indices count from 1.  Keys are numbers, whose order  *)
(* is ValueLess.                                                           *)
(*                                                                         *)
(* What the code does by recursion on nodes is here a function on the      *)
(* nodes of each level, given the one for the level below.                 *)
(***************************************************************************)
EXTENDS Integers, Sequences, SequencesExt, FiniteSets, Functions

CONSTANTS
    Key, Value,
    Absent, Lost,     \* as in KeyedMap
    Starts,           \* what a script begins with: sequences of items with different keys
    Item,             \* and what it inserts or removes then
    Degrees,          \* what scripts pass to btree()
    CountMax          \* bound on count, for TLC: inserts stop there

ASSUME KeyAssumption == Key \subseteq Int /\ Degrees \subseteq Int
ASSUME ItemAssumption == Item \subseteq [key : Key, value : Value]
ASSUME AbsentAssumption == Absent \notin Value /\ Lost \notin Value \cup {Absent}

VARIABLES
    degree,     \* ObjBTree::degree
    root,       \* ObjBTree::root, or None
    count,      \* ObjBTree::count
    held,       \* per item: how often it was cloned into the tree and not dropped
    doubled     \* history: the keys the tree has held twice, until they are gone

btVars == <<degree, root, count, held, doubled>>

AnyItem == [key : Key, value : Value]
ASSUME StartsAssumption ==
    \A start \in Starts :
        /\ start \in Seq(AnyItem)
        /\ \A m, n \in DOMAIN start : m # n => start[m].key # start[n].key

Node(level, items, kids) == [level |-> level, items |-> items, kids |-> kids]
None == Node(0, <<>>, <<>>)                  \* nullptr; an empty root is deleted
IsLeaf(node) == node.level = 0

\* BTreeNode: whatever is in the vectors of nodes of a level.
NodesOver(h, below) ==
    [level : {h}, items : Seq(AnyItem), kids : IF h = 0 THEN {<<>>} ELSE Seq(below)]
Tree[h \in Nat] == NodesOver(h, Tree[h - 1])

Holdings == [AnyItem -> Int]

FirstOf(s, n) == SubSeq(s, 1, IF n < Len(s) THEN n ELSE Len(s))
From(s, n) == SubSeq(s, n, Len(s))
Counted(counts, item, by) == [counts EXCEPT ![item] = @ + by]

-----------------------------------------------------------------------------
(* Looking a key up *)

\* How many items are below a key, or at most at it: the keys ascend, so the
\* loops over them stop there.
Below(node, k) == Cardinality({n \in DOMAIN node.items : node.items[n].key < k})
UpTo(node, k) == Cardinality({n \in DOMAIN node.items : node.items[n].key <= k})

IsAt(node, at, k) == at \in DOMAIN node.items /\ node.items[at].key = k

\* btreeSearchNode: what btree_get answers; btree_has answers whether there is one.
Sought(h) == [node : Tree[h], key : Key]
SearchIn(h, below) ==
    [s \in Sought(h) |->
        LET at == Below(s.node, s.key) + 1
        IN  IF IsAt(s.node, at, s.key) THEN s.node.items[at].value
            ELSE IF h = 0 THEN Absent
            ELSE below[[s EXCEPT !.node = s.node.kids[at]]]]
SearchNode[h \in Nat] == SearchIn(h, SearchNode[h - 1])
-----------------------------------------------------------------------------
(* Insertion *)

\* A bug to compare with: the median stays in the left half as well.
SlipSplitMedian(parent, i) ==
    LET full == parent.kids[i]
        left == Node(full.level, FirstOf(full.items, degree), FirstOf(full.kids, degree + 1))
        right == Node(full.level, From(full.items, degree + 1), From(full.kids, degree + 1))
    IN  Node(parent.level, InsertAt(parent.items, i, full.items[degree]),
             InsertAt([parent.kids EXCEPT ![i] = left], i + 1, right))

\* btreeSplitChild: the median of a full child moves up between its halves.
SplitChild(parent, i) ==
    LET full == parent.kids[i]
        left == Node(full.level, FirstOf(full.items, degree - 1), FirstOf(full.kids, degree))
        right == Node(full.level, From(full.items, degree + 1), From(full.kids, degree + 1))
    IN  Node(parent.level, InsertAt(parent.items, i, full.items[degree]),
             InsertAt([parent.kids EXCEPT ![i] = left], i + 1, right))

IsFull(node) == Len(node.items) = 2 * degree - 1

\* What an insertion is given, and what it returns: a node, how often items are
\* held, and the item.
Put(h) == [node : Tree[h], held : Holdings, item : AnyItem]

\* The item takes the place of one with its key: that one's value and the new
\* key are dropped.
SlipOverwrite(put, at) == [put EXCEPT !.node.items[at] = put.item]    \* the value is not dropped
Overwrite(put, at) ==
    [put EXCEPT !.node.items[at] = put.item,
                !.held = Counted(@, put.node.items[at], -1)]

\* The child of a node into which an item goes, once it is split if it is full.
\* It is split after its parent was searched: when the median that moves up has
\* the key, the key goes into the left half.
Parted(node, at) == IF IsFull(node.kids[at]) THEN SplitChild(node, at) ELSE node
Side(node, at, k) ==
    IF IsFull(node.kids[at]) /\ Parted(node, at).items[at].key < k THEN at + 1 ELSE at

\* btreeInsertNonFull
InsertInto(h, below) ==
    [put \in Put(h) |->
        LET k == put.item.key
            at == UpTo(put.node, k)
            parted == Parted(put.node, at + 1)
            i == Side(put.node, at + 1, k)
            done == below[[put EXCEPT !.node = parted.kids[i]]]
        IN  IF IsAt(put.node, at, k) THEN Overwrite(put, at)
            ELSE IF h = 0 THEN [put EXCEPT !.node.items = InsertAt(@, at + 1, put.item)]
            ELSE [done EXCEPT !.node = [parted EXCEPT !.kids[i] = done.node]]]
InsertNonFull[h \in Nat] == InsertInto(h, InsertNonFull[h - 1])

\* A full root is split below a new one first.
Inserted(tree, item) ==
    LET top == IF IsFull(tree.node)
               THEN SplitChild(Node(tree.node.level + 1, <<>>, <<tree.node>>), 1)
               ELSE tree.node
    IN  InsertNonFull[top.level][[node |-> top, held |-> Counted(tree.held, item, 1), item |-> item]]

\* The items of a tree from left to right: what lies in a child, and the item
\* that follows it, child after child.
ItemsIn(h, below) ==
    [node \in Tree[h] |->
        LET part == [n \in DOMAIN node.kids |->
                        below[node.kids[n]]
                            \o IF n \in DOMAIN node.items THEN <<node.items[n]>> ELSE <<>>]
        IN  IF h = 0 THEN node.items ELSE FlattenSeq(part)]
InOrder[h \in Nat] == ItemsIn(h, InOrder[h - 1])

ItemsOf(node) == InOrder[node.level][node]

Copies(items, k) == Cardinality({n \in DOMAIN items : items[n].key = k})
Remember(items) ==
    doubled' = {k \in Key : Copies(items, k) > IF k \in doubled THEN 0 ELSE 1}

\* newBTree, and what a script has put into the tree before anything else.
BTInit ==
    /\ degree \in {IF d < 2 THEN 2 ELSE d : d \in Degrees}
    /\ \E start \in Starts :
        LET tree[n \in 0 .. Len(start)] ==
                IF n = 0 THEN [node |-> None, held |-> [item \in AnyItem |-> 0]]
                ELSE Inserted(tree[n - 1], start[n])
        IN  /\ root = tree[Len(start)].node
            /\ held = tree[Len(start)].held
            /\ count = Len(start)
    /\ doubled = {}

\* btreeInsert
BtreeInsert(item) ==
    LET done == Inserted([node |-> root, held |-> held], item)
    IN  /\ count < CountMax
        /\ root' = done.node
        /\ held' = done.held
        /\ count' = IF root = None THEN 1 ELSE count + 1
        /\ Remember(ItemsOf(done.node))
        /\ UNCHANGED degree
-----------------------------------------------------------------------------
(* Removal *)

\* btreeBorrowFromPrev: an item goes over the parent from a child's left
\* neighbour, with the neighbour's last child.
BorrowFromPrev(node, i) ==
    LET child == node.kids[i]
        sibling == node.kids[i - 1]
        kid == IF IsLeaf(child) THEN <<>> ELSE <<Last(sibling.kids)>>
        fed == Node(child.level, <<node.items[i - 1]>> \o child.items, kid \o child.kids)
        left == Node(sibling.level, Front(sibling.items),
                     FirstOf(sibling.kids, Len(sibling.kids) - Len(kid)))
    IN  [node EXCEPT !.items[i - 1] = Last(sibling.items),
                     !.kids[i] = fed, !.kids[i - 1] = left]

\* A bug to compare with: the child that goes along is put first.
SlipBorrowFromNext(node, i) ==
    LET child == node.kids[i]
        sibling == node.kids[i + 1]
        kid == IF IsLeaf(child) THEN <<>> ELSE <<Head(sibling.kids)>>
        fed == Node(child.level, child.items \o <<node.items[i]>>, kid \o child.kids)
        left == Node(sibling.level, Tail(sibling.items), From(sibling.kids, Len(kid) + 1))
    IN  [node EXCEPT !.items[i] = Head(sibling.items), !.kids[i] = fed, !.kids[i + 1] = left]

\* btreeBorrowFromNext
BorrowFromNext(node, i) ==
    LET child == node.kids[i]
        sibling == node.kids[i + 1]
        kid == IF IsLeaf(child) THEN <<>> ELSE <<Head(sibling.kids)>>
        fed == Node(child.level, child.items \o <<node.items[i]>>, child.kids \o kid)
        left == Node(sibling.level, Tail(sibling.items), From(sibling.kids, Len(kid) + 1))
    IN  [node EXCEPT !.items[i] = Head(sibling.items), !.kids[i] = fed, !.kids[i + 1] = left]

\* btreeMerge: a child, the item after it and the next child become one.
Merge(node, i) ==
    LET child == node.kids[i]
        sibling == node.kids[i + 1]
        both == Node(child.level, child.items \o <<node.items[i]>> \o sibling.items,
                     child.kids \o sibling.kids)
    IN  Node(node.level, RemoveAt(node.items, i),
             RemoveAt([node.kids EXCEPT ![i] = both], i + 1))

\* The last or first item of the subtree below a node.
LastIn(h, below) == [node \in Tree[h] |-> IF h = 0 THEN Last(node.items) ELSE below[Last(node.kids)]]
Rightmost[h \in Nat] == LastIn(h, Rightmost[h - 1])
HeadIn(h, below) == [node \in Tree[h] |-> IF h = 0 THEN Head(node.items) ELSE below[Head(node.kids)]]
Leftmost[h \in Nat] == HeadIn(h, Leftmost[h - 1])

CanSpare(node) == Len(node.items) >= degree

\* What is to be removed below a node and where: in child i of the node, made
\* ready so that it can spare an item.
Ready(node, i) ==
    CASE CanSpare(node.kids[i]) -> [node |-> node, i |-> i]
      [] ~CanSpare(node.kids[i]) /\ i > 1 /\ CanSpare(node.kids[i - 1]) ->
            [node |-> BorrowFromPrev(node, i), i |-> i]
      [] OTHER ->
            IF i <= Len(node.items)
            THEN IF CanSpare(node.kids[i + 1])
                 THEN [node |-> BorrowFromNext(node, i), i |-> i]
                 ELSE [node |-> Merge(node, i), i |-> i]
            ELSE [node |-> Merge(node, i - 1), i |-> i - 1]

\* What a removal is given: a node, how often items are held, and the key.
Take(h) == [node : Tree[h], held : Holdings, key : Key]

\* A clone of an item below comes up in the place of the one that is removed.
Replaced(take, at, item) ==
    [node |-> [take.node EXCEPT !.items[at] = item],
     held |-> Counted(Counted(take.held, take.node.items[at], -1), item, 1),
     key |-> item.key]

\* btreeRemoveFromNode: the key, or what takes its place, is removed from child i.
RemoveFrom(h, below) ==
    [take \in Take(h) |->
        LET node == take.node
            at == Below(node, take.key) + 1
            Deeper(t, i) ==
                LET done == below[[t EXCEPT !.node = t.node.kids[i]]]
                IN  [done EXCEPT !.node = [t.node EXCEPT !.kids[i] = done.node]]
            ready == Ready(node, at)
        IN  IF h = 0
            THEN IF IsAt(node, at, take.key)
                 THEN [node |-> [node EXCEPT !.items = RemoveAt(@, at)],
                       held |-> Counted(take.held, node.items[at], -1), found |-> TRUE]
                 ELSE [node |-> node, held |-> take.held, found |-> FALSE]
            ELSE IF ~IsAt(node, at, take.key)
            THEN Deeper([take EXCEPT !.node = ready.node], ready.i)
            ELSE IF CanSpare(node.kids[at])
            THEN Deeper(Replaced(take, at, Rightmost[h - 1][node.kids[at]]), at)
            ELSE IF CanSpare(node.kids[at + 1])
            THEN Deeper(Replaced(take, at, Leftmost[h - 1][node.kids[at + 1]]), at + 1)
            ELSE Deeper([take EXCEPT !.node = Merge(node, at)], at)]
RemoveFromNode[h \in Nat] == RemoveFrom(h, RemoveFromNode[h - 1])

\* An emptied root gives way to its only child; an empty leaf is None.
Shrunk(node) == IF node.items = <<>> /\ ~IsLeaf(node) THEN node.kids[1] ELSE node

SlipCountDown(found) == count - 1            \* whether or not it was found
CountDown(found) == IF found /\ count > 0 THEN count - 1 ELSE count

\* btreeRemove
BtreeRemove(k) ==
    LET done == RemoveFromNode[root.level][[node |-> root, held |-> held, key |-> k]]
    IN  /\ root # None
        /\ root' = Shrunk(done.node)
        /\ held' = done.held
        /\ count' = CountDown(done.found)
        /\ Remember(ItemsOf(done.node))
        /\ UNCHANGED degree

BTNext == \E item \in Item : BtreeInsert(item) \/ BtreeRemove(item.key)

BTSpec == BTInit /\ [][BTNext]_btVars
-----------------------------------------------------------------------------
(* Properties *)

\* After any sequence of inserts and removals, splits, loans and merges all the
\* way down included, the tree is a B-tree of its degree: all leaves are
\* equally deep, every node but the root is at least half full and none is
\* overfull, and the keys ascend.  btreeRemoveFromNode and btreeSplitChild index
\* into neighbours and medians on the strength of that.
IsBTree ==
    LET items == ItemsOf(root)
        nodes[d \in 0 .. root.level] ==           \* those d steps below the root
            IF d = 0 THEN {root} ELSE UNION {ToSet(node.kids) : node \in nodes[d - 1]}
    IN  /\ \A n \in 1 .. Len(items) - 1 :
                \/ items[n].key < items[n + 1].key
                \/ items[n].key = items[n + 1].key /\ items[n].key \in doubled
        /\ \A d \in 0 .. root.level : \A node \in nodes[d] :
                /\ node.level = root.level - d
                /\ Len(node.items) \in (IF d > 0 THEN degree - 1 ELSE 0) .. 2 * degree - 1
                /\ Len(node.kids) = IF IsLeaf(node) THEN 0 ELSE Len(node.items) + 1
        /\ ~IsLeaf(root) => root.items # <<>>

\* Every item that is in the tree was cloned into it once more than it was
\* dropped, and no item that has left it is still counted.
ItemsHeldOnce ==
    LET items == ItemsOf(root)
    IN  held = [item \in AnyItem |-> Cardinality({n \in DOMAIN items : items[n] = item})]

\* The count, which is_empty and len report, grows with every insert, of a key
\* that is there too, so it may claim too much; but it never claims less than
\* what the tree holds, and a tree that calls itself empty is empty.
CountCovers == count >= Len(ItemsOf(root))

\* What btree_get answers for every key, where anything is promised.
Contents ==
    [k \in Key |-> IF k \in doubled THEN Lost ELSE SearchNode[root.level][[node |-> root, key |-> k]]]

KM == INSTANCE KeyedMap WITH contents <- Contents

\* But for a key that is put in again just when the child it lies in the middle
\* of is split (and then sits in the tree twice, with the old value found), the
\* tree is a map.
ImplementsKeyedMap == KM!Spec
=============================================================================
