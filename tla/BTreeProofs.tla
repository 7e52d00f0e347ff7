----------------------------- MODULE BTreeProofs -----------------------------
(***************************************************************************)
(* That the tree of BTree stays a B-tree, holds every reference once, has  *)
(* a count that covers it, and implements KeyedMap, for all keys, values,  *)
(* degrees and sequences of operations.                                    *)
(*                                                                         *)
(* The operations work on nodes, the properties speak of the items from    *)
(* left to right.  So every operation on a node is first shown to do, to   *)
(* these items, what it does: a split, a merge or a loan leaves them as    *)
(* they are (10 to 12), an insertion or a removal exchanges a piece of     *)
(* them (18, 20), and the rest, being ordered, is not concerned (7, 14).   *)
(* The recursion of the code is an induction over levels (15, 18, 20).     *)
(*                                                                         *)
(* A node on the way down may have one item too few or too many: Loose is  *)
(* what it is then.  Filled is what a node other than the root must be     *)
(* again when the operation returns, GoodRoot what the root must be.       *)
(*                                                                         *)
(* The invariant (22) adds that the references held are the items of the   *)
(* tree, and that a key which is not in doubled has one item or none;      *)
(* without the latter nothing is known of what a search answers.           *)
(***************************************************************************)
EXTENDS BTree, NumberLemmas, SequenceTheorems, FiniteSetTheorems

-----------------------------------------------------------------------------
(* 1. The functions for each level *)

\* Nodes that are as a B-tree wants them, but for the order of the keys.
FilledOver(d, h, below) ==
    {node \in Tree[h] :
        /\ Len(node.items) \in d - 1 .. 2 * d - 1
        /\ h > 0 => /\ Len(node.kids) = Len(node.items) + 1
                    /\ \A n \in DOMAIN node.kids : node.kids[n] \in below}

\* What is defined for a level, from what is defined for the level below.
LevelOver(h, g) ==
    [tree |-> NodesOver(h, g.tree), filled |-> FilledOver(degree, h, g.filled),
     search |-> SearchIn(h, g.search), insert |-> InsertInto(h, g.insert),
     inorder |-> ItemsIn(h, g.inorder), rightmost |-> LastIn(h, g.rightmost),
     leftmost |-> HeadIn(h, g.leftmost), remove |-> RemoveFrom(h, g.remove)]

\* For leaves, nothing depends on a level below.
LEMMA LeavesNeedNoLevel ==
    \A f, g :
        /\ NodesOver(0, f) = NodesOver(0, g)
        /\ FilledOver(degree, 0, f) = FilledOver(degree, 0, g)
        /\ SearchIn(0, f) = SearchIn(0, g)
        /\ InsertInto(0, f) = InsertInto(0, g)
        /\ ItemsIn(0, f) = ItemsIn(0, g)
        /\ LastIn(0, f) = LastIn(0, g)
        /\ HeadIn(0, f) = HeadIn(0, g)
        /\ RemoveFrom(0, f) = RemoveFrom(0, g)
BY DEF NodesOver, FilledOver, SearchIn, InsertInto, ItemsIn, LastIn, HeadIn, RemoveFrom

\* There are functions that are on each level what the definitions ask for.
LEMMA LevelsExist == \E F : F = [h \in Nat |-> LevelOver(h, F[h - 1])]
<1> DEFINE L(h, g) == LevelOver(h, g)
           Upto(F, m) == F = [h \in 0 .. m |-> L(h, F[h - 1])]
<1>1. \A f, g : L(0, f) = L(0, g)
  BY LeavesNeedNoLevel DEF LevelOver
<1> HIDE DEF L
<1>2. ASSUME NEW m \in Nat
      PROVE  \E F : Upto(F, m)
  <2> DEFINE S == {n \in 0 .. m : \E F : Upto(F, n)}
  <2>1. 0 \in S
    <3> DEFINE G == [h \in 0 .. 0 |-> L(h, 0)]
    <3>1. \A h \in 0 .. 0 : G[h] = L(h, G[h - 1])
      BY <1>1
    <3>2. G = [h \in 0 .. 0 |-> L(h, G[h - 1])]
      BY <3>1
    <3> HIDE DEF G
    <3>3. Upto(G, 0)
      BY <3>2
    <3>4. QED
      BY <3>3
  <2>2. ASSUME NEW n \in 0 .. m - 1, n \in S
        PROVE  n + 1 \in S
    <3>1. PICK F : Upto(F, n)
      BY <2>2
    <3> DEFINE G == [h \in 0 .. n + 1 |-> IF h = n + 1 THEN L(h, F[n]) ELSE F[h]]
    <3>2. G[n + 1] = L(n + 1, G[n]) /\ \A h \in 0 .. n : G[h] = F[h]
      OBVIOUS
    <3>3. \A h \in 1 .. n : G[h] = L(h, G[h - 1])
      BY <3>1, <3>2
    <3>4. G[0] = L(0, G[-1])
      BY <1>1, <3>1, <3>2
    <3>5. \A h \in 0 .. n + 1 : G[h] = L(h, G[h - 1])
      <4> HIDE DEF G
      <4>1. QED
        BY <3>2, <3>3, <3>4
    <3>6. G = [h \in 0 .. n + 1 |-> L(h, G[h - 1])]
      BY <3>5
    <3> HIDE DEF G
    <3>7. Upto(G, n + 1)
      BY <3>6
    <3>8. QED
      BY <3>7
  <2>3. m \in S
    <3> HIDE DEF S
    <3>1. QED
      BY <2>1, <2>2, IntervalInduction
  <2>4. QED
    BY <2>3
<1>3. ASSUME NEW m \in Nat, NEW F, NEW G, NEW q \in Nat, Upto(F, m), Upto(G, q), m <= q
      PROVE  F[m] = G[m]
  <2> DEFINE S == {n \in 0 .. m : F[n] = G[n]}
  <2>1. 0 \in S
    BY <1>1, <1>3
  <2>2. ASSUME NEW n \in 0 .. m - 1, n \in S
        PROVE  n + 1 \in S
    <3>1. F[n + 1] = L(n + 1, F[(n + 1) - 1]) /\ G[n + 1] = L(n + 1, G[(n + 1) - 1])
      BY <1>3
    <3>2. QED
      BY <2>2, <3>1
  <2>3. m \in S
    <3> HIDE DEF S, Upto
    <3>1. QED
      BY <2>1, <2>2, IntervalInduction
  <2>4. QED
    BY <2>3
<1> DEFINE H(m) == CHOOSE F : Upto(F, m)
           F == [h \in Nat |-> H(h)[h]]
<1>4. \A m \in Nat : Upto(H(m), m)
  <2> HIDE DEF Upto
  <2>1. QED
    BY <1>2
<1>5. ASSUME NEW h \in Nat
      PROVE  F[h] = L(h, F[h - 1])
  <2>1. H(h)[h] = L(h, H(h)[h - 1])
    <3> DEFINE G == H(h)
    <3>1. Upto(G, h)
      BY <1>4, Zenon
    <3> HIDE DEF G
    <3>2. G[h] = L(h, G[h - 1])
      BY <3>1
    <3>3. QED
      BY <3>2 DEF G
  <2> HIDE DEF H
  <2>2. CASE h = 0
    BY <1>1, <2>1, <2>2
  <2>3. CASE h > 0
    <3>1. h - 1 \in Nat /\ h - 1 <= h
      BY <2>3
    <3>2. H(h - 1)[h - 1] = H(h)[h - 1]
      <4> HIDE DEF Upto
      <4>1. QED
        BY <1>3, <1>4, <3>1
    <3>3. QED
      BY <2>1, <3>1, <3>2
  <2>4. QED
    BY <2>2, <2>3
<1>6. F = [h \in Nat |-> L(h, F[h - 1])]
  BY <1>5
<1> HIDE DEF F
<1>7. QED
  BY <1>6 DEF L

\* Each of the functions is, level by level, what its definition says.
Filled(d) == CHOOSE f : f = [h \in Nat |-> FilledOver(d, h, f[h - 1])]

\* Each function over the levels is the one its defining equation describes:
\* it exists.
LEMMA LevelFunctions ==
    /\ Tree = [h \in Nat |-> NodesOver(h, Tree[h - 1])]
    /\ Filled(degree) = [h \in Nat |-> FilledOver(degree, h, Filled(degree)[h - 1])]
    /\ SearchNode = [h \in Nat |-> SearchIn(h, SearchNode[h - 1])]
    /\ InsertNonFull = [h \in Nat |-> InsertInto(h, InsertNonFull[h - 1])]
    /\ InOrder = [h \in Nat |-> ItemsIn(h, InOrder[h - 1])]
    /\ Rightmost = [h \in Nat |-> LastIn(h, Rightmost[h - 1])]
    /\ Leftmost = [h \in Nat |-> HeadIn(h, Leftmost[h - 1])]
    /\ RemoveFromNode = [h \in Nat |-> RemoveFrom(h, RemoveFromNode[h - 1])]
<1>1. PICK F : F = [h \in Nat |-> LevelOver(h, F[h - 1])]
  BY LevelsExist
<1>2. ASSUME NEW h \in Nat
      PROVE  /\ F[h].tree = NodesOver(h, F[h - 1].tree)
             /\ F[h].filled = FilledOver(degree, h, F[h - 1].filled)
             /\ F[h].search = SearchIn(h, F[h - 1].search)
             /\ F[h].insert = InsertInto(h, F[h - 1].insert)
             /\ F[h].inorder = ItemsIn(h, F[h - 1].inorder)
             /\ F[h].rightmost = LastIn(h, F[h - 1].rightmost)
             /\ F[h].leftmost = HeadIn(h, F[h - 1].leftmost)
             /\ F[h].remove = RemoveFrom(h, F[h - 1].remove)
  BY <1>1 DEF LevelOver
<1>3. Tree = [h \in Nat |-> NodesOver(h, Tree[h - 1])]
  <2> DEFINE f == [h \in Nat |-> F[h].tree]
  <2>1. \A h \in Nat : h # 0 => f[h - 1] = F[h - 1].tree
    OBVIOUS
  <2>2. \A h \in Nat : f[h] = NodesOver(h, f[h - 1])
    BY <1>2, <2>1, LeavesNeedNoLevel
  <2>3. f = [h \in Nat |-> NodesOver(h, f[h - 1])]
    BY <2>2
  <2>4. QED
    BY <2>3, Zenon DEF Tree
<1>4. Filled(degree) = [h \in Nat |-> FilledOver(degree, h, Filled(degree)[h - 1])]
  <2> DEFINE f == [h \in Nat |-> F[h].filled]
  <2>1. \A h \in Nat : h # 0 => f[h - 1] = F[h - 1].filled
    OBVIOUS
  <2>2. \A h \in Nat : f[h] = FilledOver(degree, h, f[h - 1])
    BY <1>2, <2>1, LeavesNeedNoLevel
  <2>3. f = [h \in Nat |-> FilledOver(degree, h, f[h - 1])]
    BY <2>2
  <2>4. QED
    BY <2>3, Zenon DEF Filled
<1>5. SearchNode = [h \in Nat |-> SearchIn(h, SearchNode[h - 1])]
  <2> DEFINE f == [h \in Nat |-> F[h].search]
  <2>1. \A h \in Nat : h # 0 => f[h - 1] = F[h - 1].search
    OBVIOUS
  <2>2. \A h \in Nat : f[h] = SearchIn(h, f[h - 1])
    BY <1>2, <2>1, LeavesNeedNoLevel
  <2>3. f = [h \in Nat |-> SearchIn(h, f[h - 1])]
    BY <2>2
  <2>4. QED
    BY <2>3, Zenon DEF SearchNode
<1>6. InsertNonFull = [h \in Nat |-> InsertInto(h, InsertNonFull[h - 1])]
  <2> DEFINE f == [h \in Nat |-> F[h].insert]
  <2>1. \A h \in Nat : h # 0 => f[h - 1] = F[h - 1].insert
    OBVIOUS
  <2>2. \A h \in Nat : f[h] = InsertInto(h, f[h - 1])
    BY <1>2, <2>1, LeavesNeedNoLevel
  <2>3. f = [h \in Nat |-> InsertInto(h, f[h - 1])]
    BY <2>2
  <2>4. QED
    BY <2>3, Zenon DEF InsertNonFull
<1>7. InOrder = [h \in Nat |-> ItemsIn(h, InOrder[h - 1])]
  <2> DEFINE f == [h \in Nat |-> F[h].inorder]
  <2>1. \A h \in Nat : h # 0 => f[h - 1] = F[h - 1].inorder
    OBVIOUS
  <2>2. \A h \in Nat : f[h] = ItemsIn(h, f[h - 1])
    BY <1>2, <2>1, LeavesNeedNoLevel
  <2>3. f = [h \in Nat |-> ItemsIn(h, f[h - 1])]
    BY <2>2
  <2>4. QED
    BY <2>3, Zenon DEF InOrder
<1>8. Rightmost = [h \in Nat |-> LastIn(h, Rightmost[h - 1])]
  <2> DEFINE f == [h \in Nat |-> F[h].rightmost]
  <2>1. \A h \in Nat : h # 0 => f[h - 1] = F[h - 1].rightmost
    OBVIOUS
  <2>2. \A h \in Nat : f[h] = LastIn(h, f[h - 1])
    BY <1>2, <2>1, LeavesNeedNoLevel
  <2>3. f = [h \in Nat |-> LastIn(h, f[h - 1])]
    BY <2>2
  <2>4. QED
    BY <2>3, Zenon DEF Rightmost
<1>9. Leftmost = [h \in Nat |-> HeadIn(h, Leftmost[h - 1])]
  <2> DEFINE f == [h \in Nat |-> F[h].leftmost]
  <2>1. \A h \in Nat : h # 0 => f[h - 1] = F[h - 1].leftmost
    OBVIOUS
  <2>2. \A h \in Nat : f[h] = HeadIn(h, f[h - 1])
    BY <1>2, <2>1, LeavesNeedNoLevel
  <2>3. f = [h \in Nat |-> HeadIn(h, f[h - 1])]
    BY <2>2
  <2>4. QED
    BY <2>3, Zenon DEF Leftmost
<1>10. RemoveFromNode = [h \in Nat |-> RemoveFrom(h, RemoveFromNode[h - 1])]
  <2> DEFINE f == [h \in Nat |-> F[h].remove]
  <2>1. \A h \in Nat : h # 0 => f[h - 1] = F[h - 1].remove
    OBVIOUS
  <2>2. \A h \in Nat : f[h] = RemoveFrom(h, f[h - 1])
    BY <1>2, <2>1, LeavesNeedNoLevel
  <2>3. f = [h \in Nat |-> RemoveFrom(h, f[h - 1])]
    BY <2>2
  <2>4. QED
    BY <2>3, Zenon DEF RemoveFromNode
<1>11. QED
  BY <1>3, <1>4, <1>5, <1>6, <1>7, <1>8, <1>9, <1>10

-----------------------------------------------------------------------------
(* 2. Sequences *)

\* How sequences are grouped does not matter.
LEMMA ConcatGroups ==
    ASSUME NEW T
    PROVE  /\ \A s, t, u \in Seq(T) : (s \o t) \o u = s \o (t \o u)
           /\ \A s, t \in Seq(T) : s \o t \in Seq(T)
           /\ \A s \in Seq(T) : s \o <<>> = s /\ <<>> \o s = s
           /\ <<>> \in Seq(T) /\ \A x \in T : <<x>> \in Seq(T)
<1>1. ASSUME NEW s \in Seq(T), NEW t \in Seq(T), NEW u \in Seq(T)
      PROVE  (s \o t) \o u = s \o (t \o u)
  BY ConcatAssociative
<1>2. ASSUME NEW s \in Seq(T), NEW t \in Seq(T)
      PROVE  s \o t \in Seq(T)
  BY ConcatProperties
<1>3. ASSUME NEW s \in Seq(T)
      PROVE  s \o <<>> = s /\ <<>> \o s = s
  BY ConcatEmptySeq
<1>4. <<>> \in Seq(T) /\ \A x \in T : <<x>> \in Seq(T)
  OBVIOUS
<1>5. QED
  BY <1>1, <1>2, <1>3, <1>4, Zenon

\* What the first parts of a sequence of sequences make together.
Joins(T, J, part) ==
    /\ J \in [0 .. Len(part) -> Seq(T)]
    /\ J[0] = <<>>
    /\ \A m \in 1 .. Len(part) : J[m] = J[m - 1] \o part[m]

\* Joining the parts of a sequence one by one has one result.
LEMMA JoinsUnique ==
    ASSUME NEW T, NEW part, Len(part) \in Nat, NEW J, NEW K, Joins(T, J, part), Joins(T, K, part)
    PROVE  J[Len(part)] = K[Len(part)]
<1> DEFINE n == Len(part)
           S == {m \in 0 .. n : J[m] = K[m]}
<1>0. n \in Nat /\ n \in Int /\ 0 \in Int
  OBVIOUS
<1>1. 0 \in S
  BY DEF Joins
<1>2. ASSUME NEW m \in 0 .. n - 1, m \in S
      PROVE  m + 1 \in S
  <2>1. m + 1 \in 1 .. n /\ (m + 1) - 1 = m /\ m + 1 \in 0 .. n
    OBVIOUS
  <2>2. J[m + 1] = J[m] \o part[m + 1] /\ K[m + 1] = K[m] \o part[m + 1]
    BY <2>1, Zenon DEF Joins
  <2>3. J[m + 1] = K[m + 1]
    BY <1>2, <2>2, Zenon
  <2>4. QED
    BY <2>1, <2>3
<1>3. \A m \in 0 .. n : m \in S
  <2> HIDE DEF S, n
  <2>1. QED
    BY <1>0, <1>1, <1>2, IntervalInduction
<1>4. QED
  BY <1>0, <1>3

\* FlattenSeq joins all the parts.
LEMMA FlattenJoins ==
    ASSUME NEW T, NEW part \in Seq(Seq(T))
    PROVE  \E J : Joins(T, J, part) /\ FlattenSeq(part) = J[Len(part)]
<1> DEFINE n == Len(part)
           Turn == [i \in 1 .. n |-> [q \in Seq(T) |-> q \o part[i]]]
           flatten[i \in 1 .. Len(part)] == IF i = 1 THEN part[i] ELSE flatten[i - 1] \o part[i]
<1>1. n \in Nat /\ \A i \in 1 .. n : part[i] \in Seq(T)
  OBVIOUS
<1>2. \A q \in Seq(T), i \in 1 .. n : q \o part[i] \in Seq(T)
  <2> HIDE DEF n
  <2>1. QED
    BY <1>1, ConcatGroups
<1>3. Turn \in Turns(n, Seq(T))
  <2> HIDE DEF n
  <2>1. QED
    BY <1>1, <1>2 DEF Turns
<1>4. PICK J : Follows(J, n, Seq(T), <<>>, Turn)
  <2> HIDE DEF Turn, n
  <2>1. <<>> \in Seq(T) /\ n \in Nat
    BY <1>1
  <2>2. QED
    BY <2>1, <1>3, RecursionHasSolution, Zenon
<1>5. /\ J \in [0 .. n -> Seq(T)] /\ J[0] = <<>>
      /\ \A i \in 1 .. n : J[i] = Turn[i][J[i - 1]] /\ J[i - 1] \in Seq(T)
  <2> HIDE DEF Turn, n
  <2>1. \A i \in 1 .. n : i - 1 \in 0 .. n
    BY <1>1
  <2>2. QED
    BY <2>1, <1>4, Zenon DEF Follows
<1>6. \A i \in 1 .. n : J[i] = J[i - 1] \o part[i]
  BY <1>5, Zenon
<1> HIDE DEF Turn
<1>7. Joins(T, J, part)
  BY <1>5, <1>6, Zenon DEF Joins
<1>8. CASE n = 0
  <2>1. part = <<>> /\ FlattenSeq(part) = part
    BY <1>8 DEF FlattenSeq
  <2>2. QED
    BY <1>5, <1>7, <1>8, <2>1
<1>9. CASE n # 0
  <2> DEFINE f == [i \in 1 .. n |-> J[i]]
  <2>1. ASSUME NEW i \in 1 .. n
        PROVE  f[i] = IF i = 1 THEN part[i] ELSE f[i - 1] \o part[i]
    <3>1. CASE i = 1
      <4>1. J[1] = <<>> \o part[1] /\ part[1] \in Seq(T)
        <5>1. 1 \in 1 .. n /\ 1 - 1 = 0
          BY <3>1
        <5>2. J[1] = J[0] \o part[1]
          <6> HIDE DEF n
          <6>1. QED
            BY <1>6, <5>1, Zenon
        <5>3. QED
          BY <1>1, <1>5, <5>1, <5>2
      <4>2. QED
        BY <3>1, <4>1, ConcatGroups
    <3>2. CASE i # 1
      <4>1. i - 1 \in 1 .. n
        BY <1>1, <3>2
      <4>2. QED
        BY <1>6, <3>2, <4>1, Zenon
    <3>3. QED
      BY <3>1, <3>2, Zenon
  <2>2. f = [i \in 1 .. Len(part) |-> IF i = 1 THEN part[i] ELSE f[i - 1] \o part[i]]
    BY <2>1, Zenon
  <2>3. flatten = [i \in 1 .. Len(part) |-> IF i = 1 THEN part[i] ELSE flatten[i - 1] \o part[i]]
    <3> HIDE DEF f
    <3>1. QED
      BY <2>2, Zenon
  <2>4. FlattenSeq(part) = flatten[n]
    BY <1>1, <1>9 DEF FlattenSeq
  <2> HIDE DEF flatten
  <2> DEFINE K == [m \in 0 .. n |-> IF m = 0 THEN <<>> ELSE flatten[m]]
  <2>5. \A m \in 1 .. n : flatten[m] = J[m]
    <3> DEFINE S == {m \in 1 .. n : flatten[m] = J[m]}
    <3>1. 1 \in 1 .. n
      BY <1>1, <1>9
    <3>2. 1 \in S
      BY <2>3, <2>1, <3>1, Zenon
    <3>3. ASSUME NEW m \in 1 .. n - 1, m \in S
          PROVE  m + 1 \in S
      <4>1. m + 1 \in 1 .. n /\ (m + 1) - 1 = m /\ m + 1 # 1
        BY <1>1
      <4>2. flatten[m + 1] = flatten[m] \o part[m + 1] /\ J[m + 1] = J[m] \o part[m + 1]
        BY <1>6, <2>3, <4>1, Zenon
      <4>3. QED
        BY <3>3, <4>1, <4>2, Zenon
    <3>4. \A m \in 1 .. n : m \in S
      <4> HIDE DEF S, n
      <4>1. n \in Int /\ 1 \in Int
        BY <1>1
      <4>2. QED
        BY <4>1, <3>2, <3>3, IntervalInduction, Zenon
    <3>5. QED
      BY <3>4
  <2>6. n \in 1 .. n
    BY <1>1, <1>9
  <2>7. QED
    BY <1>7, <2>4, <2>5, <2>6
<1>10. QED
  BY <1>8, <1>9

\* FlattenSeq takes sequences together as it should.
LEMMA FlattenType ==
    ASSUME NEW T, NEW part \in Seq(Seq(T))
    PROVE  FlattenSeq(part) \in Seq(T)
<1>1. Len(part) \in 0 .. Len(part)
  OBVIOUS
<1>2. PICK J : Joins(T, J, part) /\ FlattenSeq(part) = J[Len(part)]
  BY FlattenJoins
<1>3. J \in [0 .. Len(part) -> Seq(T)]
  BY <1>2 DEF Joins
<1>4. QED
  BY <1>1, <1>2, <1>3

\* Flattening a concatenation is concatenating what was flattened.
LEMMA FlattenConcat ==
    ASSUME NEW T, NEW s \in Seq(Seq(T)), NEW t \in Seq(Seq(T))
    PROVE  FlattenSeq(s \o t) = FlattenSeq(s) \o FlattenSeq(t)
<1> DEFINE m == Len(s)  n == Len(t)  u == s \o t
<1>1. /\ m \in Nat /\ n \in Nat /\ u \in Seq(Seq(T)) /\ Len(u) = m + n
      /\ \A i \in 1 .. m : u[i] = s[i] /\ s[i] \in Seq(T)
      /\ \A i \in 1 .. n : u[m + i] = t[i] /\ t[i] \in Seq(T)
  OBVIOUS
<1>2. PICK J : Joins(T, J, s) /\ FlattenSeq(s) = J[m]
  BY FlattenJoins
<1>3. PICK K : Joins(T, K, t) /\ FlattenSeq(t) = K[n]
  BY FlattenJoins
<1>4. PICK L : Joins(T, L, u) /\ FlattenSeq(u) = L[m + n]
  BY <1>1, FlattenJoins, Zenon
<1>5. /\ J \in [0 .. m -> Seq(T)] /\ J[0] = <<>> /\ \A i \in 1 .. m : J[i] = J[i - 1] \o s[i]
      /\ K \in [0 .. n -> Seq(T)] /\ K[0] = <<>> /\ \A i \in 1 .. n : K[i] = K[i - 1] \o t[i]
  BY <1>2, <1>3, Zenon DEF Joins
<1> HIDE DEF m, n, u
<1> DEFINE G == [i \in 0 .. m + n |-> IF i <= m THEN J[i] ELSE J[m] \o K[i - m]]
<1>6. J[m] \in Seq(T) /\ J[m] = J[m] \o K[0]
  <2>1. J[m] \in Seq(T)
    BY <1>1, <1>5
  <2>2. QED
    BY <1>5, <2>1, ConcatGroups
<1>7. ASSUME NEW i \in 0 .. n
      PROVE  G[m + i] = J[m] \o K[i]
  <2>0. m \in Nat /\ n \in Nat
    BY <1>1
  <2>1. CASE i = 0
    <3>1. m + i = m /\ m \in 0 .. m + n /\ m <= m
      BY <2>0, <2>1
    <3>2. G[m] = J[m]
      BY <3>1
    <3> HIDE DEF G
    <3>3. QED
      BY <1>6, <2>1, <3>1, <3>2, Zenon
  <2>2. CASE i # 0
    <3>1. ~(m + i <= m) /\ m + i \in 0 .. m + n /\ (m + i) - m = i
      BY <2>0, <2>2
    <3>2. QED
      BY <3>1, Zenon
  <2>3. QED
    BY <2>1, <2>2, Zenon
<1>8. \A i \in 0 .. m : G[i] = J[i]
  BY <1>1
<1>9. G \in [0 .. m + n -> Seq(T)]
  <2>1. \A i \in 0 .. n : K[i] \in Seq(T) /\ J[m] \o K[i] \in Seq(T)
    BY <1>5, <1>6, ConcatGroups, Zenon
  <2>2. \A i \in 0 .. m + n : i > m => i - m \in 0 .. n
    BY <1>1
  <2>3. \A i \in 0 .. m + n : i <= m => J[i] \in Seq(T)
    BY <1>1, <1>5
  <2>4. QED
    BY <1>1, <2>1, <2>2, <2>3
<1> HIDE DEF G
<1>10. ASSUME NEW i \in 1 .. m + n
       PROVE  G[i] = G[i - 1] \o u[i]
  <2>1. CASE i <= m
    <3>1. i \in 1 .. m /\ i - 1 \in 0 .. m /\ i \in 0 .. m
      BY <1>1, <2>1
    <3>2. QED
      BY <1>1, <1>5, <1>8, <3>1, Zenon
  <2>2. CASE i > m
    <3> DEFINE j == i - m
    <3>1. j \in 1 .. n /\ j \in 0 .. n /\ j - 1 \in 0 .. n /\ m + j = i /\ m + (j - 1) = i - 1
      BY <1>1, <2>2
    <3> HIDE DEF j
    <3>2. G[i] = J[m] \o K[j] /\ G[i - 1] = J[m] \o K[j - 1] /\ u[i] = t[j] /\ t[j] \in Seq(T)
      BY <1>1, <1>7, <3>1, Zenon
    <3>3. K[j] = K[j - 1] \o t[j] /\ K[j - 1] \in Seq(T)
      BY <1>5, <3>1, Zenon
    <3> DEFINE a == J[m]  b == K[j - 1]  c == t[j]
    <3>4. a \in Seq(T) /\ b \in Seq(T) /\ c \in Seq(T)
      BY <1>6, <3>2, <3>3
    <3> HIDE DEF a, b, c
    <3>5. (a \o b) \o c = a \o (b \o c)
      BY <3>4, ConcatGroups, SMTT(20)
    <3>6. QED
      BY <3>2, <3>3, <3>5 DEF a, b, c
  <2>3. QED
    BY <1>1, <2>1, <2>2
<1>11. G[0] = <<>>
  BY <1>1, <1>5, <1>8, SMTT(20)
<1>12. Joins(T, G, u)
  BY <1>1, <1>9, <1>10, <1>11, Zenon DEF Joins
<1>13. L[m + n] = G[m + n]
  <2>1. Len(u) = m + n /\ Len(u) \in Nat
    BY <1>1
  <2>2. L[Len(u)] = G[Len(u)]
    BY <1>4, <1>12, <2>1, JoinsUnique
  <2>3. QED
    BY <2>1, <2>2
<1>14. FlattenSeq(u) = J[m] \o K[n]
  <2>1. n \in 0 .. n
    BY <1>1
  <2>2. QED
    BY <1>4, <1>7, <1>13, <2>1, Zenon
<1>15. QED
  BY <1>2, <1>3, <1>14 DEF u

\* What flattening one part, and none, gives.
LEMMA FlattenOne ==
    ASSUME NEW T, NEW a \in Seq(T)
    PROVE  FlattenSeq(<<a>>) = a /\ FlattenSeq(<<>>) = <<>>
<1>1. <<a>> \in Seq(Seq(T)) /\ Len(<<a>>) = 1 /\ <<a>>[1] = a
  OBVIOUS
<1>2. PICK J : Joins(T, J, <<a>>) /\ FlattenSeq(<<a>>) = J[1]
  BY <1>1, FlattenJoins, Zenon
<1>3. J[1] = <<>> \o a
  <2>1. J[0] = <<>> /\ J[1] = J[1 - 1] \o <<a>>[1]
    <3>1. 1 \in 1 .. Len(<<a>>)
      BY <1>1
    <3> DEFINE p == <<a>>
    <3> HIDE DEF p
    <3>2. Joins(T, J, p) /\ 1 \in 1 .. Len(p) => J[0] = <<>> /\ J[1] = J[1 - 1] \o p[1]
      BY Zenon DEF Joins
    <3>3. QED
      BY <1>2, <3>1, <3>2 DEF p
  <2>2. QED
    BY <1>1, <2>1
<1>4. FlattenSeq(<<>>) = <<>>
  BY DEF FlattenSeq
<1>5. QED
  BY <1>2, <1>3, <1>4, ConcatGroups

\* What is in a sequence that is put together.
LEMMA ToSetConcat ==
    ASSUME NEW T
    PROVE  /\ \A s, t \in Seq(T) : ToSet(s \o t) = ToSet(s) \cup ToSet(t)
           /\ \A x : ToSet(<<x>>) = {x}
           /\ ToSet(<<>>) = {}
           /\ \A s \in Seq(T) : ToSet(s) \subseteq T
<1>1. ASSUME NEW s \in Seq(T), NEW t \in Seq(T)
      PROVE  ToSet(s \o t) = ToSet(s) \cup ToSet(t)
  <2> DEFINE m == Len(s)  n == Len(t)  u == s \o t
  <2>1. m \in Nat /\ n \in Nat /\ DOMAIN s = 1 .. m /\ DOMAIN t = 1 .. n /\ DOMAIN u = 1 .. m + n
    OBVIOUS
  <2>2. /\ \A i \in 1 .. m : u[i] = s[i]
        /\ \A i \in 1 .. n : u[m + i] = t[i]
        /\ \A i \in 1 .. m + n : i > m => u[i] = t[i - m]
    OBVIOUS
  <2> HIDE DEF m, n, u
  <2>3. ASSUME NEW x \in ToSet(u)
        PROVE  x \in ToSet(s) \cup ToSet(t)
    <3>1. PICK i \in 1 .. m + n : x = u[i]
      BY <2>1, <2>3 DEF ToSet
    <3>2. CASE i <= m
      <4>1. i \in DOMAIN s /\ x = s[i]
        BY <2>1, <2>2, <3>1, <3>2
      <4>2. QED
        BY <4>1 DEF ToSet
    <3>3. CASE i > m
      <4>1. i - m \in DOMAIN t /\ x = t[i - m]
        BY <2>1, <2>2, <3>1, <3>3
      <4>2. QED
        BY <4>1 DEF ToSet
    <3>4. QED
      BY <2>1, <3>2, <3>3
  <2>4. ASSUME NEW x \in ToSet(s)
        PROVE  x \in ToSet(u)
    <3>1. PICK i \in 1 .. m : x = s[i]
      BY <2>1, <2>4 DEF ToSet
    <3>2. i \in DOMAIN u /\ x = u[i]
      BY <2>1, <2>2, <3>1
    <3>3. QED
      BY <3>2 DEF ToSet
  <2>5. ASSUME NEW x \in ToSet(t)
        PROVE  x \in ToSet(u)
    <3>1. PICK i \in 1 .. n : x = t[i]
      BY <2>1, <2>5 DEF ToSet
    <3>2. m + i \in DOMAIN u /\ x = u[m + i]
      BY <2>1, <2>2, <3>1
    <3>3. QED
      BY <3>2 DEF ToSet
  <2>6. QED
    BY <2>3, <2>4, <2>5 DEF u
<1>2. ASSUME NEW x
      PROVE  ToSet(<<x>>) = {x}
  BY DEF ToSet
<1>3. ToSet(<<>>) = {}
  BY DEF ToSet
<1>4. ASSUME NEW s \in Seq(T)
      PROVE  ToSet(s) \subseteq T
  BY DEF ToSet
<1>5. QED
  BY <1>1, <1>2, <1>3, <1>4

\* How many elements of a sequence are in a set.
Hits(s, Z) == Cardinality({n \in DOMAIN s : s[n] \in Z})

\* How many elements in Z a concatenation holds, and when there are none.
LEMMA HitsConcat ==
    ASSUME NEW T
    PROVE  /\ \A Z : \A s, t \in Seq(T) : Hits(s \o t, Z) = Hits(s, Z) + Hits(t, Z)
           /\ \A Z, x : Hits(<<x>>, Z) = IF x \in Z THEN 1 ELSE 0
           /\ \A Z : Hits(<<>>, Z) = 0
           /\ \A Z : \A s \in Seq(T) : /\ Hits(s, Z) \in 0 .. Len(s)
                                       /\ Hits(s, Z) = 0 <=> ToSet(s) \cap Z = {}
<1> DEFINE P(s, Z) == {n \in DOMAIN s : s[n] \in Z}
<1>1. ASSUME NEW Z, NEW s \in Seq(T)
      PROVE  /\ IsFiniteSet(P(s, Z)) /\ P(s, Z) \in SUBSET (1 .. Len(s))
             /\ Hits(s, Z) = Cardinality(P(s, Z)) /\ Hits(s, Z) \in Nat
             /\ Hits(s, Z) <= Len(s)
  <2>1. Len(s) \in Nat /\ P(s, Z) \in SUBSET (1 .. Len(s))
    OBVIOUS
  <2>2. IsFiniteSet(1 .. Len(s)) /\ Cardinality(1 .. Len(s)) = Len(s)
    BY <2>1, FS_Interval, SMTT(20)
  <2>3. IsFiniteSet(P(s, Z)) /\ Cardinality(P(s, Z)) <= Len(s)
    <3> HIDE DEF P
    <3>1. QED
      BY <2>1, <2>2, FS_Subset
  <2>4. Cardinality(P(s, Z)) \in Nat
    BY <2>3, FS_CardinalityType
  <2>5. QED
    BY <2>1, <2>3, <2>4 DEF Hits
<1>2. ASSUME NEW Z, NEW s \in Seq(T), NEW t \in Seq(T)
      PROVE  Hits(s \o t, Z) = Hits(s, Z) + Hits(t, Z)
  <2> DEFINE m == Len(s)  n == Len(t)  u == s \o t
             A == P(s, Z)  B == P(t, Z)  C == {i \in m + 1 .. m + n : i - m \in B}
  <2>1. m \in Nat /\ n \in Nat /\ DOMAIN s = 1 .. m /\ DOMAIN t = 1 .. n /\ DOMAIN u = 1 .. m + n
    OBVIOUS
  <2>2. /\ \A i \in 1 .. m : u[i] = s[i]
        /\ \A i \in 1 .. m + n : i > m => u[i] = t[i - m]
    OBVIOUS
  <2>3. u \in Seq(T)
    OBVIOUS
  <2>4. A \in SUBSET (1 .. m) /\ B \in SUBSET (1 .. n)
    BY <1>1
  <2> HIDE DEF m, n, u
  <2>5. P(u, Z) = A \cup C
    <3>1. \A i \in 1 .. m + n : i \in P(u, Z) <=> i \in A \cup C
      <4> SUFFICES ASSUME NEW i \in 1 .. m + n
                   PROVE  i \in P(u, Z) <=> i \in A \cup C
        OBVIOUS
      <4>1. CASE i <= m
        <5>1. i \in 1 .. m /\ i \notin C
          BY <2>1, <4>1
        <5>2. QED
          BY <2>1, <2>2, <5>1
      <4>2. CASE i > m
        <5>1. i - m \in 1 .. n /\ i \in m + 1 .. m + n /\ i \notin A
          BY <2>1, <2>4, <4>2
        <5>2. i \in P(u, Z) <=> u[i] \in Z
          BY <2>1
        <5>3. i \in C <=> t[i - m] \in Z
          BY <2>1, <5>1
        <5>4. QED
          BY <2>2, <4>2, <5>1, <5>2, <5>3
      <4>3. QED
        BY <2>1, <4>1, <4>2
    <3>2. A \cup C \in SUBSET (1 .. m + n)
      <4> HIDE DEF A, B
      <4>1. C \in SUBSET (1 .. m + n)
        BY <2>1
      <4>2. 1 .. m \in SUBSET (1 .. m + n)
        BY <2>1
      <4>3. QED
        BY <2>4, <4>1, <4>2, Zenon
    <3>3. P(u, Z) \in SUBSET (1 .. m + n)
      BY <2>1
    <3> HIDE DEF A, C, P
    <3>4. QED
      BY <3>1, <3>2, <3>3
  <2>6. IsFiniteSet(B) /\ IsFiniteSet(A)
    BY <1>1, Zenon
  <2> HIDE DEF A, B, P
  <2>7. IsFiniteSet(C) /\ Cardinality(C) = Cardinality(B)
    <3> DEFINE f == [i \in B |-> m + i]
    <3>1. \A i \in B : m + i \in C /\ (m + i) - m = i
      BY <2>1, <2>4
    <3>2. \A i \in C : i - m \in B /\ m + (i - m) = i
      BY <2>1
    <3>3. f \in [B -> C]
      BY <3>1
    <3>4. \A i, j \in B : f[i] = f[j] => i = j
      BY <2>1, <2>4
    <3>5. \A c \in C : \E i \in B : f[i] = c
      BY <3>2
    <3> HIDE DEF f, C
    <3>6. f \in Bijection(B, C)
      BY <3>3, <3>4, <3>5 DEF Bijection, Injection, IsInjective, Surjection
    <3>7. ExistsBijection(B, C)
      BY <3>6 DEF ExistsBijection
    <3>8. QED
      BY <2>6, <3>7, FS_Bijection
  <2>8. A \cap C = {}
    BY <2>1, <2>4
  <2> HIDE DEF C
  <2>9. Cardinality(A \cup C) = Cardinality(A) + Cardinality(C) - 0
    BY <2>6, <2>7, <2>8, FS_Union, FS_EmptySet
  <2>10. /\ Hits(u, Z) = Cardinality(P(u, Z)) /\ Hits(s, Z) = Cardinality(A) /\ Hits(t, Z) = Cardinality(B)
         /\ Hits(s, Z) \in Nat /\ Hits(t, Z) \in Nat
    BY <1>1, <2>3 DEF A, B
  <2>11. QED
    BY <2>5, <2>7, <2>9, <2>10 DEF u
<1>3. ASSUME NEW Z, NEW x
      PROVE  Hits(<<x>>, Z) = IF x \in Z THEN 1 ELSE 0
  <2>1. DOMAIN <<x>> = {1} /\ <<x>>[1] = x
    OBVIOUS
  <2>2. P(<<x>>, Z) = IF x \in Z THEN {1} ELSE {}
    BY <2>1
  <2>3. QED
    <3> HIDE DEF P
    <3>1. Hits(<<x>>, Z) = Cardinality(P(<<x>>, Z))
      BY DEF Hits, P
    <3>2. QED
      BY <2>2, <3>1, FS_EmptySet, FS_Singleton, Zenon
<1>4. ASSUME NEW Z
      PROVE  Hits(<<>>, Z) = 0
  <2>1. P(<<>>, Z) = {}
    OBVIOUS
  <2>2. QED
    BY <2>1, FS_EmptySet DEF Hits
<1>5. ASSUME NEW Z, NEW s \in Seq(T)
      PROVE  Hits(s, Z) = 0 <=> ToSet(s) \cap Z = {}
  <2>1. ToSet(s) \cap Z = {} <=> P(s, Z) = {}
    BY DEF ToSet
  <2>2. Hits(s, Z) = 0 <=> P(s, Z) = {}
    <3> HIDE DEF P
    <3>1. QED
      BY <1>1, FS_EmptySet
  <2>3. QED
    BY <2>1, <2>2
<1>6. ASSUME NEW Z, NEW s \in Seq(T)
      PROVE  Hits(s, Z) \in 0 .. Len(s)
  <2>1. Len(s) \in Nat
    OBVIOUS
  <2>2. Hits(s, Z) \in Nat /\ Hits(s, Z) <= Len(s)
    BY <1>1, Zenon
  <2>3. QED
    BY <2>1, <2>2
<1>7. QED
  BY <1>2, <1>3, <1>4, <1>5, <1>6

\* Sequences of items whose keys do not descend.
Ordered(s) == \A m, n \in DOMAIN s : m < n => s[m].key <= s[n].key

\* Every item has a key, which is a number, and a value.
LEMMA ItemsAreKeyed == \A x \in AnyItem : x.key \in Key /\ x.value \in Value /\ x.key \in Int
BY KeyAssumption, Zenon DEF AnyItem

\* A concatenation ascends when both halves do and the first lies at or below
\* the second.
LEMMA OrderedConcat ==
    /\ \A s, t \in Seq(AnyItem) :
          Ordered(s \o t) <=> /\ Ordered(s) /\ Ordered(t)
                              /\ \A x \in ToSet(s), y \in ToSet(t) : x.key <= y.key
    /\ Ordered(<<>>) /\ \A x : Ordered(<<x>>)
<1>1. ASSUME NEW s \in Seq(AnyItem), NEW t \in Seq(AnyItem)
      PROVE  Ordered(s \o t) <=> /\ Ordered(s) /\ Ordered(t)
                                 /\ \A x \in ToSet(s), y \in ToSet(t) : x.key <= y.key
  <2> DEFINE m == Len(s)  n == Len(t)  u == s \o t
  <2>1. m \in Nat /\ n \in Nat /\ DOMAIN s = 1 .. m /\ DOMAIN t = 1 .. n /\ DOMAIN u = 1 .. m + n
    OBVIOUS
  <2>2. /\ \A i \in 1 .. m : u[i] = s[i]
        /\ \A i \in 1 .. n : u[m + i] = t[i]
        /\ \A i \in 1 .. m + n : i > m => u[i] = t[i - m]
    OBVIOUS
  <2> HIDE DEF m, n, u
  <2>3. ASSUME Ordered(u)
        PROVE  /\ Ordered(s) /\ Ordered(t)
               /\ \A x \in ToSet(s), y \in ToSet(t) : x.key <= y.key
    <3>1. ASSUME NEW i \in 1 .. m, NEW j \in 1 .. m, i < j
          PROVE  s[i].key <= s[j].key
      <4>1. i \in 1 .. m + n /\ j \in 1 .. m + n
        BY <2>1
      <4>2. u[i].key <= u[j].key
        BY <2>1, <2>3, <3>1, <4>1 DEF Ordered
      <4>3. QED
        BY <2>2, <4>2
    <3>2. ASSUME NEW i \in 1 .. n, NEW j \in 1 .. n, i < j
          PROVE  t[i].key <= t[j].key
      <4>1. m + i \in 1 .. m + n /\ m + j \in 1 .. m + n /\ m + i < m + j
        BY <2>1, <3>2
      <4>2. u[m + i].key <= u[m + j].key
        BY <2>1, <2>3, <4>1, Zenon DEF Ordered
      <4>3. QED
        BY <2>2, <4>2
    <3>3. ASSUME NEW i \in 1 .. m, NEW j \in 1 .. n
          PROVE  s[i].key <= t[j].key
      <4>1. i \in 1 .. m + n /\ m + j \in 1 .. m + n /\ i < m + j
        BY <2>1
      <4>2. u[i].key <= u[m + j].key
        BY <2>1, <2>3, <4>1, Zenon DEF Ordered
      <4>3. QED
        BY <2>2, <4>2
    <3>4. QED
      BY <2>1, <3>1, <3>2, <3>3 DEF Ordered, ToSet
  <2>4. ASSUME Ordered(s), Ordered(t), \A x \in ToSet(s), y \in ToSet(t) : x.key <= y.key
        PROVE  Ordered(u)
    <3> SUFFICES ASSUME NEW i \in 1 .. m + n, NEW j \in 1 .. m + n, i < j
                 PROVE  u[i].key <= u[j].key
      BY <2>1 DEF Ordered
    <3>1. CASE j <= m
      <4>1. i \in 1 .. m /\ j \in 1 .. m
        BY <2>1, <3>1
      <4>2. QED
        BY <2>1, <2>2, <2>4, <4>1, Zenon DEF Ordered
    <3>2. CASE i <= m /\ m < j
      <4>1. i \in 1 .. m /\ j - m \in 1 .. n
        BY <2>1, <3>2
      <4>2. s[i] \in ToSet(s) /\ t[j - m] \in ToSet(t)
        BY <2>1, <4>1, Zenon DEF ToSet
      <4>3. u[i] = s[i] /\ u[j] = t[j - m]
        BY <2>2, <3>2, <4>1
      <4>4. QED
        BY <2>4, <4>2, <4>3
    <3>3. CASE m < i
      <4>1. i - m \in 1 .. n /\ j - m \in 1 .. n /\ i - m < j - m
        BY <2>1, <3>3
      <4>2. u[i] = t[i - m] /\ u[j] = t[j - m]
        BY <2>1, <2>2, <3>3
      <4>3. QED
        BY <2>1, <2>4, <4>1, <4>2, Zenon DEF Ordered
    <3>4. QED
      BY <2>1, <3>1, <3>2, <3>3
  <2>5. QED
    BY <2>3, <2>4 DEF u
<1>2. Ordered(<<>>)
  BY DEF Ordered
<1>3. ASSUME NEW x
      PROVE  Ordered(<<x>>)
  <2>1. DOMAIN <<x>> = {1}
    OBVIOUS
  <2>2. \A m, n \in {1} : ~(m < n)
    OBVIOUS
  <2>3. QED
    BY <2>1, <2>2 DEF Ordered
<1>4. QED
  BY <1>1, <1>2, <1>3

\* Cutting a sequence before, after and around an element.
LEMMA Cuts ==
    ASSUME NEW T, NEW s \in Seq(T)
    PROVE  /\ \A n \in 0 .. Len(s) :
                /\ SubSeq(s, 1, n) \in Seq(T) /\ Len(SubSeq(s, 1, n)) = n
                /\ \A m \in 1 .. n : SubSeq(s, 1, n)[m] = s[m]
                /\ SubSeq(s, n + 1, Len(s)) \in Seq(T) /\ Len(SubSeq(s, n + 1, Len(s))) = Len(s) - n
                /\ \A m \in 1 .. Len(s) - n : SubSeq(s, n + 1, Len(s))[m] = s[n + m]
                /\ s = SubSeq(s, 1, n) \o SubSeq(s, n + 1, Len(s))
           /\ \A n \in 1 .. Len(s) :
                s = SubSeq(s, 1, n - 1) \o <<s[n]>> \o SubSeq(s, n + 1, Len(s))
<1>1. ASSUME NEW n \in 0 .. Len(s)
      PROVE  /\ SubSeq(s, 1, n) \in Seq(T) /\ Len(SubSeq(s, 1, n)) = n
             /\ \A m \in 1 .. n : SubSeq(s, 1, n)[m] = s[m]
             /\ SubSeq(s, n + 1, Len(s)) \in Seq(T) /\ Len(SubSeq(s, n + 1, Len(s))) = Len(s) - n
             /\ \A m \in 1 .. Len(s) - n : SubSeq(s, n + 1, Len(s))[m] = s[n + m]
             /\ s = SubSeq(s, 1, n) \o SubSeq(s, n + 1, Len(s))
  <2>1. SubSeq(s, 1, n) \in Seq(T) /\ Len(SubSeq(s, 1, n)) = n
    OBVIOUS
  <2>2. \A m \in 1 .. n : SubSeq(s, 1, n)[m] = s[m]
    OBVIOUS
  <2>3. SubSeq(s, n + 1, Len(s)) \in Seq(T) /\ Len(SubSeq(s, n + 1, Len(s))) = Len(s) - n
    OBVIOUS
  <2>4. \A m \in 1 .. Len(s) - n : SubSeq(s, n + 1, Len(s))[m] = s[n + m]
    OBVIOUS
  <2>5. s = SubSeq(s, 1, n) \o SubSeq(s, n + 1, Len(s))
    <3>1. 1 \in 1 .. Len(s) + 1 /\ n \in 1 - 1 .. Len(s) /\ Len(s) \in n .. Len(s)
      OBVIOUS
    <3>2. SubSeq(s, 1, n) \o SubSeq(s, n + 1, Len(s)) = SubSeq(s, 1, Len(s))
      BY <3>1, ConcatAdjacentSubSeq, Zenon
    <3>3. QED
      BY <3>2, SubSeqFull, Zenon
  <2>6. QED
    BY <2>1, <2>2, <2>3, <2>4, <2>5, Zenon
<1>2. ASSUME NEW n \in 1 .. Len(s)
      PROVE  s = SubSeq(s, 1, n - 1) \o <<s[n]>> \o SubSeq(s, n + 1, Len(s))
  <2>1. n \in 0 .. Len(s) /\ Len(s) \in n .. Len(s) /\ n \in 1 .. n
    OBVIOUS
  <2>2. s = SubSeq(s, 1, n) \o SubSeq(s, n + 1, Len(s))
    BY <1>1, <2>1
  <2>3. SubSeq(s, 1, n) = SubSeq(s, 1, n - 1) \o <<s[n]>>
    <3>1. 1 \in 1 .. Len(s) /\ n \in 1 .. Len(s)
      BY <2>1
    <3>2. QED
      BY <3>1, SubSeqRecursiveSecond
  <2>4. QED
    BY <2>2, <2>3, Zenon
<1>3. QED
  BY <1>1, <1>2, Zenon

\* Putting an element in, and taking one out.
LEMMA OneMore ==
    ASSUME NEW T, NEW a \in Seq(T), NEW e \in T
    PROVE  /\ a \o <<e>> \in Seq(T) /\ Len(a \o <<e>>) = Len(a) + 1
           /\ (a \o <<e>>)[Len(a) + 1] = e
           /\ \A m \in 1 .. Len(a) : (a \o <<e>>)[m] = a[m]
OBVIOUS

\* Where the elements are after one was put in, and after one was removed.
LEMMA InsertsAndRemoves ==
    ASSUME NEW T, NEW s \in Seq(T)
    PROVE  /\ \A i \in 1 .. Len(s) + 1, e \in T :
                /\ InsertAt(s, i, e) \in Seq(T) /\ Len(InsertAt(s, i, e)) = Len(s) + 1
                /\ \A m \in 1 .. i - 1 : InsertAt(s, i, e)[m] = s[m]
                /\ InsertAt(s, i, e)[i] = e
                /\ \A m \in i .. Len(s) : InsertAt(s, i, e)[m + 1] = s[m]
           /\ \A i \in 1 .. Len(s) :
                /\ RemoveAt(s, i) \in Seq(T) /\ Len(RemoveAt(s, i)) = Len(s) - 1
                /\ \A m \in 1 .. i - 1 : RemoveAt(s, i)[m] = s[m]
                /\ \A m \in i .. Len(s) - 1 : RemoveAt(s, i)[m] = s[m + 1]
<1>1. ASSUME NEW i \in 1 .. Len(s) + 1, NEW e \in T
      PROVE  /\ InsertAt(s, i, e) \in Seq(T) /\ Len(InsertAt(s, i, e)) = Len(s) + 1
             /\ \A m \in 1 .. i - 1 : InsertAt(s, i, e)[m] = s[m]
             /\ InsertAt(s, i, e)[i] = e
             /\ \A m \in i .. Len(s) : InsertAt(s, i, e)[m + 1] = s[m]
  <2> DEFINE a == SubSeq(s, 1, i - 1)  b == SubSeq(s, i, Len(s))  n == Len(s)
  <2>1. n \in Nat /\ i - 1 \in 0 .. n /\ (i - 1) + 1 = i /\ n - (i - 1) = n + 1 - i
    OBVIOUS
  <2>2. /\ a \in Seq(T) /\ Len(a) = i - 1 /\ \A m \in 1 .. i - 1 : a[m] = s[m]
        /\ b \in Seq(T) /\ Len(b) = n + 1 - i /\ \A m \in 1 .. n + 1 - i : b[m] = s[(i - 1) + m]
    <3> DEFINE j == i - 1
    <3>1. j \in 0 .. n /\ j + 1 = i /\ n - j = n + 1 - i
      BY <2>1
    <3> HIDE DEF j
    <3>2. /\ SubSeq(s, 1, j) \in Seq(T) /\ Len(SubSeq(s, 1, j)) = j
          /\ \A m \in 1 .. j : SubSeq(s, 1, j)[m] = s[m]
          /\ SubSeq(s, j + 1, Len(s)) \in Seq(T) /\ Len(SubSeq(s, j + 1, Len(s))) = Len(s) - j
          /\ \A m \in 1 .. Len(s) - j : SubSeq(s, j + 1, Len(s))[m] = s[j + m]
      BY <3>1, Cuts
    <3>3. QED
      BY <3>1, <3>2 DEF j
  <2>3. InsertAt(s, i, e) = (a \o <<e>>) \o b
    BY DEF InsertAt
  <2> HIDE DEF a, b, n
  <2> DEFINE c == a \o <<e>>
  <2>4. /\ c \in Seq(T) /\ Len(c) = i /\ c[i] = e
        /\ \A m \in 1 .. i - 1 : c[m] = a[m]
    <3>1. /\ c \in Seq(T) /\ Len(c) = Len(a) + 1 /\ c[Len(a) + 1] = e
          /\ \A m \in 1 .. Len(a) : c[m] = a[m]
      <4>1. a \in Seq(T) /\ e \in T
        BY <1>1, <2>2
      <4>2. QED
        BY <4>1, OneMore
    <3>2. Len(a) + 1 = i
      BY <2>1, <2>2
    <3>3. Len(a) = i - 1
      BY <2>2
    <3>4. QED
      BY <3>1, <3>2, <3>3, Zenon
  <2> HIDE DEF c
  <2> DEFINE d == c \o b
  <2>5. /\ d \in Seq(T) /\ Len(d) = n + 1
        /\ \A m \in 1 .. i : d[m] = c[m]
        /\ \A m \in i + 1 .. n + 1 : d[m] = b[m - i]
    BY <2>1, <2>2, <2>4
  <2>6. InsertAt(s, i, e) = d
    BY <2>3 DEF c
  <2> HIDE DEF d
  <2>7. \A m \in i .. n : d[m + 1] = s[m]
    <3> SUFFICES ASSUME NEW m \in i .. n
                 PROVE  d[m + 1] = s[m]
      OBVIOUS
    <3>1. m + 1 \in i + 1 .. n + 1 /\ (m + 1) - i \in 1 .. n + 1 - i /\ (i - 1) + ((m + 1) - i) = m
      BY <2>1
    <3>2. d[m + 1] = b[(m + 1) - i]
      BY <2>5, <3>1
    <3>3. b[(m + 1) - i] = s[(i - 1) + ((m + 1) - i)]
      BY <2>2, <3>1, Zenon
    <3>4. QED
      BY <3>1, <3>2, <3>3
  <2>8. d[i] = e /\ \A m \in 1 .. i - 1 : d[m] = s[m]
    <3>1. \A m \in 1 .. i - 1 : m \in 1 .. i
      OBVIOUS
    <3>2. i \in 1 .. i
      OBVIOUS
    <3>3. QED
      BY <2>2, <2>4, <2>5, <3>1, <3>2
  <2>9. QED
    BY <2>5, <2>6, <2>7, <2>8 DEF n
<1>2. ASSUME NEW i \in 1 .. Len(s)
      PROVE  /\ RemoveAt(s, i) \in Seq(T) /\ Len(RemoveAt(s, i)) = Len(s) - 1
             /\ \A m \in 1 .. i - 1 : RemoveAt(s, i)[m] = s[m]
             /\ \A m \in i .. Len(s) - 1 : RemoveAt(s, i)[m] = s[m + 1]
  <2> DEFINE a == SubSeq(s, 1, i - 1)  b == SubSeq(s, i + 1, Len(s))  n == Len(s)
  <2>1. n \in Nat /\ i - 1 \in 0 .. n /\ i \in 0 .. n
    OBVIOUS
  <2>2. /\ a \in Seq(T) /\ Len(a) = i - 1 /\ \A m \in 1 .. i - 1 : a[m] = s[m]
        /\ b \in Seq(T) /\ Len(b) = n - i /\ \A m \in 1 .. n - i : b[m] = s[i + m]
    BY <2>1, Cuts
  <2>3. RemoveAt(s, i) = a \o b
    BY DEF RemoveAt
  <2> HIDE DEF a, b, n
  <2> DEFINE d == a \o b
  <2>4. /\ d \in Seq(T) /\ Len(d) = n - 1
        /\ \A m \in 1 .. i - 1 : d[m] = a[m]
        /\ \A m \in i .. n - 1 : d[m] = b[m - (i - 1)]
    <3>1. (i - 1) + (n - i) = n - 1
      BY <2>1
    <3>2. /\ d \in Seq(T) /\ Len(d) = n - 1
          /\ \A m \in 1 .. n - 1 : d[m] = IF m <= i - 1 THEN a[m] ELSE b[m - (i - 1)]
      BY <2>2, <3>1, ConcatProperties
    <3> HIDE DEF d
    <3>3. (\A m \in 1 .. i - 1 : m \in 1 .. n - 1 /\ m <= i - 1)
          /\ \A m \in i .. n - 1 : m \in 1 .. n - 1 /\ ~(m <= i - 1)
      BY <2>1
    <3>4. QED
      BY <3>2, <3>3
  <2> HIDE DEF d
  <2>5. \A m \in i .. n - 1 : d[m] = s[m + 1]
    <3> SUFFICES ASSUME NEW m \in i .. n - 1
                 PROVE  d[m] = s[m + 1]
      OBVIOUS
    <3>1. m - (i - 1) \in 1 .. n - i /\ i + (m - (i - 1)) = m + 1
      BY <2>1
    <3>2. d[m] = b[m - (i - 1)]
      BY <2>4
    <3>3. b[m - (i - 1)] = s[i + (m - (i - 1))]
      BY <2>2, <3>1
    <3>4. QED
      BY <3>1, <3>2, <3>3
  <2>6. \A m \in 1 .. i - 1 : d[m] = s[m]
    BY <2>2, <2>4
  <2>7. QED
    BY <2>3, <2>4, <2>5, <2>6, Zenon DEF n, d
<1>3. QED
  BY <1>1, <1>2

\* What is in one of the parts is in what they make together.
LEMMA FlattenHolds ==
    ASSUME NEW T, NEW part \in Seq(Seq(T)), NEW m \in DOMAIN part
    PROVE  ToSet(part[m]) \subseteq ToSet(FlattenSeq(part))
<1> DEFINE a == SubSeq(part, 1, m - 1)  x == part[m]  b == SubSeq(part, m + 1, Len(part))
<1>1. m \in 1 .. Len(part)
  OBVIOUS
<1>2. a \in Seq(Seq(T)) /\ b \in Seq(Seq(T)) /\ x \in Seq(T) /\ <<x>> \in Seq(Seq(T))
  OBVIOUS
<1>3. part = (a \o <<x>>) \o b
  BY <1>1, Cuts, Zenon
<1> HIDE DEF a, b, x
<1>4. a \o <<x>> \in Seq(Seq(T))
  BY <1>2, ConcatGroups
<1>5. FlattenSeq(part) = (FlattenSeq(a) \o x) \o FlattenSeq(b)
  <2> DEFINE c == a \o <<x>>
  <2>1. FlattenSeq(c) = FlattenSeq(a) \o FlattenSeq(<<x>>)
    BY <1>2, FlattenConcat, Zenon
  <2>2. FlattenSeq(<<x>>) = x
    BY <1>2, FlattenOne
  <2>3. c \in Seq(Seq(T)) /\ part = c \o b
    BY <1>3, <1>4
  <2> HIDE DEF c
  <2>4. FlattenSeq(part) = FlattenSeq(c) \o FlattenSeq(b)
    BY <1>2, <2>3, FlattenConcat, Zenon
  <2>5. QED
    BY <2>1, <2>2, <2>4, Zenon
<1> DEFINE fa == FlattenSeq(a)  fb == FlattenSeq(b)
<1>6. fa \in Seq(T) /\ fb \in Seq(T)
  BY <1>2, FlattenType
<1> HIDE DEF fa, fb
<1>7. fa \o x \in Seq(T)
  BY <1>2, <1>6, ConcatGroups
<1>8. ToSet(x) \subseteq ToSet((fa \o x) \o fb)
  <2> DEFINE c == fa \o x
  <2>1. c \in Seq(T) /\ ToSet(c) = ToSet(fa) \cup ToSet(x)
    BY <1>2, <1>6, <1>7, ToSetConcat
  <2> HIDE DEF c
  <2>2. ToSet(c \o fb) = ToSet(c) \cup ToSet(fb)
    BY <1>6, <2>1, ToSetConcat
  <2>3. QED
    BY <2>1, <2>2 DEF c
<1>9. QED
  BY <1>5, <1>8 DEF fa, fb, x

-----------------------------------------------------------------------------
(* 3. Nodes and their items from left to right *)

\* The trees of each level, unfolded once.
LEMMA TreeLevels ==
    /\ Tree[0] = NodesOver(0, {})
    /\ \A h \in Nat : Tree[h] = NodesOver(h, Tree[h - 1])
<1>1. \A h \in Nat : Tree[h] = NodesOver(h, Tree[h - 1])
  <2> DEFINE f == Tree
  <2> HIDE DEF f
  <2>1. f = [h \in Nat |-> NodesOver(h, f[h - 1])]
    BY LevelFunctions DEF f
  <2>2. \A h \in Nat : f[h] = NodesOver(h, f[h - 1])
    BY <2>1
  <2>3. QED
    BY <2>2 DEF f
<1>2. NodesOver(0, Tree[0 - 1]) = NodesOver(0, {})
  BY DEF NodesOver
<1>3. QED
  BY <1>1, <1>2

\* What it means to be a tree of a level.
LEMMA InTree ==
    /\ \A node : node \in Tree[0] <=>
          /\ node = Node(node.level, node.items, node.kids)
          /\ node.level = 0 /\ node.items \in Seq(AnyItem) /\ node.kids = <<>>
    /\ \A h \in Nat : h > 0 => \A node : node \in Tree[h] <=>
          /\ node = Node(node.level, node.items, node.kids)
          /\ node.level = h /\ node.items \in Seq(AnyItem) /\ node.kids \in Seq(Tree[h - 1])
<1>1. ASSUME NEW node
      PROVE  node \in NodesOver(0, {}) <=>
                /\ node = Node(node.level, node.items, node.kids)
                /\ node.level = 0 /\ node.items \in Seq(AnyItem) /\ node.kids = <<>>
  BY DEF NodesOver, Node
<1>2. ASSUME NEW h \in Nat, h > 0, NEW U, NEW node
      PROVE  node \in NodesOver(h, U) <=>
                /\ node = Node(node.level, node.items, node.kids)
                /\ node.level = h /\ node.items \in Seq(AnyItem) /\ node.kids \in Seq(U)
  BY <1>2 DEF NodesOver, Node
<1>3. ASSUME NEW node
      PROVE  node \in Tree[0] <=>
                /\ node = Node(node.level, node.items, node.kids)
                /\ node.level = 0 /\ node.items \in Seq(AnyItem) /\ node.kids = <<>>
  <2>1. Tree[0] = NodesOver(0, {})
    BY TreeLevels, Zenon
  <2>2. QED
    BY <1>1, <2>1, Zenon
<1>4. ASSUME NEW h \in Nat, h > 0, NEW node
      PROVE  node \in Tree[h] <=>
                /\ node = Node(node.level, node.items, node.kids)
                /\ node.level = h /\ node.items \in Seq(AnyItem) /\ node.kids \in Seq(Tree[h - 1])
  <2>1. Tree[h] = NodesOver(h, Tree[h - 1])
    BY <1>4, TreeLevels, Zenon
  <2> DEFINE U == Tree[h - 1]
  <2>2. Tree[h] = NodesOver(h, U)
    BY <2>1
  <2> HIDE DEF U
  <2>3. /\ node \in NodesOver(h, U) <=>
            /\ node = Node(node.level, node.items, node.kids)
            /\ node.level = h /\ node.items \in Seq(AnyItem) /\ node.kids \in Seq(U)
    BY <1>4, <1>2
  <2>4. QED
    BY <2>2, <2>3, Zenon DEF U
<1>5. QED
  BY <1>3, <1>4, Zenon

\* Every leaf with items, and every inner node over trees, is a tree of its
\* level.
LEMMA NodesInTree ==
    /\ \A items \in Seq(AnyItem) : Node(0, items, <<>>) \in Tree[0]
    /\ \A h \in Nat : h > 0 => \A items \in Seq(AnyItem), kids \in Seq(Tree[h - 1]) :
          Node(h, items, kids) \in Tree[h]
<1>1. ASSUME NEW l, NEW items, NEW kids
      PROVE  /\ Node(l, items, kids).level = l
             /\ Node(l, items, kids).items = items
             /\ Node(l, items, kids).kids = kids
  BY DEF Node
<1>2. ASSUME NEW items \in Seq(AnyItem)
      PROVE  Node(0, items, <<>>) \in Tree[0]
  <2> DEFINE node == Node(0, items, <<>>)
  <2>1. node.level = 0 /\ node.items = items /\ node.kids = <<>>
    BY <1>1
  <2>2. node = Node(node.level, node.items, node.kids)
    BY <2>1
  <2> HIDE DEF node
  <2>3. node \in Tree[0]
    BY <2>1, <2>2, InTree
  <2>4. QED
    BY <2>3 DEF node
<1>3. ASSUME NEW h \in Nat, h > 0, NEW items \in Seq(AnyItem), NEW kids \in Seq(Tree[h - 1])
      PROVE  Node(h, items, kids) \in Tree[h]
  <2> DEFINE node == Node(h, items, kids)
  <2>1. node.level = h /\ node.items = items /\ node.kids = kids
    BY <1>1
  <2>2. node = Node(node.level, node.items, node.kids)
    BY <2>1
  <2> HIDE DEF node
  <2>3. node \in Tree[h]
    BY <1>3, <2>1, <2>2, InTree, Zenon
  <2>4. QED
    BY <2>3 DEF node
<1>4. QED
  BY <1>2, <1>3

\* The items of a child and the one that follows it; all that make a node.
Part(h, node, n) ==
    InOrder[h - 1][node.kids[n]] \o IF n \in DOMAIN node.items THEN <<node.items[n]>> ELSE <<>>

\* The parts of a node: what lies in each child, with the item that follows
\* it.
Parts(h, node) == [n \in DOMAIN node.kids |-> Part(h, node, n)]

\* The items from left to right, unfolded once.
LEMMA InOrderLevels ==
    \A h \in Nat : InOrder[h] = ItemsIn(h, InOrder[h - 1])
<1> DEFINE f == InOrder
<1> HIDE DEF f
<1>1. f = [h \in Nat |-> ItemsIn(h, f[h - 1])]
  BY LevelFunctions DEF f
<1>2. \A h \in Nat : f[h] = ItemsIn(h, f[h - 1])
  BY <1>1
<1>3. QED
  BY <1>2 DEF f

\* The items of a leaf, and of an inner node by its parts.
LEMMA InOrderOf ==
    /\ \A node \in Tree[0] : InOrder[0][node] = node.items
    /\ \A h \in Nat : h > 0 => \A node \in Tree[h] : InOrder[h][node] = FlattenSeq(Parts(h, node))
<1>1. ASSUME NEW node \in Tree[0]
      PROVE  InOrder[0][node] = node.items
  <2>1. InOrder[0] = ItemsIn(0, InOrder[0 - 1])
    BY InOrderLevels
  <2>2. QED
    BY <2>1 DEF ItemsIn
<1>2. ASSUME NEW h \in Nat, h > 0, NEW node \in Tree[h]
      PROVE  InOrder[h][node] = FlattenSeq(Parts(h, node))
  <2>1. InOrder[h] = ItemsIn(h, InOrder[h - 1])
    BY InOrderLevels
  <2>2. QED
    BY <1>2, <2>1 DEF ItemsIn, Parts, Part
<1>3. QED
  BY <1>1, <1>2

\* The parts of a node are sequences of items when its children's are.
LEMMA PartsType ==
    ASSUME NEW h \in Nat, h > 0, NEW node \in Tree[h],
           \A kid \in Tree[h - 1] : InOrder[h - 1][kid] \in Seq(AnyItem)
    PROVE  /\ Parts(h, node) \in Seq(Seq(AnyItem)) /\ Len(Parts(h, node)) = Len(node.kids)
           /\ \A n \in 1 .. Len(node.kids) : Parts(h, node)[n] = Part(h, node, n)
<1>1. /\ node.kids \in Seq(Tree[h - 1]) /\ Len(node.kids) \in Nat
      /\ DOMAIN node.kids = 1 .. Len(node.kids)
      /\ node.items \in Seq(AnyItem)
  BY InTree
<1>2. ASSUME NEW n \in 1 .. Len(node.kids)
      PROVE  Part(h, node, n) \in Seq(AnyItem)
  <2>1. node.kids[n] \in Tree[h - 1]
    BY <1>1
  <2>2. InOrder[h - 1][node.kids[n]] \in Seq(AnyItem)
    BY <2>1
  <2>3. (IF n \in DOMAIN node.items THEN <<node.items[n]>> ELSE <<>>) \in Seq(AnyItem)
    BY <1>1, ConcatGroups
  <2>4. QED
    BY <2>2, <2>3, ConcatGroups DEF Part
<1>3. Parts(h, node) = [n \in 1 .. Len(node.kids) |-> Part(h, node, n)]
  BY <1>1 DEF Parts
<1>4. \A n \in 1 .. Len(node.kids) : Part(h, node, n) \in Seq(AnyItem)
  BY <1>2
<1> DEFINE c == Len(node.kids)
<1> HIDE DEF c
<1>5. Parts(h, node) \in Seq(Seq(AnyItem)) /\ Len(Parts(h, node)) = c
  BY <1>1, <1>3, <1>4 DEF c
<1>6. QED
  BY <1>3, <1>5 DEF c

\* Every tree holds a sequence of items.
LEMMA InOrderType ==
    \A h \in Nat : \A node \in Tree[h] : InOrder[h][node] \in Seq(AnyItem)
<1> SUFFICES ASSUME NEW g \in Nat
             PROVE  \A node \in Tree[g] : InOrder[g][node] \in Seq(AnyItem)
  OBVIOUS
<1> DEFINE S == {h \in 0 .. g : \A node \in Tree[h] : InOrder[h][node] \in Seq(AnyItem)}
<1>1. 0 \in S
  BY InOrderOf, InTree
<1>2. ASSUME NEW h \in 0 .. g - 1, h \in S
      PROVE  h + 1 \in S
  <2>1. h + 1 \in Nat /\ h + 1 > 0 /\ (h + 1) - 1 = h /\ h + 1 \in 0 .. g
    OBVIOUS
  <2>2. ASSUME NEW node \in Tree[h + 1]
        PROVE  InOrder[h + 1][node] \in Seq(AnyItem)
    <3>1. Parts(h + 1, node) \in Seq(Seq(AnyItem))
      BY <1>2, <2>1, PartsType
    <3>2. InOrder[h + 1][node] = FlattenSeq(Parts(h + 1, node))
      BY <2>1, InOrderOf
    <3>3. QED
      BY <3>1, <3>2, FlattenType
  <2>3. QED
    BY <2>1, <2>2
<1>3. \A h \in 0 .. g : h \in S
  <2> HIDE DEF S
  <2>1. QED
    BY <1>1, <1>2, IntervalInduction
<1>4. QED
  BY <1>3

-----------------------------------------------------------------------------
(* 4. Concatenation, and two nodes joined *)

\* Putting sequences together, as an operator of its own: what is known of it is
\* in the next lemmas.
s ++ t == s \o t

\* A sequence of one element, as an operator the provers need not look into.
One(x) == <<x>>

\* A concatenation has the elements of its halves.
LEMMA CatType ==
    ASSUME NEW T, NEW s \in Seq(T), NEW t \in Seq(T)
    PROVE  s ++ t \in Seq(T)
BY ConcatGroups DEF ++

\* Concatenation is associative.
LEMMA CatGroups ==
    ASSUME NEW T, NEW s \in Seq(T), NEW t \in Seq(T), NEW u \in Seq(T)
    PROVE  (s ++ t) ++ u = s ++ (t ++ u)
<1>1. (s \o t) \o u = s \o (t \o u)
  BY ConcatGroups
<1>2. QED
  BY <1>1, Zenon DEF ++

\* The empty sequence adds nothing to a concatenation.
LEMMA CatEmpty ==
    ASSUME NEW T, NEW s \in Seq(T)
    PROVE  s ++ <<>> = s /\ <<>> ++ s = s
BY ConcatGroups DEF ++

\* A sequence of one element, typed.
LEMMA OneType ==
    ASSUME NEW T, NEW x \in T
    PROVE  One(x) \in Seq(T)
BY DEF One

\* The empty sequence is a sequence over every set.
LEMMA EmptyType == ASSUME NEW T PROVE <<>> \in Seq(T)
OBVIOUS

\* The same for sequences of items.
LEMMA ItemCats ==
    /\ \A s, t, u \in Seq(AnyItem) : (s ++ t) ++ u = s ++ (t ++ u)
    /\ \A s, t \in Seq(AnyItem) : s ++ t \in Seq(AnyItem)
    /\ \A s \in Seq(AnyItem) : s ++ <<>> = s /\ <<>> ++ s = s
    /\ <<>> \in Seq(AnyItem)
    /\ \A x \in AnyItem : One(x) \in Seq(AnyItem)
BY CatType, CatGroups, CatEmpty, OneType, EmptyType

\* Where the elements of a sequence are that is put together.
LEMMA Concats ==
    ASSUME NEW T, NEW s \in Seq(T), NEW t \in Seq(T)
    PROVE  /\ s ++ t \in Seq(T) /\ Len(s ++ t) = Len(s) + Len(t)
           /\ DOMAIN (s ++ t) = 1 .. Len(s) + Len(t)
           /\ \A i \in 1 .. Len(s) + Len(t) :
                 (s ++ t)[i] = IF i <= Len(s) THEN s[i] ELSE t[i - Len(s)]
<1>1. s \o t \in Seq(T) /\ Len(s \o t) = Len(s) + Len(t)
  OBVIOUS
<1>2. DOMAIN (s \o t) = 1 .. Len(s) + Len(t)
  OBVIOUS
<1>3. \A i \in 1 .. Len(s) + Len(t) :
         (s \o t)[i] = IF i <= Len(s) THEN s[i] ELSE t[i - Len(s)]
  BY ConcatProperties
<1>4. QED
  BY <1>1, <1>2, <1>3, Zenon DEF ++

\* The length and the element of a sequence of one.
LEMMA LenOne == \A x : Len(One(x)) = 1 /\ One(x)[1] = x /\ DOMAIN One(x) = 1 .. 1
BY DEF One

\* A sequence that consists of a sequence, an element and a sequence.
Consists(p, a, x, b) ==
    /\ Len(p) = Len(a) + 1 + Len(b)
    /\ \A n \in 1 .. Len(a) : p[n] = a[n]
    /\ p[Len(a) + 1] = x
    /\ \A n \in 1 .. Len(b) : p[Len(a) + 1 + n] = b[n]

\* A sequence that consists of a, x and b is their concatenation.
LEMMA Assemble ==
    ASSUME NEW T, NEW p \in Seq(T), NEW a \in Seq(T), NEW b \in Seq(T), NEW x \in T,
           Consists(p, a, x, b)
    PROVE  p = (a ++ One(x)) ++ b
<1> DEFINE c == a ++ One(x)  q == c ++ b
<1>1. One(x) \in Seq(T) /\ Len(One(x)) = 1 /\ One(x)[1] = x
  BY LenOne, OneType
<1>2. /\ c \in Seq(T) /\ Len(c) = Len(a) + Len(One(x))
      /\ \A n \in 1 .. Len(a) + Len(One(x)) :
            c[n] = IF n <= Len(a) THEN a[n] ELSE One(x)[n - Len(a)]
  BY <1>1, Concats, Zenon
<1>a. c \in Seq(T)
  BY <1>2
<1> HIDE DEF c
<1>3. /\ q \in Seq(T) /\ Len(q) = Len(c) + Len(b)
      /\ \A n \in 1 .. Len(c) + Len(b) : q[n] = IF n <= Len(c) THEN c[n] ELSE b[n - Len(c)]
  BY <1>a, Concats
<1> DEFINE m == Len(a)  k == Len(b)
<1>4. /\ m \in Nat /\ k \in Nat
      /\ Len(p) = m + 1 + k /\ (\A n \in 1 .. m : p[n] = a[n])
      /\ p[m + 1] = x /\ (\A n \in 1 .. k : p[m + 1 + n] = b[n])
  BY DEF Consists
<1>5. /\ Len(c) = m + 1 /\ Len(q) = m + 1 + k
      /\ \A n \in 1 .. m + 1 : c[n] = IF n <= m THEN a[n] ELSE One(x)[n - m]
      /\ \A n \in 1 .. m + 1 + k : q[n] = IF n <= m + 1 THEN c[n] ELSE b[n - (m + 1)]
  <2>1. Len(c) = m + 1
    BY <1>1, <1>2
  <2>2. QED
    BY <1>1, <1>2, <1>3, <2>1
<1>6. q \in Seq(T)
  BY <1>3
<1> HIDE DEF m, k, q
<1>7. ASSUME NEW n \in 1 .. m + 1 + k
      PROVE  p[n] = q[n]
  <2>1. CASE n <= m
    <3>1. n \in 1 .. m /\ n \in 1 .. m + 1 /\ n <= m + 1
      BY <1>4, <2>1
    <3>2. QED
      BY <1>4, <1>5, <2>1, <3>1
  <2>2. CASE n = m + 1
    <3>1. n \in 1 .. m + 1 /\ ~(n <= m) /\ n <= m + 1 /\ n - m = 1
      BY <1>4, <2>2
    <3>2. q[n] = One(x)[1]
      BY <1>5, <3>1
    <3>3. QED
      BY <1>1, <1>4, <2>2, <3>2
  <2>3. CASE n > m + 1
    <3> DEFINE i == n - (m + 1)
    <3>1. i \in 1 .. k /\ m + 1 + i = n /\ ~(n <= m + 1)
      BY <1>4, <2>3
    <3>2. q[n] = b[i]
      BY <1>5, <3>1
    <3> HIDE DEF i
    <3>3. p[m + 1 + i] = b[i]
      BY <1>4, <3>1
    <3>4. QED
      BY <3>1, <3>2, <3>3
  <2>4. n <= m \/ n = m + 1 \/ n > m + 1
    BY <1>4
  <2>5. QED
    BY <2>1, <2>2, <2>3, <2>4
<1>8. p = q
  BY <1>4, <1>5, <1>6, <1>7, SeqEqual
<1>9. QED
  BY <1>8 DEF q, c

\* Flattening with one part singled out.
LEMMA FlattenAround ==
    ASSUME NEW T
    PROVE  \A a, b \in Seq(Seq(T)), x \in Seq(T) :
              /\ FlattenSeq((a ++ One(x)) ++ b) = (FlattenSeq(a) ++ x) ++ FlattenSeq(b)
              /\ FlattenSeq(a ++ One(x)) = FlattenSeq(a) ++ x
<1> SUFFICES ASSUME NEW a \in Seq(Seq(T)), NEW b \in Seq(Seq(T)), NEW x \in Seq(T)
             PROVE  /\ FlattenSeq((a ++ One(x)) ++ b) = (FlattenSeq(a) ++ x) ++ FlattenSeq(b)
                    /\ FlattenSeq(a ++ One(x)) = FlattenSeq(a) ++ x
  OBVIOUS
<1> DEFINE c == a ++ One(x)
<1>1. One(x) \in Seq(Seq(T)) /\ c \in Seq(Seq(T))
  BY OneType, CatType
<1>2. \A s, t \in Seq(Seq(T)) : FlattenSeq(s ++ t) = FlattenSeq(s) ++ FlattenSeq(t)
  BY FlattenConcat, Zenon DEF ++
<1>3. FlattenSeq(One(x)) = x
  BY FlattenOne DEF One
<1>4. FlattenSeq(c) = FlattenSeq(a) ++ x
  BY <1>1, <1>2, <1>3
<1> HIDE DEF c
<1>5. FlattenSeq(c ++ b) = FlattenSeq(c) ++ FlattenSeq(b)
  BY <1>1, <1>2
<1>6. QED
  BY <1>4, <1>5 DEF c

\* The last element apart.
LEMMA FrontAndLast ==
    ASSUME NEW T, NEW s \in Seq(T), NEW n \in Nat, Len(s) = n + 1
    PROVE  /\ SubSeq(s, 1, n) \in Seq(T) /\ Len(SubSeq(s, 1, n)) = n
           /\ \A m \in 1 .. n : SubSeq(s, 1, n)[m] = s[m]
           /\ s = SubSeq(s, 1, n) ++ One(s[n + 1]) /\ s[n + 1] \in T
<1>1. n + 1 \in 1 .. Len(s) /\ (n + 1) - 1 = n /\ n \in 0 .. Len(s) /\ 1 \in 1 .. Len(s)
  OBVIOUS
<1>2. SubSeq(s, 1, n + 1) = SubSeq(s, 1, (n + 1) - 1) \o <<s[n + 1]>>
  BY <1>1, SubSeqRecursiveSecond
<1>3. SubSeq(s, 1, n + 1) = s
  BY SubSeqFull
<1>4. /\ SubSeq(s, 1, n) \in Seq(T) /\ Len(SubSeq(s, 1, n)) = n
      /\ \A m \in 1 .. n : SubSeq(s, 1, n)[m] = s[m]
  BY <1>1, Cuts
<1>5. s[n + 1] \in T
  BY <1>1, ElementOfSeq
<1>6. s = SubSeq(s, 1, n) ++ One(s[n + 1])
  BY <1>1, <1>2, <1>3 DEF ++, One
<1>7. QED
  BY <1>4, <1>5, <1>6

\* A node with one child more than items, or with no children.
Shaped(h, node) == node \in Tree[h] /\ (h > 0 => Len(node.kids) = Len(node.items) + 1)

\* Two nodes of a level and an item between them make one.
Joined(a, x, b) == Node(a.level, (a.items ++ One(x)) ++ b.items, a.kids ++ b.kids)

\* The fields of a node.
LEMMA NodeFields ==
    \A l, items, kids : /\ Node(l, items, kids).level = l
                        /\ Node(l, items, kids).items = items
                        /\ Node(l, items, kids).kids = kids
BY DEF Node

\* The fields of a tree of level h.
LEMMA TreeFields ==
    \A h \in Nat : \A node \in Tree[h] :
        /\ node = Node(h, node.items, node.kids)
        /\ node.level = h /\ node.items \in Seq(AnyItem)
        /\ Len(node.items) \in Nat /\ DOMAIN node.items = 1 .. Len(node.items)
        /\ \A n \in 1 .. Len(node.items) : node.items[n] \in AnyItem
        /\ h = 0 => node.kids = <<>>
        /\ h > 0 => /\ node.kids \in Seq(Tree[h - 1])
                    /\ Len(node.kids) \in Nat /\ DOMAIN node.kids = 1 .. Len(node.kids)
                    /\ \A n \in 1 .. Len(node.kids) : node.kids[n] \in Tree[h - 1]
<1> SUFFICES ASSUME NEW h \in Nat, NEW node \in Tree[h]
             PROVE  /\ node = Node(h, node.items, node.kids)
                    /\ node.level = h /\ node.items \in Seq(AnyItem)
                    /\ Len(node.items) \in Nat /\ DOMAIN node.items = 1 .. Len(node.items)
                    /\ \A n \in 1 .. Len(node.items) : node.items[n] \in AnyItem
                    /\ h = 0 => node.kids = <<>>
                    /\ h > 0 => /\ node.kids \in Seq(Tree[h - 1])
                                /\ Len(node.kids) \in Nat /\ DOMAIN node.kids = 1 .. Len(node.kids)
                                /\ \A n \in 1 .. Len(node.kids) : node.kids[n] \in Tree[h - 1]
  OBVIOUS
<1>1. /\ node = Node(node.level, node.items, node.kids)
      /\ node.level = h /\ node.items \in Seq(AnyItem)
      /\ h = 0 => node.kids = <<>>
      /\ h > 0 => node.kids \in Seq(Tree[h - 1])
  <2>1. CASE h = 0
    BY <2>1, InTree
  <2>2. CASE h > 0
    BY <2>2, InTree
  <2>3. QED
    BY <2>1, <2>2
<1>2. QED
  BY <1>1

\* Two nodes joined with an item between them hold the items of the two and
\* it, in this order.
LEMMA JoinedInOrder ==
    ASSUME NEW h \in Nat, NEW a, NEW b, NEW x \in AnyItem, Shaped(h, a), Shaped(h, b)
    PROVE  /\ Shaped(h, Joined(a, x, b))
           /\ InOrder[h][Joined(a, x, b)] = (InOrder[h][a] ++ One(x)) ++ InOrder[h][b]
<1> DEFINE c == Joined(a, x, b)  k == a.items ++ One(x)
<1>0. a \in Tree[h] /\ b \in Tree[h]
  BY DEF Shaped
<1>1. /\ a.items \in Seq(AnyItem) /\ b.items \in Seq(AnyItem)
      /\ a.level = h /\ b.level = h
      /\ c.level = h /\ c.items = k ++ b.items /\ c.kids = a.kids ++ b.kids
  <2>1. /\ a.items \in Seq(AnyItem) /\ b.items \in Seq(AnyItem)
        /\ a.level = h /\ b.level = h
    BY <1>0, TreeFields
  <2>2. c = Node(h, k ++ b.items, a.kids ++ b.kids)
    BY <2>1 DEF Joined
  <2>3. QED
    BY <2>1, <2>2, NodeFields
<1>2. k \in Seq(AnyItem) /\ c.items \in Seq(AnyItem)
  <2>1. k \in Seq(AnyItem)
    BY <1>1, ItemCats, Zenon
  <2> DEFINE e == b.items
  <2>2. c.items = k ++ e /\ e \in Seq(AnyItem)
    BY <1>1
  <2> HIDE DEF k, c, e
  <2>3. k ++ e \in Seq(AnyItem)
    BY <2>1, <2>2, ItemCats
  <2>4. QED
    BY <2>1, <2>2, <2>3
<1>3. CASE h = 0
  <2>1. a.kids = <<>> /\ b.kids = <<>> /\ c.kids = <<>> /\ c = Node(0, c.items, <<>>)
    <3>1. a.kids = <<>> /\ b.kids = <<>>
      BY <1>0, <1>3, InTree
    <3>2. a.kids ++ b.kids = <<>>
      BY <3>1 DEF ++
    <3>3. QED
      BY <1>1, <1>3, <3>1, <3>2 DEF Joined
  <2>2. c \in Tree[0]
    BY <1>2, <2>1, NodesInTree
  <2>3. InOrder[0][c] = c.items /\ InOrder[0][a] = a.items /\ InOrder[0][b] = b.items
    BY <1>0, <1>3, <2>2, InOrderOf
  <2>4. QED
    BY <1>1, <1>3, <2>2, <2>3 DEF Shaped
<1>4. CASE h > 0
  <2> DEFINE p == Len(a.items)  q == Len(b.items)  L == h - 1
             C == c.kids  A == a.kids  B == b.kids
  <2>1. /\ p \in Nat /\ q \in Nat /\ A \in Seq(Tree[L]) /\ B \in Seq(Tree[L])
        /\ Len(A) = p + 1 /\ Len(B) = q + 1
    <3>1. p \in Nat /\ q \in Nat
      BY <1>1
    <3>2. QED
      BY <1>0, <1>4, <3>1, InTree, Zenon DEF Shaped
  <2>2. /\ C \in Seq(Tree[L]) /\ Len(C) = (p + 1) + (q + 1)
        /\ \A n \in 1 .. (p + 1) + (q + 1) : C[n] = IF n <= p + 1 THEN A[n] ELSE B[n - (p + 1)]
    <3>1. C = A ++ B
      <4> HIDE DEF c
      <4>1. QED
        BY <1>1
    <3> HIDE DEF A, B, C, L, p, q
    <3>2. A \in Seq(Tree[L]) /\ B \in Seq(Tree[L])
      BY <2>1
    <3>3. /\ A ++ B \in Seq(Tree[L]) /\ Len(A ++ B) = Len(A) + Len(B)
          /\ \A n \in 1 .. Len(A) + Len(B) :
                (A ++ B)[n] = IF n <= Len(A) THEN A[n] ELSE B[n - Len(A)]
      BY <3>2, Concats
    <3>4. QED
      BY <2>1, <3>1, <3>3
  <2>3. Len(k) = p + 1 /\ \A n \in 1 .. p + 1 : k[n] = IF n <= p THEN a.items[n] ELSE x
    <3> DEFINE e == a.items
    <3>1. /\ One(x) \in Seq(AnyItem) /\ Len(One(x)) = 1 /\ One(x)[1] = x
          /\ e \in Seq(AnyItem) /\ Len(e) = p
      BY <1>1, LenOne, OneType
    <3> HIDE DEF e, p
    <3>2. /\ Len(e ++ One(x)) = Len(e) + Len(One(x))
          /\ \A n \in 1 .. Len(e) + Len(One(x)) :
                (e ++ One(x))[n] = IF n <= Len(e) THEN e[n] ELSE One(x)[n - Len(e)]
      <4>1. One(x) \in Seq(AnyItem) /\ e \in Seq(AnyItem)
        BY <3>1
      <4>2. QED
        BY <4>1, Concats, Zenon
    <3>3. \A n \in 1 .. p + 1 : ~(n <= p) => n - p = 1
      BY <2>1
    <3>4. QED
      BY <2>1, <3>1, <3>2, <3>3, Zenon DEF e
  <2>4. /\ Len(c.items) = (p + 1) + q /\ DOMAIN c.items = 1 .. (p + 1) + q
        /\ \A n \in 1 .. (p + 1) + q :
              c.items[n] = IF n <= p + 1 THEN k[n] ELSE b.items[n - (p + 1)]
    <3> DEFINE e == b.items
    <3>1. c.items = k ++ e /\ e \in Seq(AnyItem) /\ Len(e) = q
      BY <1>1
    <3> HIDE DEF k, e, p, q, c
    <3>2. /\ Len(k ++ e) = Len(k) + Len(e) /\ DOMAIN (k ++ e) = 1 .. Len(k) + Len(e)
          /\ \A n \in 1 .. Len(k) + Len(e) : (k ++ e)[n] = IF n <= Len(k) THEN k[n] ELSE e[n - Len(k)]
      <4>1. e \in Seq(AnyItem)
        BY <3>1
      <4>2. QED
        BY <1>2, <4>1, Concats
    <3>3. QED
      BY <2>3, <3>1, <3>2 DEF e
  <2>5. /\ DOMAIN a.items = 1 .. p /\ DOMAIN b.items = 1 .. q /\ DOMAIN c.items = 1 .. (p + 1) + q
    BY <1>0, <2>4, TreeFields
  <2> HIDE DEF k, p, q, L
  <2>6. c \in Tree[h]
    <3>1. c = Node(h, c.items, C)
      <4> HIDE DEF k
      <4>1. c = Node(a.level, k ++ b.items, a.kids ++ b.kids)
        BY DEF Joined, k
      <4> HIDE DEF c
      <4>2. QED
        BY <1>1, <4>1
    <3> DEFINE items == c.items
    <3>2. items \in Seq(AnyItem) /\ C \in Seq(Tree[h - 1])
      BY <1>2, <2>2 DEF L
    <3> HIDE DEF items, C
    <3>3. Node(h, items, C) \in Tree[h]
      BY <1>4, <3>2, NodesInTree
    <3>4. QED
      BY <3>1, <3>3 DEF items
  <2> HIDE DEF A, B, C
  <2>7. Shaped(h, c)
    BY <2>1, <2>2, <2>4, <2>6 DEF Shaped, C
  <2> DEFINE P == Parts(h, c)  Pa == Parts(h, a)  Pb == Parts(h, b)
  <2>8. \A kid \in Tree[L] : InOrder[L][kid] \in Seq(AnyItem)
    <3>1. L \in Nat
      BY <1>4 DEF L
    <3>2. QED
      BY <3>1, InOrderType
  <2>9. /\ P \in Seq(Seq(AnyItem)) /\ Len(P) = (p + 1) + (q + 1)
        /\ \A n \in 1 .. (p + 1) + (q + 1) : P[n] = Part(h, c, n)
    <3> HIDE DEF c
    <3>1. QED
      BY <1>4, <2>2, <2>6, <2>8, PartsType DEF C, L
  <2>10. /\ Pa \in Seq(Seq(AnyItem)) /\ Len(Pa) = p + 1
         /\ \A n \in 1 .. p + 1 : Pa[n] = Part(h, a, n)
    BY <1>0, <1>4, <2>1, <2>8, PartsType, Zenon DEF A, L
  <2>11. /\ Pb \in Seq(Seq(AnyItem)) /\ Len(Pb) = q + 1
         /\ \A n \in 1 .. q + 1 : Pb[n] = Part(h, b, n)
    BY <1>0, <1>4, <2>1, <2>8, PartsType, Zenon DEF B, L
  <2> HIDE DEF c
  <2>12. ASSUME NEW n \in 1 .. p
         PROVE  P[n] = Pa[n]
    <3>1. /\ n \in 1 .. (p + 1) + (q + 1) /\ n \in 1 .. p + 1 /\ n <= p + 1
          /\ n \in 1 .. (p + 1) + q
      BY <2>1
    <3>2. C[n] = A[n] /\ c.items[n] = a.items[n]
      BY <2>2, <2>3, <2>4, <3>1
    <3>3. Part(h, c, n) = Part(h, a, n)
      BY <2>5, <3>1, <3>2, Zenon DEF Part, A, C
    <3>4. P[n] = Part(h, c, n) /\ Pa[n] = Part(h, a, n)
      BY <2>9, <2>10, <3>1
    <3>5. QED
      BY <3>3, <3>4
  <2>13. /\ P[p + 1] = Pa[p + 1] ++ One(x) /\ Pa[p + 1] \in Seq(AnyItem)
    <3>1. p + 1 \in 1 .. (p + 1) + (q + 1) /\ p + 1 \in 1 .. p + 1 /\ p + 1 <= p + 1 /\ p + 1 \notin 1 .. p
          /\ p + 1 \in 1 .. (p + 1) + q
      BY <2>1
    <3>2. C[p + 1] = A[p + 1] /\ c.items[p + 1] = x
      BY <2>2, <2>3, <2>4, <3>1
    <3> DEFINE y == InOrder[L][A[p + 1]]
    <3>3. y \in Seq(AnyItem)
      <4>1. A[p + 1] \in Tree[L]
        BY <2>1, <3>1, ElementOfSeq
      <4>2. QED
        BY <2>8, <4>1
    <3>4. Part(h, c, p + 1) = y ++ One(x) /\ Part(h, a, p + 1) = y ++ <<>>
      BY <2>5, <3>1, <3>2, Zenon DEF Part, A, C, L, ++, One
    <3> HIDE DEF y
    <3>5. y ++ <<>> = y
      BY <3>3, ItemCats
    <3>6. P[p + 1] = Part(h, c, p + 1) /\ Pa[p + 1] = Part(h, a, p + 1)
      BY <2>9, <2>10, <3>1
    <3>7. QED
      BY <3>3, <3>4, <3>5, <3>6
  <2>14. ASSUME NEW n \in 1 .. q + 1
         PROVE  P[p + 1 + n] = Pb[n]
    <3> DEFINE m == p + 1 + n
    <3>1. /\ m \in 1 .. (p + 1) + (q + 1) /\ ~(m <= p + 1) /\ m - (p + 1) = n
          /\ (m \in 1 .. (p + 1) + q) = (n \in 1 .. q)
      BY <2>1
    <3> HIDE DEF m
    <3>2. C[m] = B[n]
      BY <2>2, <3>1
    <3>3. n \in 1 .. q => c.items[m] = b.items[n]
      BY <2>4, <3>1
    <3>4. Part(h, c, m) = Part(h, b, n)
      BY <2>5, <3>1, <3>2, <3>3, Zenon DEF Part, B, C
    <3>5. P[m] = Part(h, c, m) /\ Pb[n] = Part(h, b, n)
      BY <2>9, <2>11, <3>1
    <3>6. QED
      BY <3>4, <3>5 DEF m
  <2> DEFINE a0 == SubSeq(Pa, 1, p)  y == Pa[p + 1]  z == y ++ One(x)
  <2> HIDE DEF P, Pa, Pb
  <2>15. a0 \in Seq(Seq(AnyItem)) /\ Pa = a0 ++ One(y) /\ y \in Seq(AnyItem) /\ z \in Seq(AnyItem)
    <3>1. a0 \in Seq(Seq(AnyItem)) /\ Pa = a0 ++ One(y) /\ y \in Seq(AnyItem)
      <4>1. p \in Nat /\ Pa \in Seq(Seq(AnyItem)) /\ Len(Pa) = p + 1
        BY <2>1, <2>10
      <4>2. QED
        BY <4>1, FrontAndLast, Zenon
    <3> HIDE DEF y
    <3>2. QED
      BY <3>1, ItemCats
  <2>16. Len(a0) = p /\ \A n \in 1 .. p : a0[n] = Pa[n]
    <3>1. p \in 0 .. Len(Pa)
      BY <2>1, <2>10
    <3>2. QED
      BY <2>10, <3>1, Cuts
  <2>17. P = (a0 ++ One(z)) ++ Pb
    <3>1. P[p + 1] = z
      BY <2>13
    <3> HIDE DEF a0, z
    <3>2. Len(P) = Len(a0) + 1 + Len(Pb) /\ P \in Seq(Seq(AnyItem))
      BY <2>1, <2>9, <2>11, <2>16
    <3>3. Pb \in Seq(Seq(AnyItem)) /\ \A n \in 1 .. Len(Pb) : P[Len(a0) + 1 + n] = Pb[n]
      BY <2>11, <2>14, <2>16
    <3>4. /\ a0 \in Seq(Seq(AnyItem)) /\ z \in Seq(AnyItem)
          /\ \A n \in 1 .. Len(a0) : P[n] = a0[n]
      BY <2>12, <2>15, <2>16, Zenon
    <3>5. P[Len(a0) + 1] = z
      BY <2>16, <3>1
    <3>6. Consists(P, a0, z, Pb)
      BY <3>2, <3>3, <3>4, <3>5 DEF Consists
    <3>7. QED
      BY <3>2, <3>3, <3>4, <3>6, Assemble
  <2>18. /\ FlattenSeq(P) = (FlattenSeq(a0) ++ z) ++ FlattenSeq(Pb)
         /\ FlattenSeq(Pa) = FlattenSeq(a0) ++ y
    <3> HIDE DEF a0, y, z
    <3>1. /\ a0 \in Seq(Seq(AnyItem)) /\ Pb \in Seq(Seq(AnyItem))
          /\ y \in Seq(AnyItem) /\ z \in Seq(AnyItem)
      BY <2>11, <2>15
    <3>2. FlattenSeq(P) = (FlattenSeq(a0) ++ z) ++ FlattenSeq(Pb)
      BY <2>17, <3>1, FlattenAround
    <3>3. FlattenSeq(Pa) = FlattenSeq(a0) ++ y
      BY <2>15, <3>1, FlattenAround
    <3>4. QED
      BY <3>2, <3>3
  <2>19. /\ InOrder[h][c] = FlattenSeq(P) /\ InOrder[h][a] = FlattenSeq(Pa)
         /\ InOrder[h][b] = FlattenSeq(Pb)
    BY <1>0, <1>4, <2>6, InOrderOf DEF P, Pa, Pb
  <2> DEFINE fa == FlattenSeq(a0)
  <2>20. fa \in Seq(AnyItem)
    BY <2>15, FlattenType, Zenon
  <2> HIDE DEF fa, a0, y
  <2>21. fa ++ (y ++ One(x)) = (fa ++ y) ++ One(x)
    BY <2>15, <2>20, ItemCats
  <2>22. QED
    BY <2>7, <2>18, <2>19, <2>21 DEF fa, c
<1>5. QED
  <2> HIDE DEF c
  <2>1. h = 0 \/ h > 0
    OBVIOUS
  <2>2. QED
    BY <1>3, <1>4, <2>1 DEF c

-----------------------------------------------------------------------------
(* 5. A child in its node *)

\* The item that follows a child, if one does.
Follower(node, n) == IF n <= Len(node.items) THEN One(node.items[n]) ELSE <<>>

\* What a well-shaped inner node gives of its children and its parts.
LEMMA ShapedParts ==
    ASSUME NEW h \in Nat, h > 0, NEW node, Shaped(h, node)
    PROVE  /\ node \in Tree[h] /\ h - 1 \in Nat
           /\ Len(node.items) \in Nat /\ Len(node.kids) = Len(node.items) + 1
           /\ \A n \in 1 .. Len(node.kids) : InOrder[h - 1][node.kids[n]] \in Seq(AnyItem)
           /\ \A n \in 1 .. Len(node.kids) : Follower(node, n) \in Seq(AnyItem)
           /\ InOrder[h][node] = FlattenSeq(Parts(h, node))
           /\ Parts(h, node) \in Seq(Seq(AnyItem)) /\ Len(Parts(h, node)) = Len(node.kids)
           /\ \A n \in 1 .. Len(node.kids) :
                 Parts(h, node)[n] = InOrder[h - 1][node.kids[n]] ++ Follower(node, n)
<1>1. node \in Tree[h] /\ h - 1 \in Nat /\ Len(node.kids) = Len(node.items) + 1
  BY DEF Shaped
<1>2. /\ Len(node.items) \in Nat /\ DOMAIN node.items = 1 .. Len(node.items)
      /\ \A n \in 1 .. Len(node.items) : node.items[n] \in AnyItem
      /\ \A n \in 1 .. Len(node.kids) : node.kids[n] \in Tree[h - 1]
  BY <1>1, TreeFields, Zenon
<1>3. \A kid \in Tree[h - 1] : InOrder[h - 1][kid] \in Seq(AnyItem)
  BY <1>1, InOrderType
<1>4. /\ Parts(h, node) \in Seq(Seq(AnyItem)) /\ Len(Parts(h, node)) = Len(node.kids)
      /\ \A n \in 1 .. Len(node.kids) : Parts(h, node)[n] = Part(h, node, n)
  BY <1>1, <1>3, PartsType
<1>5. InOrder[h][node] = FlattenSeq(Parts(h, node))
  BY <1>1, InOrderOf
<1>6. ASSUME NEW n \in 1 .. Len(node.kids)
      PROVE  Follower(node, n) \in Seq(AnyItem)
             /\ Part(h, node, n) = InOrder[h - 1][node.kids[n]] ++ Follower(node, n)
  <2>1. n \in DOMAIN node.items <=> n <= Len(node.items)
    BY <1>1, <1>2
  <2>2. Part(h, node, n) = InOrder[h - 1][node.kids[n]] ++ Follower(node, n)
    BY <2>1, Zenon DEF Part, Follower, ++, One
  <2>3. Follower(node, n) \in Seq(AnyItem)
    BY <1>2, <2>1, ItemCats DEF Follower
  <2>4. QED
    BY <2>2, <2>3
<1>7. QED
  BY <1>1, <1>2, <1>3, <1>4, <1>5, <1>6, Zenon

\* A node with another child in one place.
WithKid(node, i, kid) == Node(node.level, node.items, [node.kids EXCEPT ![i] = kid])

\* A node with child i exchanged.
LEMMA WithKidFields ==
    ASSUME NEW h \in Nat, h > 0, NEW node, Shaped(h, node),
           NEW i \in 1 .. Len(node.kids), NEW kid \in Tree[h - 1]
    PROVE  /\ Shaped(h, WithKid(node, i, kid))
           /\ WithKid(node, i, kid).level = h /\ WithKid(node, i, kid).items = node.items
           /\ Len(WithKid(node, i, kid).kids) = Len(node.kids)
           /\ \A n \in 1 .. Len(node.kids) :
                 WithKid(node, i, kid).kids[n] = IF n = i THEN kid ELSE node.kids[n]
<1> DEFINE new == WithKid(node, i, kid)  kids == [node.kids EXCEPT ![i] = kid]
<1>1. /\ node \in Tree[h] /\ node.level = h /\ node.items \in Seq(AnyItem)
      /\ node.kids \in Seq(Tree[h - 1]) /\ Len(node.kids) = Len(node.items) + 1
  BY TreeFields DEF Shaped
<1>2. /\ kids \in Seq(Tree[h - 1]) /\ Len(kids) = Len(node.kids)
      /\ \A n \in 1 .. Len(node.kids) : kids[n] = IF n = i THEN kid ELSE node.kids[n]
  <2> DEFINE U == Tree[h - 1]
  <2>1. node.kids \in Seq(U) /\ kid \in U
    BY <1>1
  <2> HIDE DEF U
  <2>2. /\ kids \in Seq(U) /\ Len(kids) = Len(node.kids)
        /\ \A n \in 1 .. Len(node.kids) : kids[n] = IF n = i THEN kid ELSE node.kids[n]
    BY <2>1, ExceptSeq
  <2>3. QED
    BY <2>2 DEF U
<1> HIDE DEF kids
<1>3. new = Node(h, node.items, kids)
  BY <1>1 DEF WithKid, kids
<1>4. new.level = h /\ new.items = node.items /\ new.kids = kids
  BY <1>3, NodeFields
<1>5. new \in Tree[h]
  BY <1>1, <1>2, <1>3, NodesInTree
<1>6. Shaped(h, new)
  BY <1>1, <1>2, <1>4, <1>5 DEF Shaped
<1>7. QED
  BY <1>2, <1>4, <1>6

\* Exchanging a child for itself changes nothing.
LEMMA WithOwnKid ==
    ASSUME NEW h \in Nat, h > 0, NEW node, Shaped(h, node), NEW i \in 1 .. Len(node.kids)
    PROVE  WithKid(node, i, node.kids[i]) = node /\ node.kids[i] \in Tree[h - 1]
<1>1. /\ node = Node(node.level, node.items, node.kids)
      /\ node.kids \in Seq(Tree[h - 1]) /\ node.kids[i] \in Tree[h - 1]
  BY TreeFields DEF Shaped
<1>2. [node.kids EXCEPT ![i] = node.kids[i]] = node.kids
  BY <1>1
<1>3. QED
  BY <1>1, <1>2 DEF WithKid

\* A node with two children in the place of one, and an item between them.
Pair(node, i, l, x, r) ==
    Node(node.level, InsertAt(node.items, i, x), InsertAt([node.kids EXCEPT ![i] = l], i + 1, r))

\* Where the elements are after one was put in.
IsWith(t, s, i, e, T) ==
    /\ t \in Seq(T) /\ Len(t) = Len(s) + 1
    /\ \A m \in 1 .. Len(s) + 1 : t[m] = IF m < i THEN s[m] ELSE IF m = i THEN e ELSE s[m - 1]

\* A sequence with an element put in, element by element.
LEMMA InsertedAt ==
    ASSUME NEW T, NEW s \in Seq(T), NEW i \in 1 .. Len(s) + 1, NEW e \in T
    PROVE  IsWith(InsertAt(s, i, e), s, i, e, T)
<1> DEFINE t == InsertAt(s, i, e)  n == Len(s)
<1>1. /\ t \in Seq(T) /\ Len(t) = n + 1 /\ \A m \in 1 .. i - 1 : t[m] = s[m]
      /\ t[i] = e /\ \A m \in i .. n : t[m + 1] = s[m]
  <2>1. t \in Seq(T) /\ Len(t) = n + 1
    BY InsertsAndRemoves
  <2>2. \A m \in 1 .. i - 1 : t[m] = s[m]
    BY InsertsAndRemoves
  <2>3. t[i] = e /\ \A m \in i .. n : t[m + 1] = s[m]
    BY InsertsAndRemoves
  <2>4. QED
    BY <2>1, <2>2, <2>3
<1>2. n \in Nat
  OBVIOUS
<1> HIDE DEF t, n
<1>3. ASSUME NEW m \in 1 .. n + 1
      PROVE  t[m] = IF m < i THEN s[m] ELSE IF m = i THEN e ELSE s[m - 1]
  <2>1. CASE m < i
    BY <1>1, <2>1
  <2>2. CASE m > i
    <3>1. m - 1 \in i .. n /\ (m - 1) + 1 = m
      BY <1>2, <2>2
    <3>2. QED
      BY <1>1, <2>2, <3>1
  <2>3. QED
    BY <1>1, <2>1, <2>2
<1>4. QED
  BY <1>1, <1>3 DEF t, n, IsWith

\* new is node with child i exchanged for l and r and the item x between
\* them.
IsPair(new, h, node, i, l, x, r) ==
    /\ Shaped(h, new) /\ new.level = h
    /\ Len(new.items) = Len(node.items) + 1 /\ Len(new.kids) = Len(node.kids) + 1
    /\ \A m \in 1 .. Len(node.items) + 1 :
          new.items[m] = IF m < i THEN node.items[m] ELSE IF m = i THEN x ELSE node.items[m - 1]
    /\ \A m \in 1 .. Len(node.kids) + 1 :
          new.kids[m] = IF m < i THEN node.kids[m] ELSE IF m = i THEN l
                        ELSE IF m = i + 1 THEN r ELSE node.kids[m - 1]

\* A node with child i exchanged for two children and an item between them.
LEMMA PairFields ==
    ASSUME NEW h \in Nat, h > 0, NEW node, Shaped(h, node), NEW i \in 1 .. Len(node.kids),
           NEW l \in Tree[h - 1], NEW r \in Tree[h - 1], NEW x \in AnyItem
    PROVE  IsPair(Pair(node, i, l, x, r), h, node, i, l, x, r)
<1> DEFINE new == Pair(node, i, l, x, r)  K == [node.kids EXCEPT ![i] = l]
           items == InsertAt(node.items, i, x)  kids == InsertAt(K, i + 1, r)
           k == Len(node.kids)
<1>1. /\ node \in Tree[h] /\ node.level = h /\ node.items \in Seq(AnyItem)
      /\ node.kids \in Seq(Tree[h - 1]) /\ k = Len(node.items) + 1
      /\ Len(node.items) \in Nat
  BY TreeFields DEF Shaped
<1>2. /\ K \in Seq(Tree[h - 1]) /\ Len(K) = k
      /\ \A n \in 1 .. k : K[n] = IF n = i THEN l ELSE node.kids[n]
  <2>1. node.kids \in Seq(Tree[h - 1])
    BY <1>1
  <2>2. QED
    BY <2>1, ExceptSeq
<1>3. /\ items \in Seq(AnyItem) /\ Len(items) = Len(node.items) + 1
      /\ \A m \in 1 .. Len(node.items) + 1 :
            items[m] = IF m < i THEN node.items[m] ELSE IF m = i THEN x ELSE node.items[m - 1]
  <2>1. i \in 1 .. Len(node.items) + 1 /\ node.items \in Seq(AnyItem)
    BY <1>1
  <2>2. IsWith(items, node.items, i, x, AnyItem)
    BY <2>1, InsertedAt
  <2> HIDE DEF items
  <2>3. QED
    BY <2>2 DEF IsWith
<1> HIDE DEF K, items
<1>4. /\ kids \in Seq(Tree[h - 1]) /\ Len(kids) = k + 1
      /\ \A m \in 1 .. k + 1 :
            kids[m] = IF m < i + 1 THEN K[m] ELSE IF m = i + 1 THEN r ELSE K[m - 1]
  <2>1. i + 1 \in 1 .. Len(K) + 1 /\ K \in Seq(Tree[h - 1])
    BY <1>1, <1>2
  <2>2. IsWith(kids, K, i + 1, r, Tree[h - 1])
    BY <2>1, InsertedAt
  <2> HIDE DEF kids
  <2>3. /\ kids \in Seq(Tree[h - 1]) /\ Len(kids) = Len(K) + 1
        /\ \A m \in 1 .. Len(K) + 1 :
            kids[m] = IF m < i + 1 THEN K[m] ELSE IF m = i + 1 THEN r ELSE K[m - 1]
    BY <2>2 DEF IsWith
  <2>4. QED
    BY <1>2, <2>3
<1>5. new = Node(h, items, kids)
  BY <1>1 DEF Pair, items, K
<1> HIDE DEF kids, k
<1>6. new.level = h /\ new.items = items /\ new.kids = kids
  BY <1>5, NodeFields
<1>7. new \in Tree[h]
  BY <1>3, <1>4, <1>5, NodesInTree
<1>8. Shaped(h, new)
  BY <1>1, <1>3, <1>4, <1>6, <1>7, Zenon DEF Shaped
<1>9. ASSUME NEW m \in 1 .. k + 1
      PROVE  kids[m] = IF m < i THEN node.kids[m] ELSE IF m = i THEN l
                       ELSE IF m = i + 1 THEN r ELSE node.kids[m - 1]
  <2>1. k \in Nat /\ i \in 1 .. k
    BY <1>1 DEF k
  <2>2. CASE m <= i
    BY <1>2, <1>4, <2>1, <2>2
  <2>3. CASE m > i + 1
    <3>1. m - 1 \in 1 .. k /\ m - 1 # i
      BY <2>1, <2>3
    <3>2. QED
      BY <1>2, <1>4, <2>1, <2>3, <3>1
  <2>4. QED
    BY <1>4, <2>1, <2>2, <2>3
<1> HIDE DEF new
<1>10. IsPair(new, h, node, i, l, x, r)
  BY <1>3, <1>4, <1>6, <1>8, <1>9 DEF IsPair, k
<1>11. QED
  BY <1>10 DEF new

\* What lies before child i of a node, and what lies after it, is the same
\* whatever is in its place.
Surrounds(h, node, i, A, B) ==
    /\ \A kid \in Tree[h - 1] :
          InOrder[h][WithKid(node, i, kid)] = (A ++ InOrder[h - 1][kid]) ++ B
    /\ \A l, r \in Tree[h - 1], x \in AnyItem :
          InOrder[h][Pair(node, i, l, x, r)] =
             (A ++ ((InOrder[h - 1][l] ++ One(x)) ++ InOrder[h - 1][r])) ++ B
    /\ IF i = 1 THEN A = <<>>
       ELSE \E C \in Seq(AnyItem) : A = C ++ One(node.items[i - 1])
    /\ IF i > Len(node.items) THEN B = <<>>
       ELSE \E D \in Seq(AnyItem) : B = One(node.items[i]) ++ D
    /\ \A m \in 1 .. Len(node.items) :
          /\ m < i => node.items[m] \in ToSet(A)
          /\ m >= i => node.items[m] \in ToSet(B)

\* The elements of a concatenation.
LEMMA CatSets ==
    /\ \A s, t \in Seq(AnyItem) : ToSet(s ++ t) = ToSet(s) \cup ToSet(t)
    /\ \A x : ToSet(One(x)) = {x}
    /\ ToSet(<<>>) = {}
    /\ \A s \in Seq(AnyItem) : ToSet(s) \subseteq AnyItem
<1>1. /\ \A s, t \in Seq(AnyItem) : ToSet(s \o t) = ToSet(s) \cup ToSet(t)
      /\ \A x : ToSet(<<x>>) = {x}
      /\ ToSet(<<>>) = {}
      /\ \A s \in Seq(AnyItem) : ToSet(s) \subseteq AnyItem
  BY ToSetConcat
<1>2. QED
  BY <1>1, Zenon DEF ++, One

\* The items before and after child i do not depend on that child.
LEMMA KidInContext ==
    ASSUME NEW h \in Nat, h > 0, NEW node, Shaped(h, node), NEW i \in 1 .. Len(node.kids)
    PROVE  \E A, B \in Seq(AnyItem) : Surrounds(h, node, i, A, B)
<1> DEFINE P == Parts(h, node)  k == Len(node.kids)  c == Len(node.items)
           P1 == SubSeq(P, 1, i - 1)  P2 == SubSeq(P, i + 1, Len(P))
           io(kid) == InOrder[h - 1][kid]  F == Follower(node, i)
           A == FlattenSeq(P1)  T == FlattenSeq(P2)  B == F ++ T
<1>1. /\ node \in Tree[h] /\ h - 1 \in Nat /\ c \in Nat /\ k = c + 1
      /\ P \in Seq(Seq(AnyItem)) /\ Len(P) = k
      /\ \A n \in 1 .. k : /\ P[n] = io(node.kids[n]) ++ Follower(node, n)
                           /\ io(node.kids[n]) \in Seq(AnyItem)
                           /\ Follower(node, n) \in Seq(AnyItem)
  BY ShapedParts, Zenon
<1> HIDE DEF P
<1>2. /\ P1 \in Seq(Seq(AnyItem)) /\ Len(P1) = i - 1 /\ \A n \in 1 .. i - 1 : P1[n] = P[n]
      /\ P2 \in Seq(Seq(AnyItem)) /\ Len(P2) = k - i /\ \A n \in 1 .. k - i : P2[n] = P[i + n]
  <2> DEFINE j == i - 1
  <2>1. i \in 0 .. Len(P) /\ j \in 0 .. Len(P)
    BY <1>1
  <2>2. P \in Seq(Seq(AnyItem))
    BY <1>1
  <2> HIDE DEF j
  <2>3. /\ SubSeq(P, 1, j) \in Seq(Seq(AnyItem)) /\ Len(SubSeq(P, 1, j)) = j
        /\ \A n \in 1 .. j : SubSeq(P, 1, j)[n] = P[n]
    BY <2>1, <2>2, Cuts
  <2>4. /\ P2 \in Seq(Seq(AnyItem)) /\ Len(P2) = Len(P) - i
        /\ \A n \in 1 .. Len(P) - i : P2[n] = P[i + n]
    BY <2>1, <2>2, Cuts
  <2>5. Len(P) = k
    BY <1>1
  <2> HIDE DEF P2, k
  <2>6. /\ Len(P2) = k - i /\ \A n \in 1 .. k - i : P2[n] = P[i + n]
    BY <2>4, <2>5, Zenon
  <2>7. QED
    BY <2>3, <2>4, <2>6, Zenon DEF j
<1> HIDE DEF P1, P2, k, c
<1>3. A \in Seq(AnyItem) /\ T \in Seq(AnyItem) /\ F \in Seq(AnyItem)
  BY <1>1, <1>2, FlattenType DEF k
<1> HIDE DEF A, T, F
<1>4. B \in Seq(AnyItem)
  BY <1>3, ItemCats
<1>5. ASSUME NEW kid \in Tree[h - 1]
      PROVE  InOrder[h][WithKid(node, i, kid)] = (A ++ io(kid)) ++ B
  <2> DEFINE new == WithKid(node, i, kid)  Q == Parts(h, new)  s == io(kid)  x == s ++ F
  <2>1. /\ Shaped(h, new) /\ new.items = node.items
        /\ Len(new.kids) = k
        /\ \A n \in 1 .. k : new.kids[n] = IF n = i THEN kid ELSE node.kids[n]
    BY WithKidFields DEF k
  <2>2. \A n : Follower(new, n) = Follower(node, n)
    BY <2>1 DEF Follower
  <2> HIDE DEF new
  <2>3. /\ Q \in Seq(Seq(AnyItem)) /\ Len(Q) = k /\ InOrder[h][new] = FlattenSeq(Q)
        /\ \A n \in 1 .. k : Q[n] = io(new.kids[n]) ++ Follower(new, n)
    BY <2>1, ShapedParts
  <2>4. s \in Seq(AnyItem) /\ x \in Seq(AnyItem)
    <3>1. s \in Seq(AnyItem)
      BY <1>1, InOrderType
    <3> HIDE DEF s
    <3>2. QED
      BY <1>3, <3>1, ItemCats
  <2>5. Q[i] = x
    BY <1>1, <2>1, <2>2, <2>3, Zenon DEF F, k
  <2>6. \A n \in 1 .. k : n # i => Q[n] = P[n]
    BY <1>1, <2>1, <2>2, <2>3, Zenon
  <2> HIDE DEF Q, x, s
  <2>7. Consists(Q, P1, x, P2)
    <3>1. /\ Len(Q) = Len(P1) + 1 + Len(P2) /\ Len(P1) + 1 = i /\ Len(P2) = k - i
      BY <1>1, <1>2, <2>3
    <3>2. \A n \in 1 .. Len(P1) : Q[n] = P1[n]
      <4>1. \A n \in 1 .. i - 1 : n \in 1 .. k /\ n # i
        BY <1>1 DEF k
      <4>2. QED
        BY <1>2, <2>6, <4>1, Zenon
    <3>3. \A n \in 1 .. k - i : Q[i + n] = P2[n]
      <4>1. \A n \in 1 .. k - i : i + n \in 1 .. k /\ i + n # i
        <5>1. k \in Nat /\ i \in 1 .. k
          BY <1>1 DEF k
        <5> HIDE DEF k
        <5>2. QED
          BY <5>1
      <4>2. QED
        BY <1>2, <2>6, <4>1, Zenon
    <3>4. QED
      BY <2>5, <3>1, <3>2, <3>3, Zenon DEF Consists
  <2>8. Q = (P1 ++ One(x)) ++ P2
    BY <1>2, <2>3, <2>4, <2>7, Assemble
  <2>9. FlattenSeq(Q) = (A ++ x) ++ T
    BY <1>2, <2>4, <2>8, FlattenAround DEF A, T
  <2>10. (A ++ (s ++ F)) ++ T = (A ++ s) ++ (F ++ T)
    <3>1. A ++ (s ++ F) = (A ++ s) ++ F /\ A ++ s \in Seq(AnyItem)
      BY <1>3, <2>4, ItemCats
    <3> DEFINE u == A ++ s
    <3> HIDE DEF u
    <3>2. (u ++ F) ++ T = u ++ (F ++ T)
      BY <1>3, <3>1, ItemCats DEF u
    <3>3. QED
      BY <3>1, <3>2 DEF u
  <2>11. QED
    BY <2>3, <2>9, <2>10 DEF new, x, s
<1>6. IF i = 1 THEN A = <<>> ELSE \E C \in Seq(AnyItem) : A = C ++ One(node.items[i - 1])
  <2>1. CASE i = 1
    <3>1. P1 = <<>>
      BY <1>2, <2>1
    <3>2. QED
      BY <2>1, <3>1 DEF A, FlattenSeq
  <2>2. CASE i # 1
    <3> DEFINE n == i - 2  j == i - 1
    <3>1. /\ n \in Nat /\ n + 1 = j /\ Len(P1) = n + 1 /\ j \in 1 .. k /\ j \in 1 .. i - 1
          /\ j <= c
      BY <1>1, <1>2, <2>2 DEF k
    <3> HIDE DEF n, j
    <3> DEFINE R == SubSeq(P1, 1, n)  u == io(node.kids[j])  f == One(node.items[j])
               C == FlattenSeq(R) ++ u
    <3>2. R \in Seq(Seq(AnyItem)) /\ P1 = R ++ One(P1[n + 1])
      BY <1>2, <3>1, FrontAndLast, Zenon
    <3>3. P1[n + 1] = P[j]
      BY <1>2, <3>1
    <3>4. P[j] = u ++ f /\ u \in Seq(AnyItem) /\ f \in Seq(AnyItem)
      <4>1. Follower(node, j) = f
        BY <3>1 DEF Follower, c
      <4>2. QED
        BY <1>1, <3>1, <4>1
    <3> HIDE DEF R, u, f
    <3>5. u ++ f \in Seq(AnyItem)
      BY <3>4, ItemCats
    <3>6. A = FlattenSeq(R) ++ (u ++ f)
      BY <3>2, <3>3, <3>4, <3>5, FlattenAround DEF A
    <3>7. FlattenSeq(R) \in Seq(AnyItem)
      BY <3>2, FlattenType
    <3>8. A = C ++ f /\ C \in Seq(AnyItem)
      BY <3>4, <3>6, <3>7, ItemCats
    <3>9. QED
      BY <2>2, <3>8 DEF f, j
  <2>3. QED
    BY <2>1, <2>2
<1>7. IF i > c THEN B = <<>> ELSE \E D \in Seq(AnyItem) : B = One(node.items[i]) ++ D
  <2>1. CASE i > c
    <3>1. F = <<>> /\ Len(P2) = 0
      BY <1>1, <1>2, <2>1 DEF F, Follower, c, k
    <3>2. P2 = <<>>
      BY <1>2, <3>1
    <3>3. T = <<>>
      BY <3>2 DEF T, FlattenSeq
    <3>4. QED
      BY <2>1, <3>1, <3>3, ItemCats, Zenon
  <2>2. CASE ~(i > c)
    <3>1. i <= c
      BY <1>1, <2>2
    <3>2. F = One(node.items[i])
      BY <3>1 DEF F, Follower, c
    <3>3. QED
      BY <1>3, <2>2, <3>2
  <2>3. QED
    BY <2>1, <2>2
<1>8. ASSUME NEW m \in 1 .. c
      PROVE  (m < i => node.items[m] \in ToSet(A)) /\ (m >= i => node.items[m] \in ToSet(B))
  <2> DEFINE u == io(node.kids[m])  f == One(node.items[m])
  <2>1. m \in 1 .. k /\ Follower(node, m) = f
    BY <1>1 DEF Follower, c
  <2>2. P[m] = u ++ f /\ u \in Seq(AnyItem) /\ f \in Seq(AnyItem)
    BY <1>1, <2>1
  <2>3. node.items[m] \in ToSet(f)
    BY CatSets
  <2> HIDE DEF u, f
  <2>4. node.items[m] \in ToSet(P[m])
    BY <2>2, <2>3, CatSets
  <2>5. CASE m < i
    <3>1. m \in DOMAIN P1 /\ P1[m] = P[m]
      BY <1>2, <2>5
    <3>2. ToSet(P1[m]) \subseteq ToSet(A)
      BY <1>2, <3>1, FlattenHolds DEF A
    <3>3. QED
      BY <2>4, <2>5, <3>1, <3>2
  <2>6. CASE m = i
    <3>1. F = f
      BY <2>1, <2>6 DEF F
    <3>2. ToSet(B) = ToSet(F) \cup ToSet(T)
      BY <1>3, CatSets
    <3>3. QED
      BY <2>3, <2>6, <3>1, <3>2
  <2>7. CASE m > i
    <3> DEFINE j == m - i
    <3>1. j \in 1 .. k - i /\ i + j = m
      BY <1>1, <2>7
    <3> HIDE DEF j
    <3>2. j \in DOMAIN P2 /\ P2[j] = P[m]
      <4>1. DOMAIN P2 = 1 .. Len(P2)
        BY <1>2
      <4>2. QED
        BY <1>2, <3>1, <4>1, Zenon
    <3>3. ToSet(P2[j]) \subseteq ToSet(T)
      BY <1>2, <3>2, FlattenHolds, Zenon DEF T
    <3>4. ToSet(B) = ToSet(F) \cup ToSet(T)
      BY <1>3, CatSets
    <3> HIDE DEF B
    <3>5. QED
      BY <2>4, <2>7, <3>2, <3>3, <3>4
  <2>8. m < i \/ m = i \/ m > i
    OBVIOUS
  <2>9. QED
    BY <2>5, <2>6, <2>7, <2>8
<1> HIDE DEF B
<1>9. ASSUME NEW l \in Tree[h - 1], NEW r \in Tree[h - 1], NEW z \in AnyItem
      PROVE  InOrder[h][Pair(node, i, l, z, r)] = (A ++ ((io(l) ++ One(z)) ++ io(r))) ++ B
  <2> DEFINE new == Pair(node, i, l, z, r)  Q == Parts(h, new)
             s == io(l)  t == io(r)  x == s ++ One(z)  y == t ++ F  R == One(y) ++ P2
  <2>1. /\ Shaped(h, new) /\ Len(new.items) = c + 1 /\ Len(new.kids) = k + 1
        /\ \A m \in 1 .. c + 1 : new.items[m] =
              IF m < i THEN node.items[m] ELSE IF m = i THEN z ELSE node.items[m - 1]
        /\ \A m \in 1 .. k + 1 : new.kids[m] =
              IF m < i THEN node.kids[m] ELSE IF m = i THEN l
              ELSE IF m = i + 1 THEN r ELSE node.kids[m - 1]
    <3>1. IsPair(new, h, node, i, l, z, r)
      BY PairFields
    <3> HIDE DEF new
    <3>2. QED
      BY <3>1, Zenon DEF IsPair, k, c
  <2> HIDE DEF new
  <2>2. /\ Q \in Seq(Seq(AnyItem)) /\ Len(Q) = k + 1 /\ InOrder[h][new] = FlattenSeq(Q)
        /\ \A n \in 1 .. k + 1 : Q[n] = io(new.kids[n]) ++ Follower(new, n)
    BY <2>1, ShapedParts
  <2>3. i \in 1 .. k /\ k \in Nat /\ c \in Nat /\ k = c + 1
    BY <1>1 DEF k, c
  <2>4. /\ \A n \in 1 .. i - 1 : Follower(new, n) = Follower(node, n)
        /\ Follower(new, i) = One(z)
        /\ \A n \in i .. k : Follower(new, n + 1) = Follower(node, n)
    <3>1. ASSUME NEW n \in 1 .. i - 1
          PROVE  Follower(new, n) = Follower(node, n)
      <4>1. n \in 1 .. c + 1 /\ n <= c + 1 /\ n <= c /\ n < i
        BY <2>3
      <4>2. QED
        BY <2>1, <4>1 DEF Follower, c
    <3>2. Follower(new, i) = One(z)
      <4>1. i \in 1 .. c + 1 /\ i <= c + 1
        BY <1>1, <2>3
      <4>2. QED
        BY <2>1, <4>1 DEF Follower
    <3>3. ASSUME NEW n \in i .. k
          PROVE  Follower(new, n + 1) = Follower(node, n)
      <4>1. /\ (n + 1 <= c + 1) = (n <= c) /\ (n + 1) - 1 = n /\ ~(n + 1 < i) /\ n + 1 # i
            /\ (n <= c => n + 1 \in 1 .. c + 1)
        BY <2>3
      <4>2. n <= c => new.items[n + 1] = node.items[n]
        BY <2>1, <4>1
      <4>3. QED
        BY <2>1, <4>1, <4>2 DEF Follower, c
    <3>4. QED
      BY <3>1, <3>2, <3>3
  <2>5. s \in Seq(AnyItem) /\ t \in Seq(AnyItem) /\ x \in Seq(AnyItem) /\ y \in Seq(AnyItem)
    <3>1. s \in Seq(AnyItem) /\ t \in Seq(AnyItem)
      BY <1>1, InOrderType
    <3> HIDE DEF s, t
    <3>2. One(z) \in Seq(AnyItem)
      BY ItemCats
    <3>3. QED
      BY <1>3, <3>1, <3>2, ItemCats
  <2>6. Q[i] = x
    <3>1. i \in 1 .. k + 1 /\ ~(i < i)
      BY <2>3
    <3>2. new.kids[i] = l
      BY <2>1, <3>1
    <3>3. QED
      BY <2>2, <2>4, <3>1, <3>2
  <2>7. Q[i + 1] = y
    <3>1. i + 1 \in 1 .. k + 1 /\ ~(i + 1 < i) /\ i + 1 # i /\ i \in i .. k
      BY <2>3
    <3>2. new.kids[i + 1] = r
      BY <2>1, <3>1
    <3>3. Follower(new, i + 1) = F
      BY <2>4, <3>1 DEF F
    <3>4. QED
      BY <2>2, <3>1, <3>2, <3>3, Zenon
  <2>8. ASSUME NEW n \in 1 .. i - 1
        PROVE  Q[n] = P[n]
    <3>1. n \in 1 .. k + 1 /\ n < i /\ n \in 1 .. k
      BY <2>3
    <3>2. new.kids[n] = node.kids[n] /\ Follower(new, n) = Follower(node, n)
      BY <2>1, <2>4, <3>1
    <3>3. QED
      BY <1>1, <2>2, <3>1, <3>2, Zenon
  <2>9. ASSUME NEW n \in i + 1 .. k
        PROVE  Q[n + 1] = P[n]
    <3>1. /\ n + 1 \in 1 .. k + 1 /\ ~(n + 1 < i) /\ n + 1 # i /\ n + 1 # i + 1
          /\ (n + 1) - 1 = n /\ n \in 1 .. k /\ n \in i .. k
      BY <2>3
    <3>2. new.kids[n + 1] = node.kids[n] /\ Follower(new, n + 1) = Follower(node, n)
      BY <2>1, <2>4, <3>1
    <3>3. Q[n + 1] = io(new.kids[n + 1]) ++ Follower(new, n + 1)
      BY <2>2, <3>1, Zenon
    <3>4. P[n] = io(node.kids[n]) ++ Follower(node, n)
      BY <1>1, <3>1
    <3>5. QED
      BY <3>2, <3>3, <3>4
  <2> HIDE DEF Q, x, y, s, t
  <2>10. /\ One(y) \in Seq(Seq(AnyItem)) /\ Len(One(y)) = 1 /\ One(y)[1] = y
    BY <2>5, LenOne, OneType
  <2>11. /\ R \in Seq(Seq(AnyItem)) /\ Len(R) = (k - i) + 1
         /\ \A n \in 1 .. (k - i) + 1 : R[n] = IF n = 1 THEN y ELSE P2[n - 1]
    <3>1. /\ R \in Seq(Seq(AnyItem)) /\ Len(R) = Len(One(y)) + Len(P2)
          /\ \A n \in 1 .. Len(One(y)) + Len(P2) :
                R[n] = IF n <= Len(One(y)) THEN One(y)[n] ELSE P2[n - Len(One(y))]
      <4>1. P2 \in Seq(Seq(AnyItem)) /\ One(y) \in Seq(Seq(AnyItem))
        BY <1>2, <2>10
      <4>2. QED
        BY <4>1, Concats
    <3> HIDE DEF R
    <3>2. Len(One(y)) + Len(P2) = (k - i) + 1
      BY <1>2, <2>3, <2>10
    <3>3. \A n \in 1 .. (k - i) + 1 : (n <= 1) = (n = 1)
      OBVIOUS
    <3>4. QED
      BY <2>10, <3>1, <3>2, <3>3
  <2>12. FlattenSeq(R) = y ++ T
    <3>1. FlattenSeq(R) = FlattenSeq(One(y)) ++ T
      BY <1>2, <2>10, FlattenConcat, Zenon DEF ++, T
    <3>2. FlattenSeq(One(y)) = y
      BY <2>5, FlattenOne DEF One
    <3>3. QED
      BY <3>1, <3>2
  <2> HIDE DEF R
  <2>13. Consists(Q, P1, x, R)
    <3>1. /\ Len(Q) = Len(P1) + 1 + Len(R) /\ Len(P1) + 1 = i /\ Len(P1) = i - 1
          /\ Len(R) = (k - i) + 1
      BY <1>2, <2>2, <2>3, <2>11 DEF Q
    <3>2. \A n \in 1 .. i - 1 : Q[n] = P1[n]
      BY <1>2, <2>8, Zenon
    <3>3. ASSUME NEW n \in 1 .. (k - i) + 1
          PROVE  Q[i + n] = R[n]
      <4>1. CASE n = 1
        BY <2>7, <2>11, <4>1
      <4>2. CASE n # 1
        <5> DEFINE j == n - 1  q == i + j
        <5>1. j \in 1 .. k - i /\ q \in i + 1 .. k /\ q + 1 = i + n /\ q = i + j
          BY <2>3, <4>2
        <5>2. R[n] = P2[j] /\ P2[j] = P[i + j]
          BY <1>2, <2>11, <4>2, <5>1, Zenon
        <5> HIDE DEF q, j
        <5>3. Q[q + 1] = P[q]
          BY <2>9, <5>1, Zenon
        <5>4. QED
          BY <5>1, <5>2, <5>3
      <4>3. QED
        BY <4>1, <4>2
    <3>4. QED
      BY <2>6, <3>1, <3>2, <3>3 DEF Consists
  <2>14. Q = (P1 ++ One(x)) ++ R
    BY <1>2, <2>2, <2>5, <2>11, <2>13, Assemble DEF Q
  <2>15. FlattenSeq(Q) = (A ++ x) ++ (y ++ T)
    BY <1>2, <2>5, <2>11, <2>12, <2>14, FlattenAround DEF A
  <2>16. (A ++ x) ++ ((t ++ F) ++ T) = (A ++ (x ++ t)) ++ (F ++ T)
    <3>1. (t ++ F) ++ T = t ++ (F ++ T) /\ F ++ T \in Seq(AnyItem)
      BY <1>3, <2>5, ItemCats
    <3> DEFINE u == F ++ T
    <3> HIDE DEF u
    <3>2. A ++ x \in Seq(AnyItem) /\ (A ++ x) ++ t = A ++ (x ++ t)
      BY <1>3, <2>5, ItemCats
    <3> DEFINE w == A ++ x
    <3> HIDE DEF w
    <3>3. w ++ (t ++ u) = (w ++ t) ++ u
      BY <2>5, <3>1, <3>2, ItemCats DEF u, w
    <3>4. QED
      BY <3>1, <3>2, <3>3 DEF u, w
  <2>17. FlattenSeq(Q) = (A ++ (x ++ t)) ++ B
    <3>1. (A ++ x) ++ (y ++ T) = (A ++ (x ++ t)) ++ B
      BY <2>16, Zenon DEF y, B
    <3>2. QED
      BY <2>15, <3>1, Zenon
  <2>18. QED
    BY <2>2, <2>17 DEF new, x, s, t, Q
<1>10. Surrounds(h, node, i, A, B)
  BY <1>5, <1>6, <1>7, <1>8, <1>9 DEF Surrounds, c
<1>11. QED
  BY <1>3, <1>4, <1>10

-----------------------------------------------------------------------------
(* 6. Nodes over filled children *)

\* The nodes with no fewer and no more items than allowed, unfolded once.
LEMMA FilledLevels ==
    \A h \in Nat : Filled(degree)[h] = FilledOver(degree, h, Filled(degree)[h - 1])
<1> DEFINE f == Filled(degree)
<1> HIDE DEF f
<1>1. f = [h \in Nat |-> FilledOver(degree, h, f[h - 1])]
  BY LevelFunctions DEF f
<1>2. \A h \in Nat : f[h] = FilledOver(degree, h, f[h - 1])
  BY <1>1
<1>3. QED
  BY <1>2 DEF f

\* A node above nodes that are as a B-tree wants them, itself of any size.
Loose(h, node) == Shaped(h, node) /\ (h > 0 => node.kids \in Seq(Filled(degree)[h - 1]))

\* A node other than a root is a loose node with degree - 1 to 2 degree - 1
\* items.
LEMMA FilledNodes ==
    ASSUME NEW h \in Nat
    PROVE  /\ Filled(degree)[h] \subseteq Tree[h]
           /\ \A node : node \in Filled(degree)[h] <=>
                 Loose(h, node) /\ Len(node.items) \in degree - 1 .. 2 * degree - 1
<1> DEFINE F == Filled(degree)
<1>1. F[h] = FilledOver(degree, h, F[h - 1])
  BY FilledLevels
<1>2. F[h] \subseteq Tree[h]
  BY <1>1 DEF FilledOver
<1>3. ASSUME NEW node \in Tree[h], h > 0
      PROVE  /\ node.kids \in Seq(Tree[h - 1]) /\ DOMAIN node.kids = 1 .. Len(node.kids)
             /\ (\A n \in DOMAIN node.kids : node.kids[n] \in F[h - 1])
                  <=> node.kids \in Seq(F[h - 1])
  <2> DEFINE kids == node.kids  U == F[h - 1]
  <2>1. /\ kids \in Seq(Tree[h - 1]) /\ DOMAIN kids = 1 .. Len(kids) /\ Len(kids) \in Nat
        /\ kids = [n \in 1 .. Len(kids) |-> kids[n]]
    <3>1. /\ kids \in Seq(Tree[h - 1]) /\ DOMAIN kids = 1 .. Len(kids) /\ Len(kids) \in Nat
      BY <1>3, TreeFields
    <3> HIDE DEF kids
    <3>2. QED
      BY <3>1
  <2> HIDE DEF kids, U, F
  <2>2. (\A n \in DOMAIN kids : kids[n] \in U) => kids \in Seq(U)
    BY <2>1
  <2>3. kids \in Seq(U) => \A n \in DOMAIN kids : kids[n] \in U
    OBVIOUS
  <2>4. QED
    BY <2>1, <2>2, <2>3 DEF kids, U
<1>4. ASSUME NEW node
      PROVE  node \in F[h] <=> Loose(h, node) /\ Len(node.items) \in degree - 1 .. 2 * degree - 1
  <2>1. node \in F[h] <=>
            /\ node \in Tree[h] /\ Len(node.items) \in degree - 1 .. 2 * degree - 1
            /\ h > 0 => /\ Len(node.kids) = Len(node.items) + 1
                        /\ \A n \in DOMAIN node.kids : node.kids[n] \in F[h - 1]
    BY <1>1 DEF FilledOver
  <2> HIDE DEF F
  <2>2. Loose(h, node) <=>
            /\ node \in Tree[h] /\ (h > 0 => Len(node.kids) = Len(node.items) + 1)
            /\ h > 0 => node.kids \in Seq(F[h - 1])
    BY DEF Loose, Shaped, F
  <2>3. QED
    BY <1>3, <2>1, <2>2
<1>5. QED
  BY <1>2, <1>4

\* A node is loose when its vectors have the right lengths and children.
LEMMA MakeLoose ==
    ASSUME NEW h \in Nat, NEW items \in Seq(AnyItem), NEW kids,
           IF h = 0 THEN kids = <<>>
           ELSE kids \in Seq(Filled(degree)[h - 1]) /\ Len(kids) = Len(items) + 1
    PROVE  Loose(h, Node(h, items, kids))
<1> DEFINE node == Node(h, items, kids)
<1>1. node.level = h /\ node.items = items /\ node.kids = kids
  BY NodeFields
<1>2. CASE h = 0
  <2>1. node \in Tree[0]
    BY <1>2, NodesInTree
  <2> HIDE DEF node
  <2>2. Loose(h, node)
    BY <1>2, <2>1 DEF Loose, Shaped
  <2>3. QED
    BY <2>2 DEF node
<1>3. CASE h > 0
  <2>1. h - 1 \in Nat
    BY <1>3
  <2>2. Filled(degree)[h - 1] \subseteq Tree[h - 1]
    BY <2>1, FilledNodes
  <2>3. kids \in Seq(Tree[h - 1])
    <3> DEFINE U == Filled(degree)[h - 1]  V == Tree[h - 1]
    <3>1. kids \in Seq(U) /\ U \subseteq V
      BY <1>3, <2>2
    <3> HIDE DEF U, V
    <3>2. kids \in Seq(V)
      BY <3>1
    <3>3. QED
      BY <3>2 DEF V
  <2>4. node \in Tree[h]
    BY <1>3, <2>3, NodesInTree
  <2> HIDE DEF node
  <2>5. Loose(h, node)
    BY <1>1, <1>3, <2>4 DEF Loose, Shaped
  <2>6. QED
    BY <2>5 DEF node
<1>4. QED
  BY <1>2, <1>3

\* The fields of a node whose children are filled.
LEMMA LooseFields ==
    ASSUME NEW h \in Nat, NEW node, Loose(h, node)
    PROVE  /\ Shaped(h, node) /\ node \in Tree[h]
           /\ node = Node(h, node.items, node.kids) /\ node.level = h
           /\ node.items \in Seq(AnyItem) /\ Len(node.items) \in Nat
           /\ IF h = 0 THEN node.kids = <<>>
              ELSE /\ node.kids \in Seq(Filled(degree)[h - 1]) /\ Len(node.kids) = Len(node.items) + 1
                   /\ Filled(degree)[h - 1] \subseteq Tree[h - 1] /\ h - 1 \in Nat
                   /\ \A n \in 1 .. Len(node.kids) : node.kids[n] \in Filled(degree)[h - 1]
<1>1. Shaped(h, node) /\ node \in Tree[h]
  BY DEF Loose, Shaped
<1>2. /\ node = Node(h, node.items, node.kids) /\ node.level = h
      /\ node.items \in Seq(AnyItem) /\ Len(node.items) \in Nat
      /\ h = 0 => node.kids = <<>>
  BY <1>1, TreeFields
<1>3. h > 0 => /\ node.kids \in Seq(Filled(degree)[h - 1])
               /\ Len(node.kids) = Len(node.items) + 1 /\ h - 1 \in Nat
  BY DEF Loose, Shaped
<1>4. h > 0 => Filled(degree)[h - 1] \subseteq Tree[h - 1]
  BY FilledNodes
<1>5. h > 0 => \A n \in 1 .. Len(node.kids) : node.kids[n] \in Filled(degree)[h - 1]
  <2> DEFINE U == Filled(degree)[h - 1]  kids == node.kids
  <2>1. h > 0 => kids \in Seq(U)
    BY <1>3
  <2> HIDE DEF U, kids
  <2>2. h > 0 => \A n \in 1 .. Len(kids) : kids[n] \in U
    BY <2>1
  <2>3. QED
    BY <2>2 DEF U, kids
<1>6. QED
  BY <1>1, <1>2, <1>3, <1>4, <1>5

\* A sequence cut at an element.
LEMMA CutAt ==
    ASSUME NEW T, NEW s \in Seq(T), NEW i \in 1 .. Len(s)
    PROVE  /\ FirstOf(s, i - 1) \in Seq(T) /\ Len(FirstOf(s, i - 1)) = i - 1
           /\ From(s, i + 1) \in Seq(T) /\ Len(From(s, i + 1)) = Len(s) - i
           /\ s = (FirstOf(s, i - 1) ++ One(s[i])) ++ From(s, i + 1)
           /\ s[i] \in T
           /\ \A m \in 1 .. i - 1 : FirstOf(s, i - 1)[m] = s[m]
           /\ \A m \in 1 .. Len(s) - i : From(s, i + 1)[m] = s[i + m]
<1> DEFINE n == Len(s)  j == i - 1
<1>1. n \in Nat /\ j < n /\ j \in 0 .. Len(s) /\ i \in 0 .. Len(s)
  OBVIOUS
<1>2. FirstOf(s, j) = SubSeq(s, 1, j) /\ From(s, i + 1) = SubSeq(s, i + 1, Len(s))
  BY <1>1 DEF FirstOf, From
<1> HIDE DEF j
<1>3. /\ SubSeq(s, 1, j) \in Seq(T) /\ Len(SubSeq(s, 1, j)) = j
      /\ \A m \in 1 .. j : SubSeq(s, 1, j)[m] = s[m]
  BY <1>1, Cuts
<1>4. /\ SubSeq(s, i + 1, Len(s)) \in Seq(T) /\ Len(SubSeq(s, i + 1, Len(s))) = Len(s) - i
      /\ \A m \in 1 .. Len(s) - i : SubSeq(s, i + 1, Len(s))[m] = s[i + m]
  BY <1>1, Cuts
<1>5. s = SubSeq(s, 1, i - 1) \o <<s[i]>> \o SubSeq(s, i + 1, Len(s))
  BY Cuts, Zenon
<1>6. s = (FirstOf(s, j) ++ One(s[i])) ++ From(s, i + 1)
  BY <1>2, <1>5, Zenon DEF ++, One, j
<1>7. s[i] \in T
  BY ElementOfSeq
<1>8. QED
  BY <1>2, <1>3, <1>4, <1>6, <1>7, Zenon DEF j

\* A sequence cut behind an element.
LEMMA CutAfter ==
    ASSUME NEW T, NEW s \in Seq(T), NEW i \in 1 .. Len(s)
    PROVE  /\ FirstOf(s, i) \in Seq(T) /\ Len(FirstOf(s, i)) = i
           /\ From(s, i + 1) \in Seq(T) /\ Len(From(s, i + 1)) = Len(s) - i
           /\ s = FirstOf(s, i) ++ From(s, i + 1)
<1> DEFINE n == Len(s)
<1>1. n \in Nat /\ i \in 0 .. Len(s) /\ (i < n \/ i = n)
  OBVIOUS
<1>2. FirstOf(s, i) = SubSeq(s, 1, i) /\ From(s, i + 1) = SubSeq(s, i + 1, Len(s))
  BY <1>1 DEF FirstOf, From
<1>3. /\ SubSeq(s, 1, i) \in Seq(T) /\ Len(SubSeq(s, 1, i)) = i
  BY <1>1, Cuts
<1>4. /\ SubSeq(s, i + 1, Len(s)) \in Seq(T) /\ Len(SubSeq(s, i + 1, Len(s))) = Len(s) - i
  BY <1>1, Cuts
<1>5. s = SubSeq(s, 1, i) \o SubSeq(s, i + 1, Len(s))
  BY <1>1, Cuts
<1>6. QED
  BY <1>2, <1>3, <1>4, <1>5, Zenon DEF ++

\* What lies before an item of a node, and what lies after it.
LeftOf(node, i) == Node(node.level, FirstOf(node.items, i - 1), FirstOf(node.kids, i))

\* What is right of item i in a node.
RightOf(node, i) == Node(node.level, From(node.items, i + 1), From(node.kids, i + 1))

\* A node cut at item i: two loose nodes which joined around that item are
\* the node again.
LEMMA Apart ==
    ASSUME NEW h \in Nat, NEW node, Loose(h, node), NEW i \in 1 .. Len(node.items)
    PROVE  /\ Loose(h, LeftOf(node, i)) /\ Len(LeftOf(node, i).items) = i - 1
           /\ Loose(h, RightOf(node, i)) /\ Len(RightOf(node, i).items) = Len(node.items) - i
           /\ node.items[i] \in AnyItem
           /\ node = Joined(LeftOf(node, i), node.items[i], RightOf(node, i))
<1> DEFINE c == Len(node.items)  items == node.items  kids == node.kids
           I1 == FirstOf(items, i - 1)  I2 == From(items, i + 1)
           K1 == FirstOf(kids, i)  K2 == From(kids, i + 1)
           l == LeftOf(node, i)  r == RightOf(node, i)  U == Filled(degree)[h - 1]
<1>1. /\ node = Node(h, items, kids) /\ node.level = h /\ items \in Seq(AnyItem) /\ c \in Nat
      /\ IF h = 0 THEN kids = <<>> ELSE kids \in Seq(U) /\ Len(kids) = c + 1
  BY LooseFields, Zenon
<1>2. /\ I1 \in Seq(AnyItem) /\ Len(I1) = i - 1 /\ I2 \in Seq(AnyItem) /\ Len(I2) = c - i
      /\ items = (I1 ++ One(items[i])) ++ I2 /\ items[i] \in AnyItem
  <2>1. items \in Seq(AnyItem) /\ i \in 1 .. Len(items)
    BY <1>1
  <2> HIDE DEF items
  <2>2. /\ I1 \in Seq(AnyItem) /\ Len(I1) = i - 1 /\ I2 \in Seq(AnyItem) /\ Len(I2) = Len(items) - i
        /\ items = (I1 ++ One(items[i])) ++ I2 /\ items[i] \in AnyItem
    BY <2>1, CutAt
  <2>3. QED
    BY <2>2 DEF items
<1>3. /\ kids = K1 ++ K2
      /\ IF h = 0 THEN K1 = <<>> /\ K2 = <<>>
         ELSE K1 \in Seq(U) /\ Len(K1) = i /\ K2 \in Seq(U) /\ Len(K2) = (c - i) + 1
  <2>1. CASE h = 0
    <3>1. kids = <<>>
      BY <1>1, <2>1
    <3> HIDE DEF kids
    <3>2. K1 = <<>> /\ K2 = <<>>
      BY <3>1 DEF FirstOf, From
    <3>3. <<>> ++ <<>> = <<>>
      BY DEF ++
    <3>4. QED
      BY <2>1, <3>1, <3>2, <3>3
  <2>2. CASE h > 0
    <3>1. kids \in Seq(U) /\ i \in 1 .. Len(kids)
      BY <1>1, <2>2
    <3> HIDE DEF kids, U
    <3>2. /\ K1 \in Seq(U) /\ Len(K1) = i /\ K2 \in Seq(U) /\ Len(K2) = Len(kids) - i
          /\ kids = K1 ++ K2
      BY <3>1, CutAfter
    <3>3. Len(kids) - i = (c - i) + 1
      BY <1>1, <2>2 DEF U
    <3> HIDE DEF K1, K2
    <3>4. QED
      BY <2>2, <3>2, <3>3
  <2>3. QED
    BY <2>1, <2>2
<1>4. l = Node(h, I1, K1) /\ r = Node(h, I2, K2)
  BY <1>1 DEF LeftOf, RightOf
<1>5. /\ l.level = h /\ l.items = I1 /\ l.kids = K1
      /\ r.level = h /\ r.items = I2 /\ r.kids = K2
  BY <1>4, NodeFields
<1> HIDE DEF l, r, I1, I2, K1, K2, items, kids, U, c
<1>6. Loose(h, l) /\ Loose(h, r)
  <2>1. h = 0 => K1 = <<>> /\ K2 = <<>>
    BY <1>3
  <2>2. h # 0 => /\ K1 \in Seq(U) /\ Len(K1) = Len(I1) + 1
                 /\ K2 \in Seq(U) /\ Len(K2) = Len(I2) + 1
    BY <1>1, <1>2, <1>3
  <2>3. Loose(h, Node(h, I1, K1))
    BY <1>2, <2>1, <2>2, MakeLoose DEF U
  <2>4. Loose(h, Node(h, I2, K2))
    BY <1>2, <2>1, <2>2, MakeLoose DEF U
  <2>5. QED
    BY <1>4, <2>3, <2>4
<1>7. node = Joined(l, items[i], r)
  <2>1. Joined(l, items[i], r) = Node(h, (I1 ++ One(items[i])) ++ I2, K1 ++ K2)
    BY <1>5 DEF Joined
  <2>2. node = Node(h, items, kids)
    BY <1>1
  <2>3. QED
    BY <1>2, <1>3, <2>1, <2>2, Zenon
<1>8. QED
  BY <1>2, <1>5, <1>6, <1>7 DEF items, l, r, c

\* Two loose nodes joined are loose.
LEMMA LooseJoined ==
    ASSUME NEW h \in Nat, NEW a, NEW b, NEW x \in AnyItem, Loose(h, a), Loose(h, b)
    PROVE  /\ Loose(h, Joined(a, x, b))
           /\ Len(Joined(a, x, b).items) = Len(a.items) + 1 + Len(b.items)
<1> DEFINE I1 == a.items  I2 == b.items  K1 == a.kids  K2 == b.kids  U == Filled(degree)[h - 1]
           c == I1 ++ One(x)  items == c ++ I2  kids == K1 ++ K2
<1>1. /\ a.level = h /\ I1 \in Seq(AnyItem) /\ Len(I1) \in Nat
      /\ IF h = 0 THEN K1 = <<>> ELSE K1 \in Seq(U) /\ Len(K1) = Len(I1) + 1
  BY LooseFields
<1>2. /\ I2 \in Seq(AnyItem) /\ Len(I2) \in Nat
      /\ IF h = 0 THEN K2 = <<>> ELSE K2 \in Seq(U) /\ Len(K2) = Len(I2) + 1
  BY LooseFields
<1>3. Joined(a, x, b) = Node(h, items, kids)
  BY <1>1 DEF Joined
<1> HIDE DEF I1, I2, K1, K2, U
<1>4. One(x) \in Seq(AnyItem) /\ Len(One(x)) = 1
  BY LenOne, ItemCats
<1>5. c \in Seq(AnyItem) /\ Len(c) = Len(I1) + Len(One(x))
  <2>1. I1 \in Seq(AnyItem) /\ One(x) \in Seq(AnyItem)
    BY <1>1, <1>4
  <2>2. QED
    BY <2>1, Concats
<1> HIDE DEF c
<1>6. items \in Seq(AnyItem) /\ Len(items) = Len(c) + Len(I2)
  <2>1. I2 \in Seq(AnyItem) /\ c \in Seq(AnyItem)
    BY <1>2, <1>5
  <2>2. QED
    BY <2>1, Concats
<1>7. h # 0 => kids \in Seq(U) /\ Len(kids) = Len(K1) + Len(K2)
  <2>1. h # 0 => K1 \in Seq(U) /\ K2 \in Seq(U)
    BY <1>1, <1>2
  <2>2. QED
    BY <2>1, Concats
<1>8. h = 0 => kids = <<>>
  <2>1. <<>> ++ <<>> = <<>>
    BY DEF ++
  <2>2. QED
    BY <1>1, <1>2, <2>1
<1> HIDE DEF items, kids
<1>9. Len(items) = Len(I1) + 1 + Len(I2)
  BY <1>4, <1>5, <1>6
<1>10. h # 0 => kids \in Seq(U) /\ Len(kids) = Len(items) + 1
  <2> SUFFICES ASSUME h # 0
               PROVE  kids \in Seq(U) /\ Len(kids) = Len(items) + 1
    OBVIOUS
  <2>1. kids \in Seq(U) /\ Len(kids) = Len(K1) + Len(K2)
    BY <1>7
  <2>2. Len(K1) = Len(I1) + 1 /\ Len(K2) = Len(I2) + 1
    BY <1>1, <1>2
  <2>3. Len(I1) \in Nat /\ Len(I2) \in Nat
    BY <1>1, <1>2
  <2>4. QED
    BY <1>9, <2>1, <2>2, <2>3
<1>11. Loose(h, Node(h, items, kids))
  BY <1>6, <1>8, <1>10, MakeLoose DEF U
<1>12. Node(h, items, kids).items = items
  BY NodeFields
<1>13. QED
  BY <1>3, <1>9, <1>11, <1>12, Zenon DEF I1, I2

\* A loose node with a filled child put in place of child i is loose.
LEMMA LooseWithKid ==
    ASSUME NEW h \in Nat, h > 0, NEW node, Loose(h, node),
           NEW i \in 1 .. Len(node.kids), NEW kid \in Filled(degree)[h - 1]
    PROVE  /\ Loose(h, WithKid(node, i, kid)) /\ WithKid(node, i, kid).items = node.items
           /\ WithKid(node, i, kid).kids[i] = kid
<1> DEFINE K == [node.kids EXCEPT ![i] = kid]  U == Filled(degree)[h - 1]
<1>1. /\ node.items \in Seq(AnyItem) /\ node.level = h
      /\ node.kids \in Seq(U) /\ Len(node.kids) = Len(node.items) + 1
  BY LooseFields
<1>2. K \in Seq(U) /\ Len(K) = Len(node.kids)
      /\ \A n \in 1 .. Len(node.kids) : K[n] = IF n = i THEN kid ELSE node.kids[n]
  <2>1. node.kids \in Seq(U) /\ kid \in U
    BY <1>1
  <2> HIDE DEF U
  <2>2. QED
    BY <2>1, ExceptSeq
<1> HIDE DEF K
<1>3. WithKid(node, i, kid) = Node(h, node.items, K)
  BY <1>1 DEF WithKid, K
<1>4. Loose(h, Node(h, node.items, K))
  BY <1>1, <1>2, MakeLoose
<1>5. Node(h, node.items, K).items = node.items /\ Node(h, node.items, K).kids = K
  BY NodeFields
<1>6. QED
  BY <1>2, <1>3, <1>4, <1>5

\* A loose node with two filled children put in place of child i is loose.
LEMMA LoosePair ==
    ASSUME NEW h \in Nat, h > 0, NEW node, Loose(h, node), NEW i \in 1 .. Len(node.kids),
           NEW l \in Filled(degree)[h - 1], NEW r \in Filled(degree)[h - 1], NEW x \in AnyItem
    PROVE  /\ Loose(h, Pair(node, i, l, x, r))
           /\ IsPair(Pair(node, i, l, x, r), h, node, i, l, x, r)
<1> DEFINE new == Pair(node, i, l, x, r)  U == Filled(degree)[h - 1]
<1>1. /\ Shaped(h, node) /\ node.level = h /\ node.items \in Seq(AnyItem)
      /\ U \subseteq Tree[h - 1] /\ node.kids \in Seq(U) /\ Len(node.kids) \in Nat
      /\ \A n \in 1 .. Len(node.kids) : node.kids[n] \in U
  BY LooseFields
<1>2. IsPair(new, h, node, i, l, x, r)
  BY <1>1, PairFields, Zenon
<1> HIDE DEF new
<1>3. /\ Shaped(h, new) /\ Len(new.kids) = Len(node.kids) + 1
      /\ \A m \in 1 .. Len(node.kids) + 1 :
          new.kids[m] = IF m < i THEN node.kids[m] ELSE IF m = i THEN l
                        ELSE IF m = i + 1 THEN r ELSE node.kids[m - 1]
  BY <1>2, Zenon DEF IsPair
<1>4. \A m \in 1 .. Len(new.kids) : new.kids[m] \in U
  <2> SUFFICES ASSUME NEW m \in 1 .. Len(new.kids)
               PROVE  new.kids[m] \in U
    OBVIOUS
  <2> DEFINE k == Len(node.kids)
  <2>1. k \in Nat /\ m \in 1 .. k + 1 /\ i \in 1 .. k
    BY <1>1, <1>3
  <2> HIDE DEF U
  <2>2. CASE m < i
    <3>1. m \in 1 .. k
      BY <2>1, <2>2
    <3>2. node.kids[m] \in U
      BY <1>1, <3>1
    <3>3. QED
      BY <1>3, <2>1, <2>2, <3>2
  <2>3. CASE m > i + 1
    <3>1. m - 1 \in 1 .. k
      BY <2>1, <2>3
    <3>2. node.kids[m - 1] \in U
      BY <1>1, <3>1
    <3>3. QED
      BY <1>3, <2>1, <2>3, <3>2
  <2>4. CASE m = i \/ m = i + 1
    BY <1>3, <2>1, <2>4 DEF U
  <2>5. QED
    BY <2>1, <2>2, <2>3, <2>4
<1>5. new.kids \in Seq(U)
  <2> DEFINE kids == new.kids
  <2>1. kids \in Seq(Tree[h - 1])
    BY <1>3, TreeFields DEF Shaped
  <2>2. \A m \in 1 .. Len(kids) : kids[m] \in U
    BY <1>4
  <2> HIDE DEF kids, U
  <2>3. kids \in Seq(U)
    <3>1. kids = [m \in 1 .. Len(kids) |-> kids[m]] /\ Len(kids) \in Nat
      BY <2>1
    <3>2. QED
      BY <2>2, <3>1
  <2>4. QED
    BY <2>3 DEF kids
<1>6. Loose(h, new)
  BY <1>3, <1>5 DEF Loose
<1>7. QED
  BY <1>2, <1>6 DEF new

\* A node without one of its items and the child after it.
Base(node, i) == Node(node.level, RemoveAt(node.items, i), RemoveAt(node.kids, i + 1))

\* t is s without element i.
IsWithout(t, s, i, T) ==
    /\ t \in Seq(T) /\ Len(t) = Len(s) - 1
    /\ \A m \in 1 .. Len(s) - 1 : t[m] = IF m < i THEN s[m] ELSE s[m + 1]

\* A sequence with an element taken out, element by element.
LEMMA RemovedAt ==
    ASSUME NEW T, NEW s \in Seq(T), NEW i \in 1 .. Len(s)
    PROVE  IsWithout(RemoveAt(s, i), s, i, T)
<1> DEFINE t == RemoveAt(s, i)  n == Len(s)
<1>1. t \in Seq(T) /\ Len(t) = n - 1
  BY InsertsAndRemoves
<1>2. \A m \in 1 .. i - 1 : t[m] = s[m]
  BY InsertsAndRemoves
<1>3. \A m \in i .. n - 1 : t[m] = s[m + 1]
  BY InsertsAndRemoves
<1>4. n \in Nat
  OBVIOUS
<1> HIDE DEF t, n
<1>5. \A m \in 1 .. n - 1 : t[m] = IF m < i THEN s[m] ELSE s[m + 1]
  BY <1>2, <1>3, <1>4
<1>6. QED
  BY <1>1, <1>5 DEF IsWithout, t, n

\* A node without item i and the child behind it.
LEMMA BaseFields ==
    ASSUME NEW h \in Nat, h > 0, NEW node, Loose(h, node), NEW i \in 1 .. Len(node.items)
    PROVE  /\ Loose(h, Base(node, i))
           /\ Base(node, i).level = h
           /\ IsWithout(Base(node, i).items, node.items, i, AnyItem)
           /\ IsWithout(Base(node, i).kids, node.kids, i + 1, Filled(degree)[h - 1])
           /\ i \in 1 .. Len(Base(node, i).kids)
           /\ Len(Base(node, i).items) = Len(node.items) - 1
<1> DEFINE I == RemoveAt(node.items, i)  K == RemoveAt(node.kids, i + 1)  U == Filled(degree)[h - 1]
<1>1. /\ node.items \in Seq(AnyItem) /\ node.level = h /\ Len(node.items) \in Nat
      /\ node.kids \in Seq(U) /\ Len(node.kids) = Len(node.items) + 1
  BY LooseFields
<1> HIDE DEF U
<1>2. IsWithout(I, node.items, i, AnyItem)
  <2>1. node.items \in Seq(AnyItem)
    BY <1>1
  <2>2. QED
    BY <2>1, RemovedAt
<1>3. IsWithout(K, node.kids, i + 1, U)
  <2>1. node.kids \in Seq(U) /\ i + 1 \in 1 .. Len(node.kids)
    BY <1>1
  <2>2. QED
    BY <2>1, RemovedAt
<1> HIDE DEF I, K
<1>4. /\ I \in Seq(AnyItem) /\ Len(I) = Len(node.items) - 1
      /\ K \in Seq(U) /\ Len(K) = Len(node.kids) - 1
  BY <1>2, <1>3 DEF IsWithout
<1>5. Base(node, i) = Node(h, I, K)
  BY <1>1 DEF Base, I, K
<1>6. Len(K) = Len(I) + 1 /\ i \in 1 .. Len(K)
  BY <1>1, <1>4
<1>7. Loose(h, Node(h, I, K))
  BY <1>4, <1>6, MakeLoose DEF U
<1>8. Node(h, I, K).level = h /\ Node(h, I, K).items = I /\ Node(h, I, K).kids = K
  BY NodeFields
<1>9. QED
  BY <1>2, <1>3, <1>4, <1>5, <1>6, <1>7, <1>8 DEF U

\* A node with another item, another child, or an item and two children.
Altered(s, i, x) == [s EXCEPT ![i] = x]

\* Assignments to an item and to a child.
ItemPut(node, i, x) == [node EXCEPT !.items[i] = x]
KidPut(node, i, kid) == [node EXCEPT !.kids[i] = kid]
Exchanged(node, i, x, j, l, n, r) == [node EXCEPT !.items[i] = x, !.kids[j] = l, !.kids[n] = r]

\* An assignment to an item, as a change of the sequence of items.
LEMMA ItemPutNode ==
    \A h, items, kids, i, x :
        ItemPut(Node(h, items, kids), i, x) = Node(h, Altered(items, i, x), kids)
BY DEF Node, ItemPut, Altered

\* An assignment to a child, as a change of the sequence of children.
LEMMA KidPutNode ==
    \A h, items, kids, i, kid :
        KidPut(Node(h, items, kids), i, kid) = Node(h, items, Altered(kids, i, kid))
BY DEF Node, KidPut, Altered

\* The three assignments of a loan, as changes of the two sequences.
LEMMA NodeChanges ==
    \A h, items, kids, i, j, n, x, l, r :
        Exchanged(Node(h, items, kids), i, x, j, l, n, r)
           = Node(h, Altered(items, i, x), Altered(Altered(kids, j, l), n, r))
<1> SUFFICES ASSUME NEW h, NEW items, NEW kids, NEW i, NEW j, NEW n, NEW x, NEW l, NEW r
             PROVE  Exchanged(Node(h, items, kids), i, x, j, l, n, r)
                       = Node(h, Altered(items, i, x), Altered(Altered(kids, j, l), n, r))
  OBVIOUS
<1> DEFINE a == Node(h, items, kids)
<1> HIDE DEF a
<1>1. Exchanged(a, i, x, j, l, n, r) = KidPut(KidPut(ItemPut(a, i, x), j, l), n, r)
  BY DEF Exchanged, KidPut, ItemPut
<1>2. QED
  BY <1>1, ItemPutNode, KidPutNode DEF a

\* Two neighbouring children and the item between them are others.
Mended(h, node, i, l, x, r) ==
    Node(h, Altered(node.items, i, x), Altered(Altered(node.kids, i, l), i + 1, r))

\* Taking item i and its two neighbours out and putting new ones in is
\* assigning the three.
LEMMA Repaired ==
    ASSUME NEW h \in Nat, h > 0, NEW node, Loose(h, node), NEW i \in 1 .. Len(node.items),
           NEW l \in Filled(degree)[h - 1], NEW r \in Filled(degree)[h - 1], NEW x \in AnyItem
    PROVE  Pair(Base(node, i), i, l, x, r) = Mended(h, node, i, l, x, r)
<1> DEFINE U == Filled(degree)[h - 1]  base == Base(node, i)  new == Pair(base, i, l, x, r)
           I == [node.items EXCEPT ![i] = x]
           K1 == [node.kids EXCEPT ![i] = l]  K == [K1 EXCEPT ![i + 1] = r]
           c == Len(node.items)
<1>1. /\ node.items \in Seq(AnyItem) /\ c \in Nat
      /\ node.kids \in Seq(U) /\ Len(node.kids) = c + 1
  BY LooseFields
<1>2. /\ Loose(h, base) /\ i \in 1 .. Len(base.kids)
      /\ IsWithout(base.items, node.items, i, AnyItem)
      /\ IsWithout(base.kids, node.kids, i + 1, U)
  BY BaseFields
<1> HIDE DEF base
<1>3. Loose(h, new) /\ IsPair(new, h, base, i, l, x, r)
  BY <1>2, LoosePair
<1> HIDE DEF new
<1>4. /\ new = Node(h, new.items, new.kids)
      /\ new.items \in Seq(AnyItem) /\ new.kids \in Seq(U)
  BY <1>3, LooseFields
<1>5. /\ Len(base.items) = c - 1
      /\ \A m \in 1 .. c - 1 : base.items[m] = IF m < i THEN node.items[m] ELSE node.items[m + 1]
      /\ Len(base.kids) = c
      /\ \A m \in 1 .. c : base.kids[m] = IF m < i + 1 THEN node.kids[m] ELSE node.kids[m + 1]
  <2>1. (c + 1) - 1 = c
    BY <1>1
  <2>2. QED
    BY <1>1, <1>2, <2>1 DEF IsWithout
<1>6. /\ Len(new.items) = c /\ Len(new.kids) = c + 1
      /\ \A m \in 1 .. c :
            new.items[m] = IF m < i THEN base.items[m] ELSE IF m = i THEN x ELSE base.items[m - 1]
      /\ \A m \in 1 .. c + 1 :
            new.kids[m] = IF m < i THEN base.kids[m] ELSE IF m = i THEN l
                          ELSE IF m = i + 1 THEN r ELSE base.kids[m - 1]
  <2>1. (c - 1) + 1 = c
    BY <1>1
  <2>2. QED
    BY <1>3, <1>5, <2>1 DEF IsPair
<1>7. /\ I \in Seq(AnyItem) /\ Len(I) = c
      /\ \A m \in 1 .. c : I[m] = IF m = i THEN x ELSE node.items[m]
  <2>1. node.items \in Seq(AnyItem)
    BY <1>1
  <2>2. QED
    BY <2>1, ExceptSeq
<1>8. /\ K \in Seq(U) /\ Len(K) = c + 1
      /\ \A m \in 1 .. c + 1 :
            K[m] = IF m = i + 1 THEN r ELSE IF m = i THEN l ELSE node.kids[m]
  <2>1. node.kids \in Seq(U) /\ i \in 1 .. Len(node.kids) /\ l \in U /\ r \in U
    BY <1>1
  <2> HIDE DEF U
  <2>2. /\ K1 \in Seq(U) /\ Len(K1) = Len(node.kids)
        /\ \A m \in 1 .. Len(node.kids) : K1[m] = IF m = i THEN l ELSE node.kids[m]
    BY <2>1, ExceptSeq
  <2> HIDE DEF K1
  <2>3. i + 1 \in 1 .. Len(K1) /\ K1 \in Seq(U)
    BY <1>1, <2>2
  <2>4. /\ K \in Seq(U) /\ Len(K) = Len(K1)
        /\ \A m \in 1 .. Len(K1) : K[m] = IF m = i + 1 THEN r ELSE K1[m]
    BY <2>1, <2>3, ExceptSeq
  <2> HIDE DEF K
  <2>5. Len(K1) = c + 1
    BY <1>1, <2>2
  <2>6. QED
    BY <1>1, <2>2, <2>4, <2>5
<1> HIDE DEF I, K, U, c
<1>9. new.items = I
  <2>1. ASSUME NEW m \in 1 .. c
        PROVE  new.items[m] = I[m]
    <3>1. CASE m < i
      <4>1. m \in 1 .. c - 1
        BY <1>1, <3>1 DEF c
      <4>2. base.items[m] = node.items[m]
        BY <1>5, <3>1, <4>1, Zenon
      <4>3. QED
        <5>1. new.items[m] = base.items[m]
          BY <1>6, <3>1
        <5>2. I[m] = node.items[m]
          BY <1>7, <3>1
        <5>3. QED
          BY <4>2, <5>1, <5>2
    <3>2. CASE m > i
      <4>1. m - 1 \in 1 .. c - 1 /\ ~(m - 1 < i) /\ (m - 1) + 1 = m
        BY <1>1, <3>2
      <4>2. base.items[m - 1] = node.items[m]
        BY <1>5, <4>1
      <4>3. QED
        BY <1>6, <1>7, <3>2, <4>2
    <3>3. CASE m = i
      BY <1>6, <1>7, <3>3
    <3>4. QED
      BY <3>1, <3>2, <3>3
  <2>2. QED
    BY <1>4, <1>6, <1>7, <2>1, SeqEqual
<1>10. new.kids = K
  <2>1. ASSUME NEW m \in 1 .. c + 1
        PROVE  new.kids[m] = K[m]
    <3>1. CASE m < i
      <4>1. m \in 1 .. c /\ m < i + 1 /\ m # i + 1
        BY <1>1, <3>1 DEF c
      <4>2. base.kids[m] = node.kids[m]
        BY <1>5, <4>1, Zenon
      <4>3. QED
        BY <1>6, <1>8, <3>1, <4>1, <4>2
    <3>2. CASE m > i + 1
      <4>1. m - 1 \in 1 .. c /\ ~(m - 1 < i + 1) /\ (m - 1) + 1 = m /\ ~(m < i) /\ m # i
        BY <1>1, <3>2
      <4>2. base.kids[m - 1] = node.kids[m]
        BY <1>5, <4>1, Zenon
      <4>3. QED
        BY <1>6, <1>8, <3>2, <4>1, <4>2, Zenon
    <3>3. CASE m = i \/ m = i + 1
      BY <1>6, <1>8, <3>3
    <3>4. m < i \/ m > i + 1 \/ m = i \/ m = i + 1
      OBVIOUS
    <3>5. QED
      BY <3>1, <3>2, <3>3, <3>4
  <2>2. QED
    BY <1>4, <1>6, <1>8, <2>1, SeqEqual
<1>11. QED
  BY <1>4, <1>9, <1>10 DEF new, I, K, K1, base, Mended, Altered

\* One child, the item after it and the next child are one.
Fused(h, node, i, kid) ==
    Node(h, RemoveAt(node.items, i), RemoveAt([node.kids EXCEPT ![i] = kid], i + 1))

\* Taking item i and the child behind it out and putting one child in is a
\* merge.
LEMMA MergedIntoOne ==
    ASSUME NEW h \in Nat, h > 0, NEW node, Loose(h, node), NEW i \in 1 .. Len(node.items),
           NEW kid \in Filled(degree)[h - 1]
    PROVE  WithKid(Base(node, i), i, kid) = Fused(h, node, i, kid)
<1> DEFINE U == Filled(degree)[h - 1]  base == Base(node, i)  c == Len(node.items)
           K1 == [node.kids EXCEPT ![i] = kid]  K == RemoveAt(K1, i + 1)
           B == RemoveAt(node.kids, i + 1)  BK == [B EXCEPT ![i] = kid]
<1>1. /\ node.level = h /\ c \in Nat
      /\ node.kids \in Seq(U) /\ Len(node.kids) = c + 1
  BY LooseFields
<1>2. base.items = RemoveAt(node.items, i) /\ base.level = h /\ base.kids = B
  BY <1>1, NodeFields DEF Base
<1> HIDE DEF U, base, c
<1>3. /\ i \in 1 .. c /\ i \in 1 .. Len(node.kids) /\ i + 1 \in 1 .. Len(node.kids)
      /\ kid \in U /\ node.kids \in Seq(U)
  BY <1>1 DEF U, c
<1>4. IsWithout(B, node.kids, i + 1, U)
  BY <1>3, RemovedAt
<1>5. /\ K1 \in Seq(U) /\ Len(K1) = Len(node.kids)
      /\ \A m \in 1 .. Len(node.kids) : K1[m] = IF m = i THEN kid ELSE node.kids[m]
  BY <1>3, ExceptSeq
<1> HIDE DEF K1, B
<1>6. IsWithout(K, K1, i + 1, U)
  <2>1. K1 \in Seq(U) /\ i + 1 \in 1 .. Len(K1)
    BY <1>3, <1>5
  <2>2. QED
    BY <2>1, RemovedAt
<1>7. B \in Seq(U) /\ i \in 1 .. Len(B) /\ Len(B) = c
  BY <1>1, <1>3, <1>4 DEF IsWithout
<1>8. /\ BK \in Seq(U) /\ Len(BK) = Len(B)
      /\ \A m \in 1 .. Len(B) : BK[m] = IF m = i THEN kid ELSE B[m]
  BY <1>3, <1>7, ExceptSeq
<1> HIDE DEF K, BK
<1>9. /\ K \in Seq(U) /\ Len(K) = c
      /\ \A m \in 1 .. c : K[m] = IF m < i + 1 THEN K1[m] ELSE K1[m + 1]
      /\ \A m \in 1 .. c : B[m] = IF m < i + 1 THEN node.kids[m] ELSE node.kids[m + 1]
  <2>1. Len(K1) = c + 1 /\ (c + 1) - 1 = c
    BY <1>1, <1>5
  <2>2. QED
    BY <1>1, <1>4, <1>6, <2>1 DEF IsWithout
<1>10. ASSUME NEW m \in 1 .. c
       PROVE  BK[m] = K[m]
  <2>1. CASE m < i + 1
    <3>1. m \in 1 .. Len(node.kids) /\ m \in 1 .. Len(B)
      BY <1>1, <1>7
    <3>2. K[m] = K1[m] /\ B[m] = node.kids[m]
      BY <1>9, <2>1
    <3>3. QED
      BY <1>5, <1>8, <3>1, <3>2, Zenon
  <2>2. CASE ~(m < i + 1)
    <3>1. m + 1 \in 1 .. Len(node.kids) /\ m \in 1 .. Len(B) /\ m # i /\ m + 1 # i
      BY <1>1, <1>7, <2>2
    <3>2. K[m] = K1[m + 1] /\ B[m] = node.kids[m + 1]
      BY <1>9, <2>2
    <3>3. QED
      BY <1>5, <1>8, <3>1, <3>2
  <2>3. QED
    BY <2>1, <2>2
<1>11. BK = K
  <2>1. Len(BK) = c /\ Len(K) = c
    BY <1>7, <1>8, <1>9
  <2>2. QED
    BY <1>8, <1>9, <1>10, <2>1, SeqEqual
<1>12. WithKid(base, i, kid) = Node(h, RemoveAt(node.items, i), BK)
  BY <1>2 DEF WithKid, BK
<1>13. QED
  BY <1>11, <1>12 DEF base, K, K1, Fused

-----------------------------------------------------------------------------
(* 7. What the change of a piece changes in the whole *)

\* No key in one sequence is above one in another.
Precedes(s, t) == \A x \in ToSet(s), y \in ToSet(t) : x.key <= y.key

\* How many items in Z a concatenation holds, over ++.
LEMMA HitsCats ==
    /\ \A Z : \A s, t \in Seq(AnyItem) : Hits(s ++ t, Z) = Hits(s, Z) + Hits(t, Z)
    /\ \A Z, x : Hits(One(x), Z) = IF x \in Z THEN 1 ELSE 0
    /\ \A Z : Hits(<<>>, Z) = 0
    /\ \A Z : \A s \in Seq(AnyItem) :
          /\ Hits(s, Z) \in Int /\ Hits(s, Z) >= 0 /\ Hits(s, Z) <= Len(s) /\ Len(s) \in Nat
          /\ Hits(s, Z) = 0 <=> ToSet(s) \cap Z = {}
    /\ \A s, t \in Seq(AnyItem) : Len(s ++ t) = Len(s) + Len(t)
    /\ \A x : Len(One(x)) = 1
<1>1. /\ \A Z : \A s, t \in Seq(AnyItem) : Hits(s \o t, Z) = Hits(s, Z) + Hits(t, Z)
      /\ \A Z, x : Hits(<<x>>, Z) = IF x \in Z THEN 1 ELSE 0
      /\ \A Z : Hits(<<>>, Z) = 0
      /\ \A Z : \A s \in Seq(AnyItem) : /\ Hits(s, Z) \in 0 .. Len(s)
                                        /\ Hits(s, Z) = 0 <=> ToSet(s) \cap Z = {}
  BY HitsConcat
<1>2. \A Z : \A s, t \in Seq(AnyItem) : Hits(s ++ t, Z) = Hits(s, Z) + Hits(t, Z)
  BY <1>1, Zenon DEF ++
<1>3. \A Z, x : Hits(One(x), Z) = IF x \in Z THEN 1 ELSE 0
  BY <1>1, Zenon DEF One
<1>4. \A s, t \in Seq(AnyItem) : Len(s ++ t) = Len(s) + Len(t)
  BY Concats
<1>5. \A Z : \A s \in Seq(AnyItem) :
          /\ Hits(s, Z) \in Int /\ Hits(s, Z) >= 0 /\ Hits(s, Z) <= Len(s) /\ Len(s) \in Nat
          /\ Hits(s, Z) = 0 <=> ToSet(s) \cap Z = {}
  <2> SUFFICES ASSUME NEW Z, NEW s \in Seq(AnyItem)
               PROVE  /\ Hits(s, Z) \in Int /\ Hits(s, Z) >= 0 /\ Hits(s, Z) <= Len(s)
                      /\ Len(s) \in Nat
                      /\ Hits(s, Z) = 0 <=> ToSet(s) \cap Z = {}
    OBVIOUS
  <2>1. Hits(s, Z) \in 0 .. Len(s) /\ (Hits(s, Z) = 0 <=> ToSet(s) \cap Z = {})
    BY <1>1
  <2>2. QED
    BY <2>1
<1>6. QED
  BY <1>1, <1>2, <1>3, <1>4, <1>5, LenOne

\* When a concatenation ascends, over ++, and what lies at or below what.
LEMMA OrderedCats ==
    /\ \A s, t \in Seq(AnyItem) :
          Ordered(s ++ t) <=> Ordered(s) /\ Ordered(t) /\ Precedes(s, t)
    /\ Ordered(<<>>) /\ \A x : Ordered(One(x))
    /\ \A s, t, u \in Seq(AnyItem) :
          /\ Precedes(s ++ t, u) <=> Precedes(s, u) /\ Precedes(t, u)
          /\ Precedes(u, s ++ t) <=> Precedes(u, s) /\ Precedes(u, t)
    /\ \A s, t, u : ToSet(t) \subseteq ToSet(s) =>
          /\ Precedes(s, u) => Precedes(t, u)
          /\ Precedes(u, s) => Precedes(u, t)
    /\ \A s : Precedes(<<>>, s) /\ Precedes(s, <<>>)
    /\ \A s, x : /\ Precedes(s, One(x)) <=> \A y \in ToSet(s) : y.key <= x.key
                 /\ Precedes(One(x), s) <=> \A y \in ToSet(s) : x.key <= y.key
<1>1. \A s, t \in Seq(AnyItem) :
          Ordered(s ++ t) <=> Ordered(s) /\ Ordered(t) /\ Precedes(s, t)
  BY OrderedConcat, Zenon DEF ++, Precedes
<1>2. Ordered(<<>>) /\ \A x : Ordered(One(x))
  BY OrderedConcat, Zenon DEF One
<1>3. \A s, t, u \in Seq(AnyItem) :
          /\ Precedes(s ++ t, u) <=> Precedes(s, u) /\ Precedes(t, u)
          /\ Precedes(u, s ++ t) <=> Precedes(u, s) /\ Precedes(u, t)
  <2> SUFFICES ASSUME NEW s \in Seq(AnyItem), NEW t \in Seq(AnyItem), NEW u \in Seq(AnyItem)
               PROVE  /\ Precedes(s ++ t, u) <=> Precedes(s, u) /\ Precedes(t, u)
                      /\ Precedes(u, s ++ t) <=> Precedes(u, s) /\ Precedes(u, t)
    OBVIOUS
  <2>1. ToSet(s ++ t) = ToSet(s) \cup ToSet(t)
    BY CatSets
  <2>2. QED
    BY <2>1 DEF Precedes
<1>4. \A s, t, u : ToSet(t) \subseteq ToSet(s) =>
          /\ Precedes(s, u) => Precedes(t, u)
          /\ Precedes(u, s) => Precedes(u, t)
  BY Zenon DEF Precedes
<1>5. \A s : Precedes(<<>>, s) /\ Precedes(s, <<>>)
  BY CatSets DEF Precedes
<1>6. \A s, x : /\ Precedes(s, One(x)) <=> \A y \in ToSet(s) : y.key <= x.key
                /\ Precedes(One(x), s) <=> \A y \in ToSet(s) : x.key <= y.key
  BY CatSets DEF Precedes
<1>7. QED
  BY <1>1, <1>2, <1>3, <1>4, <1>5, <1>6

\* When three sequences in a row ascend.
LEMMA OrderedAround ==
    ASSUME NEW A \in Seq(AnyItem), NEW s \in Seq(AnyItem), NEW B \in Seq(AnyItem)
    PROVE  Ordered((A ++ s) ++ B) <=>
              /\ Ordered(A) /\ Ordered(s) /\ Ordered(B)
              /\ Precedes(A, s) /\ Precedes(A, B) /\ Precedes(s, B)
<1>1. A ++ s \in Seq(AnyItem)
  BY ItemCats
<1>2. Ordered((A ++ s) ++ B) <=> Ordered(A ++ s) /\ Ordered(B) /\ Precedes(A ++ s, B)
  BY <1>1, OrderedCats
<1>3. QED
  BY <1>2, OrderedCats

\* A sequence of items and what lies around it.
IsAround(S, A, s, B) ==
    /\ S \in Seq(AnyItem)
    /\ ToSet(S) = ToSet(A) \cup ToSet(s) \cup ToSet(B)
    /\ Len(S) = Len(A) + Len(s) + Len(B)
    /\ \A Z : Hits(S, Z) = Hits(A, Z) + Hits(s, Z) + Hits(B, Z)
    /\ S = A ++ (s ++ B)

\* Counts, elements and order of a sequence with a piece singled out.
LEMMA AroundFacts ==
    ASSUME NEW A \in Seq(AnyItem), NEW s \in Seq(AnyItem), NEW B \in Seq(AnyItem)
    PROVE  IsAround((A ++ s) ++ B, A, s, B)
<1>1. A ++ s \in Seq(AnyItem)
  BY ItemCats
<1> DEFINE u == A ++ s
<1>2. ToSet(u) = ToSet(A) \cup ToSet(s) /\ Len(u) = Len(A) + Len(s)
      /\ \A Z : Hits(u, Z) = Hits(A, Z) + Hits(s, Z)
  BY CatSets, HitsCats
<1>3. u ++ B = A ++ (s ++ B)
  BY ItemCats
<1> HIDE DEF u
<1>4. u \in Seq(AnyItem)
  BY <1>1 DEF u
<1>5. u ++ B \in Seq(AnyItem) /\ ToSet(u ++ B) = ToSet(u) \cup ToSet(B)
      /\ Len(u ++ B) = Len(u) + Len(B)
      /\ \A Z : Hits(u ++ B, Z) = Hits(u, Z) + Hits(B, Z)
  BY <1>4, ItemCats, CatSets, HitsCats, Zenon
<1>6. IsAround(u ++ B, A, s, B)
  BY <1>2, <1>3, <1>5 DEF IsAround
<1>7. QED
  BY <1>6 DEF u

\* The items with a key.
Keyed(k) == {x \in AnyItem : x.key = k}

\* What becomes of the items of a tree, from s to t, and of how often they are
\* held, from c to e: the items X come in, each held already, some go, there
\* are b more with key k, and the order is kept.
Changes(s, t, c, e, X, k, b) ==
    /\ t \in Seq(AnyItem) /\ Ordered(t) /\ X \subseteq ToSet(t) /\ ToSet(t) \subseteq ToSet(s) \cup X
    /\ Len(t) = Len(s) + b
    /\ \A j \in Key : Hits(t, Keyed(j)) = Hits(s, Keyed(j)) + IF j = k THEN b ELSE 0
    /\ e \in Holdings
    /\ \A y \in AnyItem : e[y] = c[y] + Hits(t, {y}) - Hits(s, {y}) - IF y \in X THEN 1 ELSE 0

\* A change of a piece is a change of the whole, when what was added fits
\* around it.
LEMMA ChangesWithin ==
    ASSUME NEW A \in Seq(AnyItem), NEW B \in Seq(AnyItem), NEW s \in Seq(AnyItem), NEW t,
           NEW c \in Holdings, NEW e, NEW X, NEW k, NEW b \in Int, Changes(s, t, c, e, X, k, b),
           Ordered((A ++ s) ++ B),
           \A x \in X : Precedes(A, One(x)) /\ Precedes(One(x), B)
    PROVE  Changes((A ++ s) ++ B, (A ++ t) ++ B, c, e, X, k, b)
<1> DEFINE S == (A ++ s) ++ B  T == (A ++ t) ++ B
<1>1. t \in Seq(AnyItem) /\ Ordered(t) /\ X \subseteq ToSet(t) /\ ToSet(t) \subseteq ToSet(s) \cup X
  BY DEF Changes
<1>2. /\ S \in Seq(AnyItem)
      /\ ToSet(S) = ToSet(A) \cup ToSet(s) \cup ToSet(B)
      /\ Len(S) = Len(A) + Len(s) + Len(B)
      /\ \A Z : Hits(S, Z) = Hits(A, Z) + Hits(s, Z) + Hits(B, Z)
  <2>1. IsAround(S, A, s, B)
    BY AroundFacts
  <2> HIDE DEF S
  <2>2. QED
    BY <2>1 DEF IsAround
<1>3. /\ T \in Seq(AnyItem)
      /\ ToSet(T) = ToSet(A) \cup ToSet(t) \cup ToSet(B)
      /\ Len(T) = Len(A) + Len(t) + Len(B)
      /\ \A Z : Hits(T, Z) = Hits(A, Z) + Hits(t, Z) + Hits(B, Z)
  <2>1. IsAround(T, A, t, B)
    BY <1>1, AroundFacts
  <2> HIDE DEF T
  <2>2. QED
    BY <2>1 DEF IsAround
<1>4. Ordered(T)
  <2>1. /\ Ordered(A) /\ Ordered(B) /\ Precedes(A, s) /\ Precedes(A, B) /\ Precedes(s, B)
    BY OrderedAround
  <2>2. \A x \in X : /\ \A y \in ToSet(A) : y.key <= x.key
                     /\ \A y \in ToSet(B) : x.key <= y.key
    BY OrderedCats
  <2>3. Precedes(A, t) /\ Precedes(t, B)
    BY <1>1, <2>1, <2>2 DEF Precedes
  <2>4. QED
    BY <1>1, <2>1, <2>3, OrderedAround
<1>5. \A Z : /\ Hits(s, Z) \in Int /\ Hits(t, Z) \in Int /\ Hits(A, Z) \in Int /\ Hits(B, Z) \in Int
             /\ Len(s) \in Int /\ Len(t) \in Int /\ Len(A) \in Int /\ Len(B) \in Int
  BY <1>1, HitsCats, SMTT(20)
<1> HIDE DEF S, T
<1>6. Len(T) = Len(S) + b
  BY <1>2, <1>3, <1>5 DEF Changes
<1>7. \A j \in Key : Hits(T, Keyed(j)) = Hits(S, Keyed(j)) + IF j = k THEN b ELSE 0
  <2> SUFFICES ASSUME NEW j \in Key
               PROVE  Hits(T, Keyed(j)) = Hits(S, Keyed(j)) + IF j = k THEN b ELSE 0
    OBVIOUS
  <2>1. Hits(t, Keyed(j)) = Hits(s, Keyed(j)) + IF j = k THEN b ELSE 0
    BY DEF Changes
  <2>2. QED
    BY <1>2, <1>3, <1>5, <2>1, SMTT(20)
<1>8. \A y \in AnyItem :
         e[y] = c[y] + Hits(T, {y}) - Hits(S, {y}) - IF y \in X THEN 1 ELSE 0
  <2> SUFFICES ASSUME NEW y \in AnyItem
               PROVE  e[y] = c[y] + Hits(T, {y}) - Hits(S, {y}) - IF y \in X THEN 1 ELSE 0
    OBVIOUS
  <2>1. e[y] = c[y] + Hits(t, {y}) - Hits(s, {y}) - IF y \in X THEN 1 ELSE 0
    BY Zenon DEF Changes
  <2>2. c[y] \in Int
    BY DEF Holdings
  <2>3. /\ Hits(T, {y}) = Hits(A, {y}) + Hits(t, {y}) + Hits(B, {y})
        /\ Hits(S, {y}) = Hits(A, {y}) + Hits(s, {y}) + Hits(B, {y})
    BY <1>2, <1>3
  <2>4. QED
    BY <1>5, <2>1, <2>2, <2>3
<1>9. e \in Holdings
  BY DEF Changes
<1>10. Changes(S, T, c, e, X, k, b)
  BY <1>1, <1>2, <1>3, <1>4, <1>6, <1>7, <1>8, <1>9 DEF Changes
<1>11. QED
  BY <1>10 DEF S, T

\* Counting one reference to y up or down changes the count of y alone.
LEMMA CountedFacts ==
    ASSUME NEW c \in Holdings, NEW y \in AnyItem, NEW by \in Int
    PROVE  /\ Counted(c, y, by) \in Holdings
           /\ \A z \in AnyItem : Counted(c, y, by)[z] = c[z] + IF z = y THEN by ELSE 0
<1>1. \A z \in AnyItem : c[z] \in Int
  BY DEF Holdings
<1>2. QED
  BY <1>1 DEF Counted, Holdings

\* The items with a key, and the items that are one.
LEMMA KeyedItems ==
    \A x \in AnyItem : /\ x.key \in Key /\ \A j : x \in Keyed(j) <=> x.key = j
                       /\ \A z : x \in {z} <=> x = z
BY ItemsAreKeyed DEF Keyed

\* S is A, x and B: its order, counts and elements.
IsAroundOne(S, A, x, B) ==
    /\ S \in Seq(AnyItem)
    /\ ToSet(S) = ToSet(A) \cup {x} \cup ToSet(B)
    /\ Len(S) = Len(A) + 1 + Len(B)
    /\ \A Z : Hits(S, Z) = Hits(A, Z) + (IF x \in Z THEN 1 ELSE 0) + Hits(B, Z)

\* A sequence with one item singled out.
LEMMA AroundOne ==
    ASSUME NEW A \in Seq(AnyItem), NEW x \in AnyItem, NEW B \in Seq(AnyItem)
    PROVE  IsAroundOne((A ++ One(x)) ++ B, A, x, B)
<1> DEFINE S == (A ++ One(x)) ++ B  u == One(x)
<1>1. u \in Seq(AnyItem)
  BY ItemCats
<1>2. IsAround(S, A, u, B)
  BY <1>1, AroundFacts
<1>3. ToSet(u) = {x} /\ Len(u) = 1 /\ \A Z : Hits(u, Z) = IF x \in Z THEN 1 ELSE 0
  BY CatSets, HitsCats
<1> HIDE DEF S, u
<1>4. IsAroundOne(S, A, x, B)
  BY <1>2, <1>3 DEF IsAround, IsAroundOne
<1>5. QED
  BY <1>4 DEF S

\* An item goes in between others.
LEMMA ItemAdded ==
    ASSUME NEW A \in Seq(AnyItem), NEW B \in Seq(AnyItem), NEW x \in AnyItem, NEW c \in Holdings,
           Ordered(A ++ B), Precedes(A, One(x)), Precedes(One(x), B)
    PROVE  Changes(A ++ B, (A ++ One(x)) ++ B, c, c, {x}, x.key, 1)
<1> DEFINE S == A ++ B  T == (A ++ One(x)) ++ B
<1>1. One(x) \in Seq(AnyItem)
  BY ItemCats
<1>2. /\ S \in Seq(AnyItem) /\ ToSet(S) = ToSet(A) \cup ToSet(B) /\ Len(S) = Len(A) + Len(B)
      /\ \A Z : Hits(S, Z) = Hits(A, Z) + Hits(B, Z)
  BY ItemCats, CatSets, HitsCats, Zenon
<1>3. IsAroundOne(T, A, x, B)
  BY AroundOne
<1>4. Ordered(T)
  <2>1. Ordered(A) /\ Ordered(B) /\ Precedes(A, B) /\ Ordered(One(x))
    BY OrderedCats
  <2>2. QED
    BY <1>1, <2>1, OrderedAround
<1> HIDE DEF S, T
<1>5. /\ ToSet(T) = ToSet(S) \cup {x} /\ Len(T) = Len(A) + 1 + Len(B)
      /\ \A Z : Hits(T, Z) = Hits(A, Z) + (IF x \in Z THEN 1 ELSE 0) + Hits(B, Z)
  BY <1>2, <1>3 DEF IsAroundOne
<1>6. /\ Len(A) \in Int /\ Len(B) \in Int
      /\ \A Z : Hits(A, Z) \in Int /\ Hits(B, Z) \in Int
  BY HitsCats
<1>7. Len(T) = Len(S) + 1
  BY <1>2, <1>5, <1>6
<1>8. \A j \in Key : Hits(T, Keyed(j)) = Hits(S, Keyed(j)) + IF j = x.key THEN 1 ELSE 0
  BY <1>2, <1>5, <1>6, KeyedItems, SMTT(20)
<1>9. ASSUME NEW y \in AnyItem
      PROVE  c[y] = c[y] + Hits(T, {y}) - Hits(S, {y}) - IF y \in {x} THEN 1 ELSE 0
  <2>1. c[y] \in Int
    BY DEF Holdings
  <2>2. x \in {y} <=> y \in {x}
    OBVIOUS
  <2>3. /\ Hits(T, {y}) = Hits(A, {y}) + (IF x \in {y} THEN 1 ELSE 0) + Hits(B, {y})
        /\ Hits(S, {y}) = Hits(A, {y}) + Hits(B, {y})
        /\ Hits(A, {y}) \in Int /\ Hits(B, {y}) \in Int
    BY <1>2, <1>5, <1>6, Zenon
  <2>4. QED
    BY <2>1, <2>2, <2>3
<1>10. T \in Seq(AnyItem)
  BY <1>3 DEF IsAroundOne
<1>11. Changes(S, T, c, c, {x}, x.key, 1)
  BY <1>4, <1>5, <1>7, <1>8, <1>9, <1>10 DEF Changes
<1>12. QED
  BY <1>11 DEF S, T

\* An item takes the place of one with its key.
LEMMA ItemReplaced ==
    ASSUME NEW A \in Seq(AnyItem), NEW B \in Seq(AnyItem), NEW x \in AnyItem, NEW y \in AnyItem,
           NEW c \in Holdings, y.key = x.key, Ordered((A ++ One(y)) ++ B)
    PROVE  Changes((A ++ One(y)) ++ B, (A ++ One(x)) ++ B, c, Counted(c, y, -1), {x}, x.key, 0)
<1> DEFINE S == (A ++ One(y)) ++ B  T == (A ++ One(x)) ++ B  e == Counted(c, y, -1)
<1>1. One(x) \in Seq(AnyItem) /\ One(y) \in Seq(AnyItem)
  BY ItemCats
<1>2. IsAroundOne(S, A, y, B) /\ IsAroundOne(T, A, x, B)
  BY AroundOne
<1>3. Ordered(T)
  <2>1. Ordered(A) /\ Ordered(B) /\ Precedes(A, B) /\ Precedes(A, One(y)) /\ Precedes(One(y), B)
    BY <1>1, OrderedAround
  <2>2. Ordered(One(x)) /\ Precedes(A, One(x)) /\ Precedes(One(x), B)
    BY <2>1, OrderedCats
  <2>3. QED
    BY <1>1, <2>1, <2>2, OrderedAround
<1>4. e \in Holdings /\ \A z \in AnyItem : e[z] = c[z] + IF z = y THEN -1 ELSE 0
  BY CountedFacts, SMTT(20)
<1> HIDE DEF S, T, e
<1>5. /\ ToSet(T) \subseteq ToSet(S) \cup {x} /\ x \in ToSet(T) /\ Len(T) = Len(A) + 1 + Len(B)
      /\ Len(S) = Len(A) + 1 + Len(B)
      /\ \A Z : Hits(T, Z) = Hits(A, Z) + (IF x \in Z THEN 1 ELSE 0) + Hits(B, Z)
      /\ \A Z : Hits(S, Z) = Hits(A, Z) + (IF y \in Z THEN 1 ELSE 0) + Hits(B, Z)
  BY <1>2 DEF IsAroundOne
<1>6. /\ Len(A) \in Int /\ Len(B) \in Int
      /\ \A Z : Hits(A, Z) \in Int /\ Hits(B, Z) \in Int
  BY HitsCats
<1>7. Len(T) = Len(S) + 0
  BY <1>5, <1>6
<1>8. ASSUME NEW j \in Key
      PROVE  Hits(T, Keyed(j)) = Hits(S, Keyed(j)) + IF j = x.key THEN 0 ELSE 0
  <2>1. x \in Keyed(j) <=> y \in Keyed(j)
    BY KeyedItems
  <2>2. QED
    BY <1>5, <1>6, <2>1, SMTT(20)
<1>9. ASSUME NEW z \in AnyItem
      PROVE  e[z] = c[z] + Hits(T, {z}) - Hits(S, {z}) - IF z \in {x} THEN 1 ELSE 0
  <2>1. c[z] \in Int
    BY DEF Holdings
  <2>2. (x \in {z} <=> z \in {x}) /\ (y \in {z} <=> z = y)
    OBVIOUS
  <2>3. /\ Hits(T, {z}) = Hits(A, {z}) + (IF x \in {z} THEN 1 ELSE 0) + Hits(B, {z})
        /\ Hits(S, {z}) = Hits(A, {z}) + (IF y \in {z} THEN 1 ELSE 0) + Hits(B, {z})
        /\ Hits(A, {z}) \in Int /\ Hits(B, {z}) \in Int
    BY <1>5, <1>6, Zenon
  <2>4. e[z] = c[z] + IF z = y THEN -1 ELSE 0
    BY <1>4
  <2>5. QED
    BY <2>1, <2>2, <2>3, <2>4
<1>10. T \in Seq(AnyItem)
  BY <1>2 DEF IsAroundOne
<1>11. Changes(S, T, c, e, {x}, x.key, 0)
  BY <1>3, <1>4, <1>5, <1>7, <1>8, <1>9, <1>10, Zenon DEF Changes
<1>12. QED
  BY <1>11 DEF S, T, e

\* An item goes.
LEMMA ItemRemoved ==
    ASSUME NEW A \in Seq(AnyItem), NEW B \in Seq(AnyItem), NEW y \in AnyItem,
           NEW c \in Holdings, Ordered((A ++ One(y)) ++ B)
    PROVE  Changes((A ++ One(y)) ++ B, A ++ B, c, Counted(c, y, -1), {}, y.key, -1)
<1> DEFINE S == (A ++ One(y)) ++ B  T == A ++ B  e == Counted(c, y, -1)
<1>1. One(y) \in Seq(AnyItem)
  BY ItemCats
<1>2. IsAroundOne(S, A, y, B)
  BY AroundOne
<1>3. Ordered(T)
  <2>1. Ordered(A) /\ Ordered(B) /\ Precedes(A, B)
    BY <1>1, OrderedAround
  <2>2. QED
    BY <2>1, OrderedCats
<1>4. e \in Holdings /\ \A z \in AnyItem : e[z] = c[z] + IF z = y THEN -1 ELSE 0
  BY CountedFacts
<1>a. /\ T \in Seq(AnyItem) /\ ToSet(T) = ToSet(A) \cup ToSet(B) /\ Len(T) = Len(A) + Len(B)
      /\ \A Z : Hits(T, Z) = Hits(A, Z) + Hits(B, Z)
  BY ItemCats, CatSets, HitsCats, Zenon
<1> HIDE DEF S, T, e
<1>5. /\ ToSet(T) \subseteq ToSet(S)
      /\ Len(S) = Len(A) + 1 + Len(B)
      /\ \A Z : Hits(S, Z) = Hits(A, Z) + (IF y \in Z THEN 1 ELSE 0) + Hits(B, Z)
  BY <1>2, <1>a DEF IsAroundOne
<1>6. /\ Len(A) \in Int /\ Len(B) \in Int
      /\ \A Z : Hits(A, Z) \in Int /\ Hits(B, Z) \in Int
  BY HitsCats
<1>7. Len(T) = Len(S) + -1
  BY <1>5, <1>6, <1>a
<1>8. ASSUME NEW j \in Key
      PROVE  Hits(T, Keyed(j)) = Hits(S, Keyed(j)) + IF j = y.key THEN -1 ELSE 0
  <2> DEFINE Z == Keyed(j)
  <2>1. y \in Z <=> j = y.key
    BY KeyedItems
  <2> HIDE DEF Z
  <2>2. /\ Hits(T, Z) = Hits(A, Z) + Hits(B, Z)
        /\ Hits(S, Z) = Hits(A, Z) + (IF y \in Z THEN 1 ELSE 0) + Hits(B, Z)
        /\ Hits(A, Z) \in Int /\ Hits(B, Z) \in Int
    BY <1>5, <1>6, <1>a
  <2>3. Hits(T, Z) = Hits(S, Z) + IF j = y.key THEN -1 ELSE 0
    BY <2>1, <2>2
  <2>4. QED
    BY <2>3 DEF Z
<1>9. ASSUME NEW z \in AnyItem
      PROVE  e[z] = c[z] + Hits(T, {z}) - Hits(S, {z}) - IF z \in {} THEN 1 ELSE 0
  <2>1. c[z] \in Int
    BY DEF Holdings
  <2>2. (y \in {z} <=> z = y)
    OBVIOUS
  <2>3. /\ Hits(T, {z}) = Hits(A, {z}) + Hits(B, {z})
        /\ Hits(S, {z}) = Hits(A, {z}) + (IF y \in {z} THEN 1 ELSE 0) + Hits(B, {z})
        /\ Hits(A, {z}) \in Int /\ Hits(B, {z}) \in Int
    BY <1>5, <1>6, <1>a, Zenon
  <2>4. e[z] = c[z] + IF z = y THEN -1 ELSE 0
    BY <1>4
  <2>5. QED
    BY <2>1, <2>2, <2>3, <2>4
<1>10. Changes(S, T, c, e, {}, y.key, -1)
  BY <1>3, <1>4, <1>5, <1>7, <1>8, <1>9, <1>a DEF Changes
<1>11. QED
  BY <1>10 DEF S, T, e

\* The item before y comes up in its place and goes below.
LEMMA LastStandsIn ==
    ASSUME NEW l \in Seq(AnyItem), NEW r \in Seq(AnyItem), NEW w \in Seq(AnyItem),
           NEW p \in AnyItem, NEW y \in AnyItem, l = w ++ One(p), NEW c \in Holdings,
           Ordered((l ++ One(y)) ++ r), NEW t, NEW e,
           Changes(l, t, Counted(Counted(c, y, -1), p, 1), e, {}, p.key, -1)
    PROVE  Changes((l ++ One(y)) ++ r, (t ++ One(p)) ++ r, c, e, {}, y.key, -1)
<1> DEFINE S == (l ++ One(y)) ++ r  T == (t ++ One(p)) ++ r  d == Counted(Counted(c, y, -1), p, 1)
<1>1. t \in Seq(AnyItem) /\ Ordered(t) /\ ToSet(t) \subseteq ToSet(l) /\ e \in Holdings
  BY DEF Changes
<1>2. Len(t) = Len(l) + -1
  BY DEF Changes
<1>3. IsAroundOne(S, l, y, r) /\ IsAroundOne(T, t, p, r)
  BY <1>1, AroundOne
<1>4. p \in ToSet(l) /\ Precedes(l, One(p))
  <2>1. One(p) \in Seq(AnyItem) /\ ToSet(One(p)) = {p}
    BY ItemCats, CatSets
  <2>2. /\ Ordered(l) /\ Ordered(r)
    <3>1. One(y) \in Seq(AnyItem)
      BY ItemCats
    <3>2. QED
      BY <3>1, OrderedAround
  <2>3. ToSet(l) = ToSet(w) \cup {p}
    BY <2>1, CatSets
  <2>4. Precedes(w, One(p))
    BY <2>1, <2>2, OrderedCats
  <2>5. p.key <= p.key
    BY ItemsAreKeyed
  <2>6. QED
    BY <2>1, <2>3, <2>4, <2>5 DEF Precedes
<1>5. Ordered(T)
  <2>1. One(y) \in Seq(AnyItem) /\ One(p) \in Seq(AnyItem) /\ ToSet(One(p)) = {p}
    BY ItemCats, CatSets
  <2>2. Ordered(l) /\ Ordered(r) /\ Precedes(l, r)
    BY <2>1, OrderedAround
  <2>3. Precedes(t, r) /\ Precedes(t, One(p)) /\ Precedes(One(p), r)
    BY <1>1, <1>4, <2>1, <2>2 DEF Precedes
  <2>4. Ordered(One(p))
    BY OrderedCats
  <2>5. QED
    BY <1>1, <2>1, <2>2, <2>3, <2>4, OrderedAround
<1>6. ASSUME NEW z \in AnyItem
      PROVE  /\ c[z] \in Int /\ d[z] \in Int
             /\ d[z] = (c[z] + IF z = y THEN -1 ELSE 0) + IF z = p THEN 1 ELSE 0
  <2>1. c[z] \in Int
    BY DEF Holdings
  <2> DEFINE f == Counted(c, y, -1)
  <2>2. f \in Holdings /\ f[z] = c[z] + IF z = y THEN -1 ELSE 0
    BY CountedFacts
  <2> HIDE DEF f
  <2>3. Counted(f, p, 1) \in Holdings /\ Counted(f, p, 1)[z] = f[z] + IF z = p THEN 1 ELSE 0
    BY <2>2, CountedFacts
  <2>4. Counted(f, p, 1)[z] \in Int
    BY <2>3 DEF Holdings
  <2>5. QED
    BY <2>1, <2>2, <2>3, <2>4 DEF f
<1>7. /\ \A j \in Key : Hits(t, Keyed(j)) = Hits(l, Keyed(j)) + IF j = p.key THEN -1 ELSE 0
      /\ \A z \in AnyItem : e[z] = d[z] + Hits(t, {z}) - Hits(l, {z}) - IF z \in {} THEN 1 ELSE 0
  BY DEF Changes
<1> HIDE DEF S, T, d
<1>8. /\ T \in Seq(AnyItem) /\ ToSet(T) \subseteq ToSet(S)
      /\ Len(S) = Len(l) + 1 + Len(r) /\ Len(T) = Len(t) + 1 + Len(r)
      /\ \A Z : Hits(S, Z) = Hits(l, Z) + (IF y \in Z THEN 1 ELSE 0) + Hits(r, Z)
      /\ \A Z : Hits(T, Z) = Hits(t, Z) + (IF p \in Z THEN 1 ELSE 0) + Hits(r, Z)
  BY <1>1, <1>3, <1>4 DEF IsAroundOne
<1>9. /\ Len(l) \in Int /\ Len(r) \in Int
      /\ \A Z : Hits(l, Z) \in Int /\ Hits(r, Z) \in Int /\ Hits(t, Z) \in Int
  BY <1>1, HitsCats, SMTT(20)
<1>10. Len(T) = Len(S) + -1
  BY <1>2, <1>8, <1>9
<1>11. ASSUME NEW j \in Key
       PROVE  Hits(T, Keyed(j)) = Hits(S, Keyed(j)) + IF j = y.key THEN -1 ELSE 0
  <2>1. (y \in Keyed(j) <=> y.key = j) /\ (p \in Keyed(j) <=> p.key = j)
    BY KeyedItems
  <2> DEFINE Z == Keyed(j)
  <2>2. Hits(t, Z) = Hits(l, Z) + IF j = p.key THEN -1 ELSE 0
    BY <1>7
  <2>3. (y \in Z <=> y.key = j) /\ (p \in Z <=> p.key = j)
    BY <2>1
  <2> HIDE DEF Z
  <2>4. /\ Hits(S, Z) = Hits(l, Z) + (IF y \in Z THEN 1 ELSE 0) + Hits(r, Z)
        /\ Hits(T, Z) = Hits(t, Z) + (IF p \in Z THEN 1 ELSE 0) + Hits(r, Z)
        /\ Hits(l, Z) \in Int /\ Hits(r, Z) \in Int /\ Hits(t, Z) \in Int
    BY <1>8, <1>9, Zenon
  <2>5. Hits(T, Z) = Hits(S, Z) + IF j = y.key THEN -1 ELSE 0
    BY <2>2, <2>3, <2>4, SMTT(20)
  <2>6. QED
    BY <2>5 DEF Z
<1>12. ASSUME NEW z \in AnyItem
       PROVE  e[z] = c[z] + Hits(T, {z}) - Hits(S, {z}) - IF z \in {} THEN 1 ELSE 0
  <2>1. (y \in {z} <=> z = y) /\ (p \in {z} <=> z = p)
    OBVIOUS
  <2>2. /\ Hits(S, {z}) = Hits(l, {z}) + (IF y \in {z} THEN 1 ELSE 0) + Hits(r, {z})
        /\ Hits(T, {z}) = Hits(t, {z}) + (IF p \in {z} THEN 1 ELSE 0) + Hits(r, {z})
        /\ Hits(l, {z}) \in Int /\ Hits(r, {z}) \in Int /\ Hits(t, {z}) \in Int
    BY <1>8, <1>9, Zenon
  <2>3. e[z] = d[z] + Hits(t, {z}) - Hits(l, {z})
    <3>1. e[z] = d[z] + Hits(t, {z}) - Hits(l, {z}) - IF z \in {} THEN 1 ELSE 0
      BY <1>7
    <3>2. d[z] \in Int
      BY <1>6
    <3>3. QED
      BY <2>2, <3>1, <3>2
  <2> DEFINE u == IF z = y THEN 1 ELSE 0  v == IF z = p THEN 1 ELSE 0
             ss == Hits(S, {z})  gg == Hits(T, {z})  ll == Hits(l, {z})
             rr == Hits(r, {z})  tt == Hits(t, {z})  cc == c[z]  dd == d[z]  ee == e[z]
  <2>4. /\ ss = ll + u + rr /\ gg = tt + v + rr /\ ee = dd + tt - ll
        /\ ll \in Int /\ rr \in Int /\ tt \in Int /\ cc \in Int /\ u \in Int /\ v \in Int
    BY <1>6, <2>1, <2>2, <2>3
  <2>5. dd = (cc - u) + v
    BY <1>6
  <2>6. QED
    <3> DEFINE o == IF z \in {} THEN 1 ELSE 0
    <3>1. o = 0
      OBVIOUS
    <3> HIDE DEF u, v, ss, gg, ll, rr, tt, cc, dd, ee, o
    <3>2. ee = cc + gg - ss - o
      BY <2>4, <2>5, <3>1
    <3>3. QED
      BY <3>2 DEF cc, gg, ss, ee, o
<1>13. Changes(S, T, c, e, {}, y.key, -1)
  BY <1>1, <1>5, <1>8, <1>10, <1>11, <1>12 DEF Changes
<1>14. QED
  BY <1>13 DEF S, T

\* The item after y comes up in its place and goes below.
LEMMA FirstStandsIn ==
    ASSUME NEW l \in Seq(AnyItem), NEW r \in Seq(AnyItem), NEW w \in Seq(AnyItem),
           NEW p \in AnyItem, NEW y \in AnyItem, r = One(p) ++ w, NEW c \in Holdings,
           Ordered((l ++ One(y)) ++ r), NEW t, NEW e,
           Changes(r, t, Counted(Counted(c, y, -1), p, 1), e, {}, p.key, -1)
    PROVE  Changes((l ++ One(y)) ++ r, (l ++ One(p)) ++ t, c, e, {}, y.key, -1)
<1> DEFINE S == (l ++ One(y)) ++ r  T == (l ++ One(p)) ++ t  d == Counted(Counted(c, y, -1), p, 1)
<1>1. t \in Seq(AnyItem) /\ Ordered(t) /\ ToSet(t) \subseteq ToSet(r) /\ e \in Holdings
  BY DEF Changes
<1>2. Len(t) = Len(r) + -1
  BY DEF Changes
<1>3. IsAroundOne(S, l, y, r) /\ IsAroundOne(T, l, p, t)
  BY <1>1, AroundOne
<1>4. p \in ToSet(r) /\ Precedes(One(p), r)
  <2>1. One(p) \in Seq(AnyItem) /\ ToSet(One(p)) = {p}
    BY ItemCats, CatSets
  <2>2. /\ Ordered(l) /\ Ordered(r)
    <3>1. One(y) \in Seq(AnyItem)
      BY ItemCats
    <3>2. QED
      BY <3>1, OrderedAround
  <2>3. ToSet(r) = ToSet(w) \cup {p}
    BY <2>1, CatSets
  <2>4. Precedes(One(p), w)
    BY <2>1, <2>2, OrderedCats
  <2>5. p.key <= p.key
    BY ItemsAreKeyed
  <2>6. QED
    BY <2>1, <2>3, <2>4, <2>5 DEF Precedes
<1>5. Ordered(T)
  <2>1. One(y) \in Seq(AnyItem) /\ One(p) \in Seq(AnyItem) /\ ToSet(One(p)) = {p}
    BY ItemCats, CatSets
  <2>2. Ordered(l) /\ Ordered(r) /\ Precedes(l, r)
    BY <2>1, OrderedAround
  <2>3. Precedes(l, t) /\ Precedes(l, One(p)) /\ Precedes(One(p), t)
    BY <1>1, <1>4, <2>1, <2>2 DEF Precedes
  <2>4. Ordered(One(p))
    BY OrderedCats
  <2>5. QED
    BY <1>1, <2>1, <2>2, <2>3, <2>4, OrderedAround
<1>6. ASSUME NEW z \in AnyItem
      PROVE  /\ c[z] \in Int /\ d[z] \in Int
             /\ d[z] = (c[z] + IF z = y THEN -1 ELSE 0) + IF z = p THEN 1 ELSE 0
  <2>1. c[z] \in Int
    BY DEF Holdings
  <2> DEFINE f == Counted(c, y, -1)
  <2>2. f \in Holdings /\ f[z] = c[z] + IF z = y THEN -1 ELSE 0
    BY CountedFacts
  <2> HIDE DEF f
  <2>3. Counted(f, p, 1) \in Holdings /\ Counted(f, p, 1)[z] = f[z] + IF z = p THEN 1 ELSE 0
    BY <2>2, CountedFacts
  <2>4. Counted(f, p, 1)[z] \in Int
    BY <2>3 DEF Holdings
  <2>5. QED
    BY <2>1, <2>2, <2>3, <2>4 DEF f
<1>7. /\ \A j \in Key : Hits(t, Keyed(j)) = Hits(r, Keyed(j)) + IF j = p.key THEN -1 ELSE 0
      /\ \A z \in AnyItem : e[z] = d[z] + Hits(t, {z}) - Hits(r, {z}) - IF z \in {} THEN 1 ELSE 0
  BY DEF Changes
<1> HIDE DEF S, T, d
<1>8. /\ T \in Seq(AnyItem) /\ ToSet(T) \subseteq ToSet(S)
      /\ Len(S) = Len(l) + 1 + Len(r) /\ Len(T) = Len(l) + 1 + Len(t)
      /\ \A Z : Hits(S, Z) = Hits(l, Z) + (IF y \in Z THEN 1 ELSE 0) + Hits(r, Z)
      /\ \A Z : Hits(T, Z) = Hits(l, Z) + (IF p \in Z THEN 1 ELSE 0) + Hits(t, Z)
  BY <1>1, <1>3, <1>4 DEF IsAroundOne
<1>9. /\ Len(l) \in Int /\ Len(r) \in Int
      /\ \A Z : Hits(l, Z) \in Int /\ Hits(r, Z) \in Int /\ Hits(t, Z) \in Int
  BY <1>1, HitsCats, SMTT(20)
<1>10. Len(T) = Len(S) + -1
  BY <1>2, <1>8, <1>9
<1>11. ASSUME NEW j \in Key
       PROVE  Hits(T, Keyed(j)) = Hits(S, Keyed(j)) + IF j = y.key THEN -1 ELSE 0
  <2>1. (y \in Keyed(j) <=> y.key = j) /\ (p \in Keyed(j) <=> p.key = j)
    BY KeyedItems
  <2> DEFINE Z == Keyed(j)
  <2>2. Hits(t, Z) = Hits(r, Z) + IF j = p.key THEN -1 ELSE 0
    BY <1>7
  <2>3. (y \in Z <=> y.key = j) /\ (p \in Z <=> p.key = j)
    BY <2>1
  <2> HIDE DEF Z
  <2>4. /\ Hits(S, Z) = Hits(l, Z) + (IF y \in Z THEN 1 ELSE 0) + Hits(r, Z)
        /\ Hits(T, Z) = Hits(l, Z) + (IF p \in Z THEN 1 ELSE 0) + Hits(t, Z)
        /\ Hits(l, Z) \in Int /\ Hits(r, Z) \in Int /\ Hits(t, Z) \in Int
    BY <1>8, <1>9, Zenon
  <2>5. Hits(T, Z) = Hits(S, Z) + IF j = y.key THEN -1 ELSE 0
    BY <2>2, <2>3, <2>4
  <2>6. QED
    BY <2>5 DEF Z
<1>12. ASSUME NEW z \in AnyItem
       PROVE  e[z] = c[z] + Hits(T, {z}) - Hits(S, {z}) - IF z \in {} THEN 1 ELSE 0
  <2>1. (y \in {z} <=> z = y) /\ (p \in {z} <=> z = p)
    OBVIOUS
  <2>2. /\ Hits(S, {z}) = Hits(l, {z}) + (IF y \in {z} THEN 1 ELSE 0) + Hits(r, {z})
        /\ Hits(T, {z}) = Hits(l, {z}) + (IF p \in {z} THEN 1 ELSE 0) + Hits(t, {z})
        /\ Hits(l, {z}) \in Int /\ Hits(r, {z}) \in Int /\ Hits(t, {z}) \in Int
    BY <1>8, <1>9, Zenon
  <2>3. e[z] = d[z] + Hits(t, {z}) - Hits(r, {z})
    <3>1. e[z] = d[z] + Hits(t, {z}) - Hits(r, {z}) - IF z \in {} THEN 1 ELSE 0
      BY <1>7
    <3>2. d[z] \in Int
      BY <1>6
    <3>3. QED
      BY <2>2, <3>1, <3>2
  <2> DEFINE u == IF z = y THEN 1 ELSE 0  v == IF z = p THEN 1 ELSE 0
             ss == Hits(S, {z})  gg == Hits(T, {z})  ll == Hits(l, {z})
             rr == Hits(r, {z})  tt == Hits(t, {z})  cc == c[z]  dd == d[z]  ee == e[z]
  <2>4. /\ ss = ll + u + rr /\ gg = ll + v + tt /\ ee = dd + tt - rr
        /\ ll \in Int /\ rr \in Int /\ tt \in Int /\ cc \in Int /\ u \in Int /\ v \in Int
    BY <1>6, <2>1, <2>2, <2>3
  <2>5. dd = (cc - u) + v
    BY <1>6
  <2>6. QED
    <3> DEFINE o == IF z \in {} THEN 1 ELSE 0
    <3>1. o = 0
      OBVIOUS
    <3> HIDE DEF u, v, ss, gg, ll, rr, tt, cc, dd, ee, o
    <3>2. ee = cc + gg - ss - o
      BY <2>4, <2>5, <3>1
    <3>3. QED
      BY <3>2 DEF cc, gg, ss, ee, o
<1>13. Changes(S, T, c, e, {}, y.key, -1)
  BY <1>1, <1>5, <1>8, <1>10, <1>11, <1>12 DEF Changes
<1>14. QED
  BY <1>13 DEF S, T

-----------------------------------------------------------------------------
(* 8. The scans of a node *)

\* A set of positions that holds all before each of them.
LEMMA InitialPart ==
    ASSUME NEW n \in Nat, NEW S \in SUBSET (1 .. n), \A m \in S : \A j \in 1 .. m : j \in S
    PROVE  S = 1 .. Cardinality(S) /\ Cardinality(S) \in 0 .. n
<1> DEFINE R == {m \in 1 .. n + 1 : m \notin S}
<1>1. R \in SUBSET Nat /\ n + 1 \in R
  OBVIOUS
<1>2. PICK m \in R : \A j \in R : m <= j
  <2>1. R # {}
    BY <1>1
  <2> HIDE DEF R
  <2>2. QED
    BY <1>1, <2>1, LeastElement
<1> DEFINE c == m - 1
<1>3. c \in 0 .. n /\ m \in 1 .. n + 1 /\ m \notin S
  BY <1>2
<1>4. S = 1 .. c
  <2>1. ASSUME NEW j \in 1 .. c
        PROVE  j \in S
    <3>1. j \in 1 .. n + 1 /\ ~(m <= j)
      BY <1>3, <2>1
    <3>2. QED
      BY <1>2, <3>1
  <2>2. ASSUME NEW j \in S
        PROVE  j \in 1 .. c
    <3>1. ~(m <= j)
      <4>1. m <= j => m \in 1 .. j
        BY <1>3
      <4>2. QED
        BY <1>3, <4>1
    <3>2. QED
      BY <1>3, <3>1
  <2>3. QED
    BY <2>1, <2>2, Zenon
<1> HIDE DEF c
<1>5. Cardinality(1 .. c) = c
  <2>1. c \in Nat /\ 1 \in Int
    BY <1>3
  <2>2. Cardinality(1 .. c) = IF 1 > c THEN 0 ELSE c - 1 + 1
    BY <2>1, FS_Interval
  <2>3. QED
    BY <2>1, <2>2
<1>6. QED
  BY <1>3, <1>4, <1>5

\* The items of a node are in order when all below it are.
LEMMA ItemsAscend ==
    ASSUME NEW h \in Nat, NEW node, Shaped(h, node), Ordered(InOrder[h][node])
    PROVE  \A m, n \in 1 .. Len(node.items) : m <= n => node.items[m].key <= node.items[n].key
<1>1. /\ node \in Tree[h] /\ node.items \in Seq(AnyItem) /\ Len(node.items) \in Nat
      /\ DOMAIN node.items = 1 .. Len(node.items)
      /\ \A n \in 1 .. Len(node.items) : node.items[n] \in AnyItem
  BY TreeFields DEF Shaped
<1> SUFFICES ASSUME NEW m \in 1 .. Len(node.items), NEW n \in 1 .. Len(node.items), m < n
             PROVE  node.items[m].key <= node.items[n].key
  BY <1>1, ItemsAreKeyed
<1>2. CASE h = 0
  <2>1. InOrder[0][node] = node.items
    BY <1>1, <1>2, InOrderOf
  <2>2. QED
    BY <1>1, <1>2, <2>1 DEF Ordered
<1>3. CASE h > 0
  <2>1. n \in 1 .. Len(node.kids)
    BY <1>1, <1>3 DEF Shaped
  <2>2. PICK A, B \in Seq(AnyItem) : Surrounds(h, node, n, A, B)
    BY <1>3, <2>1, KidInContext
  <2>3. node.items[m] \in ToSet(A) /\ node.items[n] \in ToSet(B)
    BY <2>2 DEF Surrounds
  <2> DEFINE s == InOrder[h - 1][node.kids[n]]
  <2>4. WithKid(node, n, node.kids[n]) = node /\ node.kids[n] \in Tree[h - 1]
    BY <1>3, <2>1, WithOwnKid
  <2>5. s \in Seq(AnyItem)
    BY <1>3, <2>4, InOrderType
  <2>6. InOrder[h][node] = (A ++ s) ++ B
    BY <2>2, <2>4, Zenon DEF Surrounds
  <2> HIDE DEF s
  <2>7. Precedes(A, B)
    BY <2>5, <2>6, OrderedAround
  <2>8. QED
    BY <2>3, <2>7 DEF Precedes
<1>4. QED
  BY <1>2, <1>3

\* The two scans of a node find the last item below, and at or below, a key.
LEMMA Positions ==
    ASSUME NEW h \in Nat, NEW node, Shaped(h, node), Ordered(InOrder[h][node]), NEW k \in Int
    PROVE  /\ Below(node, k) \in 0 .. Len(node.items) /\ UpTo(node, k) \in 0 .. Len(node.items)
           /\ \A m \in 1 .. Len(node.items) :
                 /\ m <= Below(node, k) <=> node.items[m].key < k
                 /\ m <= UpTo(node, k) <=> node.items[m].key <= k
<1> DEFINE c == Len(node.items)
           S == {n \in DOMAIN node.items : node.items[n].key < k}
           T == {n \in DOMAIN node.items : node.items[n].key <= k}
<1>1. /\ c \in Nat /\ DOMAIN node.items = 1 .. c
      /\ \A n \in 1 .. c : node.items[n] \in AnyItem /\ node.items[n].key \in Int
  BY TreeFields, ItemsAreKeyed, Zenon DEF Shaped
<1>2. \A m, n \in 1 .. c : m <= n => node.items[m].key <= node.items[n].key
  BY ItemsAscend
<1> HIDE DEF c
<1>3. S \in SUBSET (1 .. c) /\ \A m \in S : \A j \in 1 .. m : j \in S
  <2>1. ASSUME NEW m \in S, NEW j \in 1 .. m
        PROVE  j \in S
    <3>1. j \in 1 .. c /\ m \in 1 .. c /\ j <= m
      BY <1>1
    <3>2. node.items[j].key <= node.items[m].key /\ node.items[m].key < k
      BY <1>2, <3>1
    <3>3. QED
      BY <1>1, <3>1, <3>2
  <2>2. QED
    BY <1>1, <2>1
<1>4. T \in SUBSET (1 .. c) /\ \A m \in T : \A j \in 1 .. m : j \in T
  <2>1. ASSUME NEW m \in T, NEW j \in 1 .. m
        PROVE  j \in T
    <3>1. j \in 1 .. c /\ m \in 1 .. c /\ j <= m
      BY <1>1
    <3>2. node.items[j].key <= node.items[m].key /\ node.items[m].key <= k
      BY <1>2, <3>1
    <3>3. QED
      BY <1>1, <3>1, <3>2
  <2>2. QED
    BY <1>1, <2>1
<1>5. Below(node, k) = Cardinality(S) /\ UpTo(node, k) = Cardinality(T)
  BY DEF Below, UpTo
<1>6. \A m \in 1 .. c : /\ m \in S <=> node.items[m].key < k
                        /\ m \in T <=> node.items[m].key <= k
  BY <1>1
<1> HIDE DEF S, T
<1>7. S = 1 .. Cardinality(S) /\ Cardinality(S) \in 0 .. c
  BY <1>1, <1>3, InitialPart
<1>8. T = 1 .. Cardinality(T) /\ Cardinality(T) \in 0 .. c
  BY <1>1, <1>4, InitialPart
<1>9. ASSUME NEW m \in 1 .. c
      PROVE  /\ m <= Below(node, k) <=> node.items[m].key < k
             /\ m <= UpTo(node, k) <=> node.items[m].key <= k
  <2>1. (m \in 1 .. Cardinality(S) <=> m <= Cardinality(S))
        /\ (m \in 1 .. Cardinality(T) <=> m <= Cardinality(T))
    BY <1>7, <1>8
  <2>2. QED
    BY <1>5, <1>6, <1>7, <1>8, <2>1
<1>10. QED
  BY <1>5, <1>7, <1>8, <1>9 DEF c

-----------------------------------------------------------------------------
(* 9. The place of a child, and of an item with its two neighbours *)

\* What newBTree makes of the degree.
DegreeOK == degree \in Int /\ degree >= 2

\* Child i of a node, with what is before it and what is after it.
KidPlace(h, node, i, A, B) ==
    /\ Surrounds(h, node, i, A, B)
    /\ InOrder[h - 1][node.kids[i]] \in Seq(AnyItem)
    /\ InOrder[h][node] = (A ++ InOrder[h - 1][node.kids[i]]) ++ B

\* The place of child i in a loose node.
LEMMA LooseKid ==
    ASSUME NEW h \in Nat, h > 0, NEW node, Loose(h, node), NEW i \in 1 .. Len(node.kids)
    PROVE  \E A, B \in Seq(AnyItem) : KidPlace(h, node, i, A, B)
<1>1. Shaped(h, node)
  BY LooseFields, Zenon
<1>2. PICK A, B \in Seq(AnyItem) : Surrounds(h, node, i, A, B)
  BY <1>1, KidInContext
<1>3. WithKid(node, i, node.kids[i]) = node /\ node.kids[i] \in Tree[h - 1]
  BY <1>1, WithOwnKid
<1>4. InOrder[h - 1][node.kids[i]] \in Seq(AnyItem)
  BY <1>3, InOrderType
<1>5. InOrder[h][node] = (A ++ InOrder[h - 1][node.kids[i]]) ++ B
  BY <1>2, <1>3 DEF Surrounds
<1>6. QED
  BY <1>2, <1>4, <1>5 DEF KidPlace

\* Item i of a node between two children, with what is before and after them.
TwoPlace(h, node, i, A, B) ==
    /\ Surrounds(h, Base(node, i), i, A, B)
    /\ InOrder[h - 1][node.kids[i]] \in Seq(AnyItem)
    /\ InOrder[h - 1][node.kids[i + 1]] \in Seq(AnyItem)
    /\ InOrder[h][node] = (A ++ ((InOrder[h - 1][node.kids[i]] ++ One(node.items[i]))
                                    ++ InOrder[h - 1][node.kids[i + 1]])) ++ B

\* The place of item i and its two neighbours in a loose node.
LEMMA LooseTwo ==
    ASSUME NEW h \in Nat, h > 0, NEW node, Loose(h, node), NEW i \in 1 .. Len(node.items)
    PROVE  /\ \E A, B \in Seq(AnyItem) : TwoPlace(h, node, i, A, B)
           /\ node.items[i] \in AnyItem
           /\ node.kids[i] \in Filled(degree)[h - 1] /\ node.kids[i + 1] \in Filled(degree)[h - 1]
           /\ Loose(h, Base(node, i)) /\ i \in 1 .. Len(Base(node, i).kids)
<1> DEFINE l == node.kids[i]  r == node.kids[i + 1]  x == node.items[i]  base == Base(node, i)
           U == Filled(degree)[h - 1]
<1>1. /\ node = Node(h, node.items, node.kids) /\ h - 1 \in Nat
      /\ node.items \in Seq(AnyItem) /\ Len(node.items) \in Nat
      /\ node.kids \in Seq(U) /\ Len(node.kids) = Len(node.items) + 1
      /\ U \subseteq Tree[h - 1]
      /\ \A n \in 1 .. Len(node.kids) : node.kids[n] \in U
  BY LooseFields
<1>2. i \in 1 .. Len(node.kids) /\ i + 1 \in 1 .. Len(node.kids)
  BY <1>1
<1>3. l \in U /\ r \in U /\ x \in AnyItem
  BY <1>1, <1>2
<1>4. Loose(h, base) /\ i \in 1 .. Len(base.kids)
  BY BaseFields
<1>5. Shaped(h, base)
  BY <1>4, LooseFields, Zenon
<1>6. PICK A, B \in Seq(AnyItem) : Surrounds(h, base, i, A, B)
  BY <1>4, <1>5, KidInContext
<1>7. Pair(base, i, l, x, r) = node
  <2> HIDE DEF l, r, x
  <2>1. Pair(base, i, l, x, r) = Mended(h, node, i, l, x, r)
    BY <1>3, Repaired, Zenon
  <2>2. [node.items EXCEPT ![i] = x] = node.items
    BY <1>1 DEF x
  <2>3. [node.kids EXCEPT ![i] = l] = node.kids /\ [node.kids EXCEPT ![i + 1] = r] = node.kids
    BY <1>1, <1>2, SMTT(20) DEF l, r
  <2>4. QED
    BY <1>1, <2>1, <2>2, <2>3, Zenon DEF Mended, Altered
<1>8. l \in Tree[h - 1] /\ r \in Tree[h - 1]
  BY <1>1, <1>3, Zenon
<1>9. InOrder[h - 1][l] \in Seq(AnyItem) /\ InOrder[h - 1][r] \in Seq(AnyItem)
  BY <1>1, <1>8, InOrderType, Zenon
<1> HIDE DEF l, r, x, base
<1>10. InOrder[h][node] = (A ++ ((InOrder[h - 1][l] ++ One(x)) ++ InOrder[h - 1][r])) ++ B
  BY <1>3, <1>6, <1>7, <1>8 DEF Surrounds
<1>11. TwoPlace(h, node, i, A, B)
  BY <1>6, <1>9, <1>10 DEF TwoPlace, l, r, x, base
<1>12. QED
  BY <1>3, <1>4, <1>11 DEF l, r, x, base

\* The keys on both sides of child i.
LEMMA SidesOf ==
    ASSUME NEW h \in Nat, NEW node, NEW i, NEW A \in Seq(AnyItem), NEW B \in Seq(AnyItem),
           Surrounds(h, node, i, A, B), NEW s \in Seq(AnyItem), Ordered((A ++ s) ++ B),
           \A m \in 1 .. Len(node.items) : node.items[m] \in AnyItem,
           Len(node.items) \in Nat, i \in 1 .. Len(node.items) + 1
    PROVE  /\ \A x \in ToSet(A) : i > 1 /\ x.key <= node.items[i - 1].key
           /\ \A x \in ToSet(B) : i <= Len(node.items) /\ node.items[i].key <= x.key
<1>1. Ordered(A) /\ Ordered(B)
  BY OrderedAround
<1>2. ASSUME NEW x \in ToSet(A)
      PROVE  i > 1 /\ x.key <= node.items[i - 1].key
  <2> DEFINE y == node.items[i - 1]
  <2>1. CASE i = 1
    <3>1. ToSet(A) = {}
      BY <2>1, CatSets DEF Surrounds
    <3>2. QED
      BY <3>1
  <2>2. CASE i > 1
    <3>1. i - 1 \in 1 .. Len(node.items) /\ y \in AnyItem
      BY <2>2
    <3>2. PICK C \in Seq(AnyItem) : A = C ++ One(y)
      BY <2>2 DEF Surrounds
    <3> HIDE DEF y
    <3>3. One(y) \in Seq(AnyItem) /\ ToSet(One(y)) = {y}
      BY <3>1, ItemCats, CatSets
    <3>4. ToSet(A) = ToSet(C) \cup {y} /\ Precedes(C, One(y))
      BY <1>1, <3>2, <3>3, CatSets, OrderedCats
    <3>5. x.key <= y.key
      BY <3>1, <3>3, <3>4, ItemsAreKeyed DEF Precedes
    <3>6. QED
      BY <2>2, <3>5 DEF y
  <2>3. QED
    BY <2>1, <2>2
<1>3. ASSUME NEW x \in ToSet(B)
      PROVE  i <= Len(node.items) /\ node.items[i].key <= x.key
  <2> DEFINE y == node.items[i]
  <2>1. CASE i > Len(node.items)
    <3>1. ToSet(B) = {}
      BY <2>1, CatSets DEF Surrounds
    <3>2. QED
      BY <3>1
  <2>2. CASE i <= Len(node.items)
    <3>1. y \in AnyItem
      BY <2>2
    <3>2. PICK C \in Seq(AnyItem) : B = One(y) ++ C
      BY <2>2 DEF Surrounds
    <3> HIDE DEF y
    <3>3. One(y) \in Seq(AnyItem) /\ ToSet(One(y)) = {y}
      BY <3>1, ItemCats, CatSets
    <3>4. ToSet(B) = ToSet(C) \cup {y} /\ Precedes(One(y), C)
      BY <1>1, <3>2, <3>3, CatSets, OrderedCats
    <3>5. y.key <= x.key
      BY <3>1, <3>3, <3>4, ItemsAreKeyed DEF Precedes
    <3>6. QED
      BY <2>2, <3>5 DEF y
  <2>3. QED
    BY <2>1, <2>2
<1>4. QED
  BY <1>2, <1>3

\* Regrouping a concatenation of five.
LEMMA Regroup ==
    ASSUME NEW p \in Seq(AnyItem), NEW q \in Seq(AnyItem), NEW r \in Seq(AnyItem),
           NEW s \in Seq(AnyItem), NEW t \in Seq(AnyItem)
    PROVE  (((p ++ q) ++ r) ++ s) ++ t = (p ++ q) ++ ((r ++ s) ++ t)
<1> DEFINE u == p ++ q
<1>1. u \in Seq(AnyItem)
  BY ItemCats
<1> HIDE DEF u
<1>2. (u ++ r) ++ s = u ++ (r ++ s) /\ r ++ s \in Seq(AnyItem)
  BY <1>1, ItemCats
<1> DEFINE v == r ++ s
<1> HIDE DEF v
<1>3. v \in Seq(AnyItem)
  BY <1>2 DEF v
<1>4. (u ++ v) ++ t = u ++ (v ++ t)
  BY <1>1, <1>3, ItemCats
<1>5. QED
  BY <1>2, <1>4 DEF u, v

-----------------------------------------------------------------------------
(* 10. Splitting a child *)

\* A node with other items, children and length, but the same items in order.
Kept(h, node, new, d) ==
    /\ Loose(h, new) /\ InOrder[h][new] = InOrder[h][node]
    /\ Len(new.items) = Len(node.items) + d

\* A loose node with a legal number of items is filled.
LEMMA InFilled ==
    ASSUME NEW h \in Nat, NEW node, Loose(h, node),
           Len(node.items) >= degree - 1, Len(node.items) <= 2 * degree - 1, DegreeOK
    PROVE  node \in Filled(degree)[h] /\ node \in Tree[h]
<1>1. Len(node.items) \in degree - 1 .. 2 * degree - 1
  BY LooseFields DEF DegreeOK
<1>2. QED
  BY <1>1, FilledNodes

\* What a filled node is.
LEMMA OfFilled ==
    ASSUME NEW h \in Nat, NEW node \in Filled(degree)[h], DegreeOK
    PROVE  /\ Loose(h, node) /\ Shaped(h, node) /\ node \in Tree[h]
           /\ Len(node.items) \in Nat /\ Len(node.items) >= degree - 1
           /\ Len(node.items) <= 2 * degree - 1
           /\ InOrder[h][node] \in Seq(AnyItem)
<1>1. Loose(h, node) /\ Len(node.items) \in degree - 1 .. 2 * degree - 1
  BY FilledNodes
<1>2. Shaped(h, node) /\ node \in Tree[h] /\ Len(node.items) \in Nat
  BY <1>1, LooseFields
<1>3. InOrder[h][node] \in Seq(AnyItem)
  BY <1>2, InOrderType
<1>4. QED
  BY <1>1, <1>2, <1>3 DEF DegreeOK

\* A node is l, x and r, joined.
IsApart(h, node, i, l, x, r) ==
    /\ Loose(h, l) /\ Len(l.items) = i - 1
    /\ Loose(h, r) /\ Len(r.items) = Len(node.items) - i
    /\ x \in AnyItem
    /\ node = Joined(l, x, r)

\* A node cut at item i, as the loans need it.
LEMMA TakenApart ==
    ASSUME NEW h \in Nat, NEW node, Loose(h, node), NEW i \in 1 .. Len(node.items)
    PROVE  IsApart(h, node, i, LeftOf(node, i), node.items[i], RightOf(node, i))
BY Apart DEF IsApart

\* new is node with the full child i split in two.
IsSplit(h, node, i, new) ==
    /\ Kept(h, node, new, 1)
    /\ Len(new.kids[i].items) = degree - 1 /\ Len(new.kids[i + 1].items) = degree - 1
    /\ IsWith(new.items, node.items, i, new.items[i], AnyItem)

\* btree_split_child: a full child becomes two filled ones, and the items
\* stay in order (object.cpp, 382-409).
LEMMA SplitKeeps ==
    ASSUME NEW h \in Nat, h > 0, NEW node, Loose(h, node), DegreeOK,
           NEW i \in 1 .. Len(node.kids), IsFull(node.kids[i])
    PROVE  IsSplit(h, node, i, SplitChild(node, i))
<1> DEFINE full == node.kids[i]  l == LeftOf(full, degree)  r == RightOf(full, degree)
           x == full.items[degree]  new == SplitChild(node, i)  io(n) == InOrder[h - 1][n]
<1>1. new = Pair(node, i, l, x, r)
  BY DEF SplitChild, Pair, LeftOf, RightOf
<1>2. /\ full \in Filled(degree)[h - 1] /\ h - 1 \in Nat /\ Len(node.items) \in Nat
      /\ i \in 1 .. Len(node.items) + 1 /\ node.level = h
  BY LooseFields
<1> HIDE DEF new
<1>3. /\ Loose(h - 1, full) /\ degree \in 1 .. Len(full.items)
      /\ Len(full.items) = 2 * degree - 1
  BY <1>2, OfFilled DEF IsFull, DegreeOK
<1> HIDE DEF full
<1>17. IsApart(h - 1, full, degree, l, x, r)
  BY <1>2, <1>3, TakenApart, Zenon
<1> HIDE DEF l, r, x
<1>4. /\ Loose(h - 1, l) /\ Len(l.items) = degree - 1
      /\ Loose(h - 1, r) /\ Len(r.items) = Len(full.items) - degree /\ x \in AnyItem
      /\ full = Joined(l, x, r)
  BY <1>17 DEF IsApart
<1>5. Len(r.items) = degree - 1
  BY <1>3, <1>4 DEF DegreeOK
<1>6. l \in Filled(degree)[h - 1] /\ l \in Tree[h - 1]
  <2>1. Len(l.items) >= degree - 1 /\ Len(l.items) <= 2 * degree - 1
    BY <1>4 DEF DegreeOK
  <2>2. QED
    BY <1>2, <1>4, <2>1, InFilled
<1>7. r \in Filled(degree)[h - 1] /\ r \in Tree[h - 1]
  <2>1. Len(r.items) >= degree - 1 /\ Len(r.items) <= 2 * degree - 1
    BY <1>5 DEF DegreeOK
  <2>2. QED
    BY <1>2, <1>4, <2>1, InFilled
<1>8. io(full) = (io(l) ++ One(x)) ++ io(r)
  <2>1. Shaped(h - 1, l) /\ Shaped(h - 1, r)
    BY <1>2, <1>4, LooseFields
  <2>2. QED
    BY <1>2, <1>4, <2>1, JoinedInOrder
<1>9. PICK A, B \in Seq(AnyItem) : KidPlace(h, node, i, A, B)
  BY LooseKid
<1>10. InOrder[h][Pair(node, i, l, x, r)] = (A ++ ((io(l) ++ One(x)) ++ io(r))) ++ B
  BY <1>4, <1>6, <1>7, <1>9 DEF KidPlace, Surrounds
<1>11. InOrder[h][node] = (A ++ io(full)) ++ B
  BY <1>9 DEF KidPlace, full
<1>12. Loose(h, new) /\ IsPair(new, h, node, i, l, x, r)
  BY <1>1, <1>4, <1>6, <1>7, LoosePair, Zenon
<1>13. Kept(h, node, new, 1)
  <2>1. InOrder[h][new] = InOrder[h][node]
    BY <1>1, <1>8, <1>10, <1>11
  <2>2. QED
    BY <1>12, <2>1 DEF Kept, IsPair
<1>14. new.kids[i] = l /\ new.kids[i + 1] = r
  <2>1. i \in 1 .. Len(node.kids) + 1 /\ i + 1 \in 1 .. Len(node.kids) + 1 /\ ~(i + 1 < i) /\ i + 1 # i
    BY <1>2, LooseFields
  <2>2. QED
    BY <1>12, <2>1 DEF IsPair
<1>15. IsWith(new.items, node.items, i, x, AnyItem) /\ new.items[i] = x
  <2>1. new.items \in Seq(AnyItem)
    BY <1>12, LooseFields
  <2>2. QED
    BY <1>2, <1>12, <2>1 DEF IsPair, IsWith
<1>16. QED
  BY <1>4, <1>5, <1>13, <1>14, <1>15 DEF IsSplit, new

-----------------------------------------------------------------------------
(* 11. Merging two children *)

\* Two neighbouring children with the item between them, changed for others
\* that hold the same.
IsMended(h, node, i, new, l, y, r) ==
    /\ Kept(h, node, new, 0)
    /\ new.kids[i] = l /\ new.kids[i + 1] = r
    /\ \A m \in 1 .. Len(node.items) : new.items[m] = IF m = i THEN y ELSE node.items[m]

\* Two nodes' items with one between them.
Between(h, l, y, r) == (InOrder[h][l] ++ One(y)) ++ InOrder[h][r]

\* new is a and b joined around x.
IsJoined(h, new, a, x, b) ==
    /\ Loose(h, new) /\ Len(new.items) = Len(a.items) + 1 + Len(b.items)
    /\ InOrder[h][new] = Between(h, a, x, b)

\* Two loose nodes joined, as the merge and the loans need it.
LEMMA JoinedNode ==
    ASSUME NEW h \in Nat, NEW a, NEW b, NEW x \in AnyItem, Loose(h, a), Loose(h, b)
    PROVE  IsJoined(h, Joined(a, x, b), a, x, b)
<1>1. Shaped(h, a) /\ Shaped(h, b)
  BY LooseFields
<1>2. InOrder[h][Joined(a, x, b)] = (InOrder[h][a] ++ One(x)) ++ InOrder[h][b]
  BY <1>1, JoinedInOrder
<1>3. Loose(h, Joined(a, x, b)) /\ Len(Joined(a, x, b).items) = Len(a.items) + 1 + Len(b.items)
  BY LooseJoined, Zenon
<1>4. QED
  BY <1>2, <1>3 DEF IsJoined, Between

\* A loose inner node has one child more than items.
LEMMA KidCount ==
    ASSUME NEW h \in Nat, h > 0, NEW node, Loose(h, node)
    PROVE  Len(node.kids) = Len(node.items) + 1 /\ Len(node.items) \in Nat
<1>1. Len(node.kids) = Len(node.items) + 1
  BY DEF Loose, Shaped
<1>2. Len(node.items) \in Nat
  BY LooseFields
<1>3. QED
  BY <1>1, <1>2

\* Two neighbours and the item between them are exchanged for others that
\* hold the same items.
LEMMA Mending ==
    ASSUME NEW h \in Nat, h > 0, NEW node, Loose(h, node), NEW i \in 1 .. Len(node.items),
           NEW l \in Filled(degree)[h - 1], NEW r \in Filled(degree)[h - 1], NEW y \in AnyItem,
           Between(h - 1, l, y, r) = Between(h - 1, node.kids[i], node.items[i], node.kids[i + 1])
    PROVE  IsMended(h, node, i, Mended(h, node, i, l, y, r), l, y, r)
<1> DEFINE base == Base(node, i)  new == Mended(h, node, i, l, y, r)  U == Filled(degree)[h - 1]
           I == [node.items EXCEPT ![i] = y]
           K == [node.kids EXCEPT ![i] = l]  L == [K EXCEPT ![i + 1] = r]
<1>1. PICK A, B \in Seq(AnyItem) : TwoPlace(h, node, i, A, B)
  BY LooseTwo, Zenon
<1>2. Loose(h, base) /\ i \in 1 .. Len(base.kids)
  BY LooseTwo, Zenon
<1>3. U \subseteq Tree[h - 1] /\ Len(node.items) \in Nat /\ Len(node.kids) = Len(node.items) + 1
      /\ node.items \in Seq(AnyItem) /\ node.kids \in Seq(U)
  <2> HIDE DEF base, new, I, K, L
  <2>1. /\ node.items \in Seq(AnyItem) /\ Len(node.items) \in Nat
        /\ IF h = 0 THEN node.kids = <<>>
           ELSE /\ node.kids \in Seq(U) /\ Len(node.kids) = Len(node.items) + 1
                /\ U \subseteq Tree[h - 1] /\ h - 1 \in Nat
                /\ \A n \in 1 .. Len(node.kids) : node.kids[n] \in U
    BY LooseFields, Zenon
  <2>2. h # 0
    OBVIOUS
  <2>3. QED
    BY <2>1, <2>2, Zenon
<1>4. new = Pair(base, i, l, y, r)
  BY Repaired, Zenon
<1>5. new = Node(h, I, L)
  BY DEF Mended, Altered
<1> HIDE DEF base, new
<1>6. Loose(h, new)
  BY <1>2, <1>4, LoosePair, Zenon
<1>7. InOrder[h][new] = (A ++ Between(h - 1, l, y, r)) ++ B
  BY <1>1, <1>3, <1>4, Zenon DEF TwoPlace, Surrounds, Between, base
<1>8. InOrder[h][node] = (A ++ Between(h - 1, node.kids[i], node.items[i], node.kids[i + 1])) ++ B
  BY <1>1 DEF TwoPlace, Between
<1>9. /\ I \in Seq(AnyItem) /\ Len(I) = Len(node.items)
      /\ \A m \in 1 .. Len(node.items) : I[m] = IF m = i THEN y ELSE node.items[m]
  BY <1>3, ExceptSeq, SMTT(20)
<1>10. L[i] = l /\ L[i + 1] = r
  <2>1. i \in 1 .. Len(node.kids) /\ i + 1 \in 1 .. Len(node.kids)
    BY <1>3
  <2> HIDE DEF U
  <2>2. DOMAIN node.kids = 1 .. Len(node.kids)
    BY <1>3
  <2>3. K[i] = l /\ DOMAIN K = 1 .. Len(node.kids)
    BY <2>1, <2>2
  <2>4. QED
    BY <2>1, <2>3
<1> HIDE DEF I, K, L
<1>11. new.items = I /\ new.kids = L
  BY <1>5, NodeFields
<1>12. Kept(h, node, new, 0)
  BY <1>3, <1>6, <1>7, <1>8, <1>9, <1>11 DEF Kept
<1>13. QED
  BY <1>9, <1>10, <1>11, <1>12 DEF IsMended, new

\* new is node with children i and i + 1 and the item between them as one
\* child.
IsMerge(h, node, i, new) ==
    /\ Kept(h, node, new, -1)
    /\ i \in 1 .. Len(new.kids) /\ Len(new.kids[i].items) = 2 * degree - 1
    /\ IsWithout(new.items, node.items, i, AnyItem)
    /\ node.items[i] \in ToSet(InOrder[h - 1][new.kids[i]])

\* btree_merge: two children that cannot spare an item and the item between
\* them fit into one node, and the items stay in order.
LEMMA MergeKeeps ==
    ASSUME NEW h \in Nat, h > 0, NEW node, Loose(h, node), DegreeOK, NEW i \in 1 .. Len(node.items),
           ~CanSpare(node.kids[i]), ~CanSpare(node.kids[i + 1])
    PROVE  IsMerge(h, node, i, Merge(node, i))
<1> DEFINE l == node.kids[i]  r == node.kids[i + 1]  x == node.items[i]  base == Base(node, i)
           both == Joined(l, x, r)  new == Merge(node, i)  io(n) == InOrder[h - 1][n]
<1>1. new = Fused(h, node, i, both)
  BY LooseFields DEF Merge, Fused, Joined, ++, One
<1>2. PICK A, B \in Seq(AnyItem) : TwoPlace(h, node, i, A, B)
  BY LooseTwo, Zenon
<1>3. /\ Loose(h, base) /\ i \in 1 .. Len(base.kids) /\ h - 1 \in Nat
      /\ x \in AnyItem /\ l \in Filled(degree)[h - 1] /\ r \in Filled(degree)[h - 1]
  BY LooseTwo, SMTT(20)
<1>4. ~CanSpare(l) /\ ~CanSpare(r)
  OBVIOUS
<1> HIDE DEF l, r, x, new, base
<1>5. /\ Loose(h - 1, l) /\ Len(l.items) \in Nat /\ Len(l.items) >= degree - 1
      /\ Shaped(h - 1, l)
  BY <1>3, OfFilled
<1>6. /\ Loose(h - 1, r) /\ Len(r.items) \in Nat /\ Len(r.items) >= degree - 1
      /\ Shaped(h - 1, r)
  BY <1>3, OfFilled
<1>7. Len(l.items) = degree - 1 /\ Len(r.items) = degree - 1
  BY <1>4, <1>5, <1>6, SMTT(20) DEF CanSpare, DegreeOK
<1>21. IsJoined(h - 1, both, l, x, r)
  BY <1>3, <1>5, <1>6, JoinedNode
<1> HIDE DEF both
<1>8. Loose(h - 1, both) /\ Len(both.items) = Len(l.items) + 1 + Len(r.items)
  BY <1>21 DEF IsJoined
<1>9. io(both) = (io(l) ++ One(x)) ++ io(r)
  BY <1>21 DEF IsJoined, Between
<1>10. Len(both.items) = 2 * degree - 1
  BY <1>7, <1>8 DEF DegreeOK
<1>11. both \in Filled(degree)[h - 1] /\ both \in Tree[h - 1]
  <2>1. Len(both.items) >= degree - 1 /\ Len(both.items) <= 2 * degree - 1
    BY <1>10 DEF DegreeOK
  <2>2. QED
    BY <1>3, <1>8, <2>1, InFilled, Zenon
<1>12. new = WithKid(base, i, both)
  BY <1>1, <1>11, MergedIntoOne DEF base
<1>13. Loose(h, new) /\ new.items = base.items /\ new.kids[i] = both
  BY <1>3, <1>11, <1>12, LooseWithKid
<1>14. InOrder[h][new] = (A ++ io(both)) ++ B
  BY <1>2, <1>11, <1>12, Zenon DEF TwoPlace, Surrounds, base
<1>15. InOrder[h][node] = (A ++ ((io(l) ++ One(x)) ++ io(r))) ++ B
  BY <1>2 DEF TwoPlace, l, r, x
<1>16. IsWithout(base.items, node.items, i, AnyItem) /\ Len(base.items) = Len(node.items) - 1
  BY BaseFields DEF base
<1>17. Kept(h, node, new, -1)
  <2>1. Len(node.items) \in Nat
    BY LooseFields
  <2>2. QED
    BY <1>9, <1>13, <1>14, <1>15, <1>16, <2>1 DEF Kept
<1>18. Len(new.kids) = Len(base.kids)
  <2>1. Len(new.kids) = Len(new.items) + 1 /\ Len(base.kids) = Len(base.items) + 1
    BY <1>3, <1>13, KidCount, Zenon
  <2>2. QED
    BY <1>13, <2>1
<1>19. x \in ToSet(io(both))
  <2>1. io(l) \in Seq(AnyItem) /\ io(r) \in Seq(AnyItem)
    BY <1>2 DEF TwoPlace, l, r
  <2>2. One(x) \in Seq(AnyItem) /\ io(l) ++ One(x) \in Seq(AnyItem)
    BY <1>3, <2>1, ItemCats, Zenon
  <2>3. ToSet(io(both)) = (ToSet(io(l)) \cup {x}) \cup ToSet(io(r))
    BY <1>9, <2>1, <2>2, CatSets, SMTT(20)
  <2>4. QED
    BY <2>3
<1>20. QED
  BY <1>3, <1>10, <1>13, <1>16, <1>17, <1>18, <1>19 DEF IsMerge, new, x

-----------------------------------------------------------------------------
(* 12. Loans *)

\* The ends of a sequence.
LEMMA Ends ==
    ASSUME NEW T, NEW s \in Seq(T), NEW n \in Nat, Len(s) = n + 1
    PROVE  /\ Head(s) = s[1] /\ FirstOf(s, 1) = One(s[1]) /\ Tail(s) = From(s, 2)
           /\ Last(s) = s[n + 1] /\ From(s, n + 1) = One(s[n + 1]) /\ Front(s) = FirstOf(s, n)
           /\ FirstOf(s, 0) = <<>> /\ From(s, n + 2) = <<>>
<1>1. Head(s) = s[1] /\ Last(s) = s[n + 1]
  BY DEF Last
<1>2. FirstOf(s, 1) = SubSeq(s, 1, 1) /\ FirstOf(s, n) = SubSeq(s, 1, n) /\ FirstOf(s, 0) = SubSeq(s, 1, 0)
  BY DEF FirstOf
<1>3. From(s, 2) = SubSeq(s, 2, n + 1) /\ From(s, n + 1) = SubSeq(s, n + 1, n + 1)
      /\ From(s, n + 2) = SubSeq(s, n + 2, n + 1)
  BY DEF From
<1>10. \A a \in Seq(T) : Len(a) = 1 => a = One(a[1])
  <2> SUFFICES ASSUME NEW a \in Seq(T), Len(a) = 1
               PROVE  a = One(a[1])
    OBVIOUS
  <2>1. a[1] \in T
    <3>1. 1 \in 1 .. Len(a)
      OBVIOUS
    <3>2. QED
      BY <3>1, ElementOfSeq, Zenon
  <2>2. One(a[1]) \in Seq(T) /\ Len(One(a[1])) = 1 /\ One(a[1])[1] = a[1]
    BY <2>1, OneType, LenOne
  <2>3. \A m \in 1 .. Len(a) : a[m] = One(a[1])[m]
    BY <2>2
  <2> HIDE DEF One
  <2>4. QED
    BY <2>2, <2>3, SeqEqual
<1>4. SubSeq(s, 1, 1) = One(s[1])
  <2>1. SubSeq(s, 1, 1) \in Seq(T) /\ Len(SubSeq(s, 1, 1)) = 1 /\ SubSeq(s, 1, 1)[1] = s[1]
    OBVIOUS
  <2>2. QED
    BY <1>10, <2>1, Zenon
<1>5. SubSeq(s, n + 1, n + 1) = One(s[n + 1])
  <2> DEFINE a == SubSeq(s, n + 1, n + 1)
  <2>1. a \in Seq(T) /\ Len(a) = 1 /\ a[1] = s[n + 1]
    OBVIOUS
  <2> HIDE DEF a
  <2>2. a = One(s[n + 1])
    BY <1>10, <2>1
  <2>3. QED
    BY <2>2 DEF a
<1>6. SubSeq(s, 1, 0) = <<>> /\ SubSeq(s, n + 2, n + 1) = <<>>
  OBVIOUS
<1>7. Tail(s) = SubSeq(s, 2, n + 1)
  OBVIOUS
<1>8. Front(s) = SubSeq(s, 1, n)
  BY DEF Front
<1>9. QED
  BY <1>1, <1>2, <1>3, <1>4, <1>5, <1>6, <1>7, <1>8

\* The ends of an empty sequence are empty.
LEMMA NoEnds == \A n \in Nat : FirstOf(<<>>, n) = <<>> /\ From(<<>>, n + 1) = <<>>
BY DEF FirstOf, From

\* An item goes over the parent from a child's right neighbour.
IsNextLoan(h, node, i, new) ==
    /\ Kept(h, node, new, 0)
    /\ Len(new.kids[i].items) = Len(node.kids[i].items) + 1
    /\ \A m \in 1 .. Len(node.items) : m # i => new.items[m] = node.items[m]
    /\ new.items[i] = node.kids[i + 1].items[1]

\* btree_borrow_next: the child gains an item, its right neighbour gives one,
\* and the items stay in order.
LEMMA LoanFromNext ==
    ASSUME NEW h \in Nat, h > 0, NEW node, Loose(h, node), DegreeOK, NEW i \in 1 .. Len(node.items),
           ~CanSpare(node.kids[i]), CanSpare(node.kids[i + 1])
    PROVE  IsNextLoan(h, node, i, BorrowFromNext(node, i))
<1> DEFINE child == node.kids[i]  sibling == node.kids[i + 1]  x == node.items[i]
           l == LeftOf(sibling, 1)  r == RightOf(sibling, 1)  y == sibling.items[1]
           fed == Joined(child, x, l)  new == BorrowFromNext(node, i)  io(n) == InOrder[h - 1][n]
<1>1. /\ h - 1 \in Nat /\ x \in AnyItem
      /\ child \in Filled(degree)[h - 1] /\ sibling \in Filled(degree)[h - 1]
  <2>1. h - 1 \in Nat
    OBVIOUS
  <2> HIDE DEF child, sibling, x
  <2>2. x \in AnyItem
    BY LooseTwo, Zenon DEF x
  <2>3. child \in Filled(degree)[h - 1] /\ sibling \in Filled(degree)[h - 1]
    BY LooseTwo, Zenon DEF child, sibling
  <2>4. QED
    BY <2>1, <2>2, <2>3
<1>2. ~CanSpare(child) /\ CanSpare(sibling)
  OBVIOUS
<1>3. new = Mended(h, node, i, fed, y, r)
  <2> DEFINE kid == IF IsLeaf(child) THEN <<>> ELSE One(Head(sibling.kids))
             fed2 == Node(child.level, child.items ++ One(x), child.kids ++ kid)
             r2 == Node(sibling.level, Tail(sibling.items), From(sibling.kids, Len(kid) + 1))
  <2>1. new = Exchanged(node, i, Head(sibling.items), i, fed2, i + 1, r2)
    BY DEF BorrowFromNext, Exchanged, ++, One
  <2>2. node = Node(h, node.items, node.kids)
    BY LooseFields
  <2> HIDE DEF child, sibling, new
  <2>3. Loose(h - 1, child) /\ Loose(h - 1, sibling)
    BY <1>1, OfFilled
  <2>4. child.level = h - 1 /\ child.items \in Seq(AnyItem)
    BY <1>1, <2>3, LooseFields, Zenon
  <2>5. Len(sibling.items) \in Nat /\ Len(sibling.items) >= degree /\ degree - 1 \in Nat
    BY <1>1, <1>2, OfFilled DEF CanSpare, DegreeOK
  <2> DEFINE n == Len(sibling.items) - 1
  <2>6. n \in Nat /\ Len(sibling.items) = n + 1
    BY <2>5 DEF DegreeOK
  <2> HIDE DEF n
  <2>7. sibling.items \in Seq(AnyItem)
    BY <1>1, <2>3, LooseFields
  <2>8. /\ Head(sibling.items) = y /\ Tail(sibling.items) = From(sibling.items, 2)
        /\ FirstOf(sibling.items, 0) = <<>>
    BY <2>6, <2>7, Ends, Zenon
  <2>9. FirstOf(sibling.kids, 1) = kid /\ From(sibling.kids, Len(kid) + 1) = From(sibling.kids, 2)
    <3>1. CASE h - 1 = 0
      <4>1. sibling.kids = <<>> /\ kid = <<>> /\ Len(kid) = 0
        BY <1>1, <2>3, <2>4, <3>1, LooseFields DEF IsLeaf
      <4>2. FirstOf(<<>>, 1) = <<>> /\ From(<<>>, 0 + 1) = <<>> /\ From(<<>>, 1 + 1) = <<>>
        BY NoEnds, Zenon
      <4>3. QED
        BY <4>1, <4>2
    <3>2. CASE h - 1 > 0
      <4>1. kid = One(Head(sibling.kids)) /\ Len(kid) = 1
        BY <2>4, <3>2, LenOne DEF IsLeaf
      <4>2. /\ sibling.kids \in Seq(Filled(degree)[(h - 1) - 1])
            /\ Len(sibling.kids) = Len(sibling.items) + 1
        <5>1. h - 1 \in Nat /\ h - 1 # 0
          BY <3>2
        <5>2. QED
          BY <2>3, <5>1, LooseFields, Zenon
      <4>3. Head(sibling.kids) = sibling.kids[1] /\ FirstOf(sibling.kids, 1) = One(sibling.kids[1])
        BY <2>5, <4>2, Ends, Zenon
      <4>4. FirstOf(sibling.kids, 1) = kid
        BY <4>1, <4>3
      <4>5. \A t : Len(t) = 1 => From(sibling.kids, Len(t) + 1) = From(sibling.kids, 2)
        OBVIOUS
      <4>6. From(sibling.kids, Len(kid) + 1) = From(sibling.kids, 2)
        BY <4>1, <4>5
      <4>7. QED
        BY <4>4, <4>6, Zenon
    <3>3. QED
      BY <1>1, <3>1, <3>2
  <2>10. fed2 = fed
    <3>1. child.items ++ One(x) \in Seq(AnyItem)
      BY <1>1, <2>4, ItemCats, Zenon
    <3>2. (child.items ++ One(x)) ++ <<>> = child.items ++ One(x)
      BY <3>1, ItemCats
    <3>3. l = Node(sibling.level, <<>>, kid)
      BY <2>8, <2>9 DEF LeftOf
    <3>4. l.items = <<>> /\ l.kids = kid
      BY <3>3, NodeFields
    <3> HIDE DEF l, kid
    <3>5. QED
      BY <3>2, <3>4 DEF Joined
  <2>11. r2 = r
    BY <2>8, <2>9 DEF RightOf
  <2> HIDE DEF fed2, r2, fed, r, y
  <2>12. Exchanged(node, i, y, i, fed, i + 1, r) = Mended(h, node, i, fed, y, r)
    BY <2>2, NodeChanges DEF Mended
  <2>13. QED
    BY <2>1, <2>8, <2>10, <2>11, <2>12
<1> HIDE DEF child, sibling, x, new
<1>4. Loose(h - 1, child) /\ Len(child.items) \in Nat /\ Len(child.items) >= degree - 1
      /\ io(child) \in Seq(AnyItem)
  BY <1>1, OfFilled
<1>5. Loose(h - 1, sibling) /\ Len(sibling.items) \in Nat /\ Len(sibling.items) <= 2 * degree - 1
  BY <1>1, OfFilled
<1>6. 1 \in 1 .. Len(sibling.items)
  BY <1>2, <1>5 DEF CanSpare, DegreeOK
<1>7. IsApart(h - 1, sibling, 1, l, y, r)
  BY <1>1, <1>5, <1>6, TakenApart
<1> HIDE DEF l, y, r
<1>8. /\ Loose(h - 1, l) /\ Len(l.items) = 1 - 1
      /\ Loose(h - 1, r) /\ Len(r.items) = Len(sibling.items) - 1
      /\ y \in AnyItem /\ sibling = Joined(l, y, r)
  BY <1>7 DEF IsApart
<1>9. IsJoined(h - 1, fed, child, x, l)
  BY <1>1, <1>4, <1>8, JoinedNode
<1>10. IsJoined(h - 1, sibling, l, y, r)
  BY <1>1, <1>8, JoinedNode
<1> HIDE DEF fed
<1>11. Loose(h - 1, fed) /\ Len(fed.items) = Len(child.items) + 1
  BY <1>4, <1>8, <1>9 DEF IsJoined
<1>12. fed \in Filled(degree)[h - 1]
  <2>1. Len(fed.items) >= degree - 1 /\ Len(fed.items) <= 2 * degree - 1
    BY <1>2, <1>4, <1>11 DEF CanSpare, DegreeOK
  <2>2. QED
    BY <1>1, <1>11, <2>1, InFilled
<1>13. r \in Filled(degree)[h - 1]
  <2>1. Len(r.items) >= degree - 1 /\ Len(r.items) <= 2 * degree - 1
    BY <1>2, <1>5, <1>8 DEF CanSpare, DegreeOK
  <2>2. QED
    BY <1>1, <1>8, <2>1, InFilled, Zenon
<1>14. io(l) \in Seq(AnyItem) /\ io(r) \in Seq(AnyItem)
  <2>1. l \in Tree[h - 1] /\ r \in Tree[h - 1]
    BY <1>1, <1>8, LooseFields, Zenon
  <2>2. QED
    BY <1>1, <2>1, InOrderType
<1>15. Between(h - 1, fed, y, r) = Between(h - 1, child, x, sibling)
  <2>1. io(fed) = (io(child) ++ One(x)) ++ io(l) /\ io(sibling) = (io(l) ++ One(y)) ++ io(r)
    BY <1>9, <1>10 DEF IsJoined, Between
  <2>2. One(x) \in Seq(AnyItem) /\ One(y) \in Seq(AnyItem)
    BY <1>1, <1>8, ItemCats
  <2>3. (((io(child) ++ One(x)) ++ io(l)) ++ One(y)) ++ io(r)
           = (io(child) ++ One(x)) ++ ((io(l) ++ One(y)) ++ io(r))
    <3> DEFINE p == io(child)  q == One(x)  s == io(l)  t == One(y)  u == io(r)
    <3>1. /\ p \in Seq(AnyItem) /\ q \in Seq(AnyItem) /\ s \in Seq(AnyItem)
          /\ t \in Seq(AnyItem) /\ u \in Seq(AnyItem)
      BY <1>4, <1>14, <2>2
    <3> HIDE DEF p, q, s, t, u
    <3>2. (((p ++ q) ++ s) ++ t) ++ u = (p ++ q) ++ ((s ++ t) ++ u)
      BY <3>1, Regroup
    <3>3. QED
      BY <3>2 DEF p, q, s, t, u
  <2>4. QED
    BY <2>1, <2>3 DEF Between
<1>16. IsMended(h, node, i, new, fed, y, r)
  BY <1>3, <1>8, <1>12, <1>13, <1>15, Mending DEF child, sibling, x
<1>17. /\ Kept(h, node, new, 0)
       /\ new.kids[i] = fed
       /\ \A m \in 1 .. Len(node.items) : new.items[m] = IF m = i THEN y ELSE node.items[m]
  BY <1>16 DEF IsMended
<1>18. QED
  BY <1>11, <1>17, Zenon DEF IsNextLoan, child, sibling, new, y

\* An item goes over the parent from a child's left neighbour.
IsPrevLoan(h, node, i, new) ==
    /\ Kept(h, node, new, 0)
    /\ Len(new.kids[i].items) = Len(node.kids[i].items) + 1
    /\ \A m \in 1 .. Len(node.items) : m # i - 1 => new.items[m] = node.items[m]
    /\ new.items[i - 1] = node.kids[i - 1].items[Len(node.kids[i - 1].items)]

\* Two assignments to different places commute.
LEMMA AlteredTwice ==
    ASSUME NEW s, NEW i, NEW j, NEW x, NEW y, i # j
    PROVE  Altered(Altered(s, i, x), j, y) = Altered(Altered(s, j, y), i, x)
BY Zenon DEF Altered

\* btree_borrow_prev: the child gains an item, its left neighbour gives one,
\* and the items stay in order.
LEMMA LoanFromPrev ==
    ASSUME NEW h \in Nat, h > 0, NEW node, Loose(h, node), DegreeOK,
           NEW i \in 2 .. Len(node.items) + 1,
           ~CanSpare(node.kids[i]), CanSpare(node.kids[i - 1])
    PROVE  IsPrevLoan(h, node, i, BorrowFromPrev(node, i))
<1> DEFINE j == i - 1  child == node.kids[i]  sibling == node.kids[j]  x == node.items[j]
           c == Len(sibling.items)
           l == LeftOf(sibling, c)  r == RightOf(sibling, c)  y == sibling.items[c]
           fed == Joined(r, x, child)  new == BorrowFromPrev(node, i)  io(n) == InOrder[h - 1][n]
<1>19. j \in 1 .. Len(node.items) /\ j + 1 = i /\ i # j
  BY LooseFields
<1>1. /\ h - 1 \in Nat /\ x \in AnyItem
      /\ child \in Filled(degree)[h - 1] /\ sibling \in Filled(degree)[h - 1]
  <2>1. h - 1 \in Nat
    OBVIOUS
  <2> HIDE DEF j
  <2>2. node.items[j] \in AnyItem
    BY <1>19, LooseTwo, Zenon
  <2>3. node.kids[j + 1] \in Filled(degree)[h - 1] /\ node.kids[j] \in Filled(degree)[h - 1]
    BY <1>19, LooseTwo, Zenon
  <2>4. QED
    BY <1>19, <2>1, <2>2, <2>3
<1>2. ~CanSpare(child) /\ CanSpare(sibling)
  OBVIOUS
<1>3. new = Mended(h, node, j, l, y, fed)
  <2> DEFINE kid == IF IsLeaf(child) THEN <<>> ELSE One(Last(sibling.kids))
             fed2 == Node(child.level, One(x) ++ child.items, kid ++ child.kids)
             l2 == Node(sibling.level, Front(sibling.items),
                        FirstOf(sibling.kids, Len(sibling.kids) - Len(kid)))
  <2>1. new = Exchanged(node, j, Last(sibling.items), i, fed2, j, l2)
    BY DEF BorrowFromPrev, Exchanged, ++, One
  <2>2. node = Node(h, node.items, node.kids)
    BY LooseFields, Zenon
  <2> HIDE DEF child, sibling, new, j
  <2>3. Loose(h - 1, child) /\ Loose(h - 1, sibling)
    BY <1>1, OfFilled
  <2>4. /\ child.level = h - 1 /\ child.items \in Seq(AnyItem)
        /\ sibling.level = h - 1 /\ sibling.items \in Seq(AnyItem)
    BY <1>1, <2>3, LooseFields, Zenon
  <2>5. c \in Nat /\ c >= degree /\ degree - 1 \in Nat
    BY <1>1, <1>2, OfFilled DEF CanSpare, DegreeOK
  <2> DEFINE n == c - 1
  <2>6. n \in Nat /\ c = n + 1
    BY <2>5 DEF DegreeOK
  <2> HIDE DEF n
  <2>8. /\ Last(sibling.items) = y /\ Front(sibling.items) = FirstOf(sibling.items, c - 1)
        /\ From(sibling.items, c + 1) = <<>>
    <3>1. /\ Last(sibling.items) = sibling.items[n + 1]
          /\ Front(sibling.items) = FirstOf(sibling.items, n)
          /\ From(sibling.items, n + 2) = <<>>
      BY <2>4, <2>6, Ends, Zenon
    <3>2. c - 1 = n /\ c + 1 = n + 2
      BY <2>6
    <3>3. QED
      BY <2>6, <3>1, <3>2
  <2>9. /\ From(sibling.kids, c + 1) = kid
        /\ FirstOf(sibling.kids, Len(sibling.kids) - Len(kid)) = FirstOf(sibling.kids, c)
    <3>1. CASE h - 1 = 0
      <4>1. sibling.kids = <<>> /\ kid = <<>> /\ Len(kid) = 0 /\ Len(sibling.kids) - Len(kid) = 0
        BY <1>1, <2>3, <2>4, <3>1, LooseFields DEF IsLeaf
      <4>2. FirstOf(<<>>, 0) = <<>> /\ FirstOf(<<>>, c) = <<>> /\ From(<<>>, c + 1) = <<>>
        BY <2>5, NoEnds, Zenon
      <4> HIDE DEF c
      <4>3. QED
        BY <4>1, <4>2
    <3>2. CASE h - 1 > 0
      <4>1. kid = One(Last(sibling.kids)) /\ Len(kid) = 1
        BY <2>4, <3>2, LenOne DEF IsLeaf
      <4>2. /\ sibling.kids \in Seq(Filled(degree)[(h - 1) - 1])
            /\ Len(sibling.kids) = c + 1
        <5>1. h - 1 \in Nat /\ h - 1 # 0
          BY <3>2
        <5>2. QED
          BY <2>3, <5>1, LooseFields, Zenon
      <4>3. /\ Last(sibling.kids) = sibling.kids[c + 1]
            /\ From(sibling.kids, c + 1) = One(sibling.kids[c + 1])
        BY <2>5, <4>2, Ends, Zenon
      <4>4. From(sibling.kids, c + 1) = kid
        BY <4>1, <4>3
      <4> DEFINE q == Len(kid)
      <4>5. q = 1
        BY <4>1
      <4> HIDE DEF q
      <4>6. Len(sibling.kids) - q = c
        BY <2>5, <4>2, <4>5
      <4>7. QED
        BY <4>4, <4>6, Zenon DEF q
    <3>3. h - 1 = 0 \/ h - 1 > 0
      BY <1>1
    <3>4. QED
      BY <3>1, <3>2, <3>3, Zenon
  <2>10. fed2 = fed
    <3>1. r = Node(h - 1, <<>>, kid)
      BY <2>4, <2>8, <2>9 DEF RightOf
    <3>2. r.items = <<>> /\ r.kids = kid /\ r.level = h - 1
      BY <3>1, NodeFields
    <3>3. <<>> ++ One(x) = One(x)
      BY <1>1, ItemCats
    <3> HIDE DEF r, kid
    <3>4. QED
      BY <2>4, <3>2, <3>3 DEF Joined
  <2>11. l2 = l
    BY <2>8, <2>9, Zenon DEF LeftOf
  <2> HIDE DEF fed2, l2, fed, l, y
  <2>12. Exchanged(node, j, y, i, fed, j, l)
            = Node(h, Altered(node.items, j, y), Altered(Altered(node.kids, i, fed), j, l))
    BY <2>2, NodeChanges
  <2>13. Altered(Altered(node.kids, i, fed), j, l) = Altered(Altered(node.kids, j, l), j + 1, fed)
    BY <1>19, AlteredTwice
  <2>14. QED
    BY <2>1, <2>8, <2>10, <2>11, <2>12, <2>13 DEF Mended
<1> HIDE DEF child, sibling, x, new, j
<1>4. Loose(h - 1, child) /\ Len(child.items) \in Nat /\ Len(child.items) >= degree - 1
      /\ io(child) \in Seq(AnyItem)
  BY <1>1, OfFilled
<1>5. Loose(h - 1, sibling) /\ c \in Nat /\ c <= 2 * degree - 1
  BY <1>1, OfFilled
<1>6. c \in 1 .. Len(sibling.items)
  BY <1>2, <1>5 DEF CanSpare, DegreeOK
<1>7. IsApart(h - 1, sibling, c, l, y, r)
  BY <1>1, <1>5, <1>6, TakenApart, Zenon
<1>20. c >= degree
  BY <1>2 DEF CanSpare
<1> HIDE DEF l, y, r
<1>8. /\ Loose(h - 1, l) /\ Len(l.items) = c - 1
      /\ Loose(h - 1, r) /\ Len(r.items) = c - c
      /\ y \in AnyItem /\ sibling = Joined(l, y, r)
  BY <1>7 DEF IsApart
<1>9. IsJoined(h - 1, fed, r, x, child)
  BY <1>1, <1>4, <1>8, JoinedNode
<1>10. IsJoined(h - 1, sibling, l, y, r)
  BY <1>1, <1>8, JoinedNode
<1> HIDE DEF fed, c
<1>11. Loose(h - 1, fed) /\ Len(fed.items) = Len(child.items) + 1
  BY <1>4, <1>5, <1>8, <1>9 DEF IsJoined
<1>12. fed \in Filled(degree)[h - 1]
  <2>1. Len(fed.items) >= degree - 1 /\ Len(fed.items) <= 2 * degree - 1
    BY <1>2, <1>4, <1>11 DEF CanSpare, DegreeOK
  <2>2. QED
    BY <1>1, <1>11, <2>1, InFilled
<1>13. l \in Filled(degree)[h - 1]
  <2>1. Len(l.items) >= degree - 1 /\ Len(l.items) <= 2 * degree - 1
    BY <1>5, <1>8, <1>20 DEF DegreeOK
  <2>2. QED
    BY <1>1, <1>8, <2>1, InFilled
<1>14. io(l) \in Seq(AnyItem) /\ io(r) \in Seq(AnyItem)
  <2>1. l \in Tree[h - 1] /\ r \in Tree[h - 1]
    BY <1>1, <1>8, LooseFields, Zenon
  <2>2. QED
    BY <1>1, <2>1, InOrderType
<1>15. Between(h - 1, l, y, fed) = Between(h - 1, sibling, x, child)
  <2>1. io(fed) = (io(r) ++ One(x)) ++ io(child) /\ io(sibling) = (io(l) ++ One(y)) ++ io(r)
    BY <1>9, <1>10 DEF IsJoined, Between
  <2>2. One(x) \in Seq(AnyItem) /\ One(y) \in Seq(AnyItem)
    BY <1>1, <1>8, ItemCats
  <2>3. (((io(l) ++ One(y)) ++ io(r)) ++ One(x)) ++ io(child)
           = (io(l) ++ One(y)) ++ ((io(r) ++ One(x)) ++ io(child))
    <3> DEFINE p == io(l)  q == One(y)  s == io(r)  t == One(x)  u == io(child)
    <3>1. /\ p \in Seq(AnyItem) /\ q \in Seq(AnyItem) /\ s \in Seq(AnyItem)
          /\ t \in Seq(AnyItem) /\ u \in Seq(AnyItem)
      BY <1>4, <1>14, <2>2
    <3> HIDE DEF p, q, s, t, u
    <3>2. (((p ++ q) ++ s) ++ t) ++ u = (p ++ q) ++ ((s ++ t) ++ u)
      BY <3>1, Regroup
    <3>3. QED
      BY <3>2 DEF p, q, s, t, u
  <2>4. QED
    BY <2>1, <2>3 DEF Between
<1>16. IsMended(h, node, j, new, l, y, fed)
  <2>1. sibling = node.kids[j] /\ x = node.items[j] /\ child = node.kids[j + 1]
    BY <1>19 DEF sibling, x, child
  <2>2. QED
    BY <1>3, <1>8, <1>12, <1>13, <1>15, <1>19, <2>1, Mending, Zenon
<1>17. /\ Kept(h, node, new, 0)
       /\ new.kids[j + 1] = fed
       /\ \A m \in 1 .. Len(node.items) : new.items[m] = IF m = j THEN y ELSE node.items[m]
  BY <1>16 DEF IsMended
<1>18. QED
  BY <1>11, <1>17, <1>19, Zenon DEF IsPrevLoan, child, sibling, new, y, c, j

-----------------------------------------------------------------------------
(* 13. The first and the last item of a subtree *)

\* A node with no item of its own holds what its only child holds.
LEMMA OnlyKid ==
    ASSUME NEW h \in Nat, h > 0, NEW node, Loose(h, node), Len(node.items) = 0
    PROVE  /\ InOrder[h][node] = InOrder[h - 1][node.kids[1]]
           /\ node.kids[1] \in Filled(degree)[h - 1]
<1>1. Len(node.kids) = 1
  <2>1. Len(node.kids) = Len(node.items) + 1
    BY KidCount, Zenon
  <2>2. QED
    BY <2>1
<1>2. 1 \in 1 .. Len(node.kids)
  BY <1>1
<1>3. PICK A, B \in Seq(AnyItem) : KidPlace(h, node, 1, A, B)
  BY <1>2, LooseKid
<1>4. A = <<>> /\ B = <<>>
  BY <1>3 DEF KidPlace, Surrounds
<1> DEFINE s == InOrder[h - 1][node.kids[1]]
<1>5. s \in Seq(AnyItem) /\ InOrder[h][node] = (<<>> ++ s) ++ <<>>
  BY <1>3, <1>4 DEF KidPlace
<1>6. node.kids[1] \in Filled(degree)[h - 1]
  BY <1>2, LooseFields
<1> HIDE DEF s
<1>7. (<<>> ++ s) ++ <<>> = s
  BY <1>5, ItemCats
<1>8. QED
  BY <1>5, <1>6, <1>7 DEF s

\* The rightmost and the leftmost item of a node are its last and its first.
EndsRight(h) ==
    \A node \in Filled(degree)[h] :
        /\ Rightmost[h][node] \in AnyItem
        /\ \E C \in Seq(AnyItem) : InOrder[h][node] = C ++ One(Rightmost[h][node])

\* The walk to the last item, unfolded once.
LEMMA RightmostOf ==
    \A h \in Nat : \A node \in Tree[h] :
        Rightmost[h][node] = IF h = 0 THEN Last(node.items) ELSE Rightmost[h - 1][Last(node.kids)]
<1> DEFINE f == Rightmost
<1> HIDE DEF f
<1>1. f = [h \in Nat |-> LastIn(h, f[h - 1])]
  BY LevelFunctions DEF f
<1>2. \A h \in Nat : f[h] = LastIn(h, f[h - 1])
  BY <1>1
<1>3. \A h \in Nat : \A node \in Tree[h] :
          f[h][node] = IF h = 0 THEN Last(node.items) ELSE f[h - 1][Last(node.kids)]
  <2> SUFFICES ASSUME NEW h \in Nat, NEW node \in Tree[h]
               PROVE  f[h][node] = IF h = 0 THEN Last(node.items) ELSE f[h - 1][Last(node.kids)]
    OBVIOUS
  <2>1. f[h] = LastIn(h, f[h - 1])
    BY <1>2, Zenon
  <2>2. QED
    BY <2>1 DEF LastIn
<1>4. QED
  BY <1>3 DEF f

\* The walk down the last children ends at the last item of the subtree.
LEMMA RightmostIsLast ==
    ASSUME DegreeOK
    PROVE  \A h \in Nat : EndsRight(h)
<1> SUFFICES ASSUME NEW g \in Nat
             PROVE  EndsRight(g)
  OBVIOUS
<1> DEFINE S == {h \in 0 .. g : EndsRight(h)}
<1>1. 0 \in S
  <2>1. ASSUME NEW node \in Filled(degree)[0]
        PROVE  /\ Rightmost[0][node] \in AnyItem
               /\ \E C \in Seq(AnyItem) : InOrder[0][node] = C ++ One(Rightmost[0][node])
    <3>1. node \in Tree[0] /\ Len(node.items) \in Nat /\ Len(node.items) >= degree - 1
      BY OfFilled
    <3> DEFINE n == Len(node.items) - 1
    <3>2. n \in Nat /\ Len(node.items) = n + 1
      BY <3>1 DEF DegreeOK
    <3> HIDE DEF n
    <3>3. node.items \in Seq(AnyItem)
      BY <3>1, TreeFields
    <3>4. /\ SubSeq(node.items, 1, n) \in Seq(AnyItem)
          /\ node.items = SubSeq(node.items, 1, n) ++ One(node.items[n + 1])
          /\ node.items[n + 1] \in AnyItem
      BY <3>2, <3>3, FrontAndLast
    <3>5. Rightmost[0][node] = node.items[n + 1]
      BY <3>1, <3>2, RightmostOf DEF Last
    <3>6. InOrder[0][node] = node.items
      BY <3>1, InOrderOf
    <3>7. QED
      BY <3>4, <3>5, <3>6, Zenon
  <2>2. QED
    BY <2>1 DEF EndsRight
<1>2. ASSUME NEW h \in 0 .. g - 1, h \in S
      PROVE  h + 1 \in S
  <2>1. h + 1 \in Nat /\ h + 1 > 0 /\ (h + 1) - 1 = h /\ h + 1 \in 0 .. g /\ h + 1 # 0 /\ h \in Nat
    OBVIOUS
  <2>2. ASSUME NEW node \in Filled(degree)[h + 1]
        PROVE  /\ Rightmost[h + 1][node] \in AnyItem
               /\ \E C \in Seq(AnyItem) : InOrder[h + 1][node] = C ++ One(Rightmost[h + 1][node])
    <3>1. Loose(h + 1, node) /\ node \in Tree[h + 1]
      BY <2>1, OfFilled
    <3>2. Len(node.kids) = Len(node.items) + 1 /\ Len(node.items) \in Nat
      BY <2>1, <3>1, KidCount
    <3> DEFINE i == Len(node.kids)
    <3>3. i \in 1 .. Len(node.kids) /\ i > Len(node.items)
      BY <3>2
    <3>4. Last(node.kids) = node.kids[i]
      BY DEF Last
    <3> HIDE DEF i
    <3>5. PICK A, B \in Seq(AnyItem) : KidPlace(h + 1, node, i, A, B)
      BY <2>1, <3>1, <3>3, LooseKid
    <3>6. B = <<>>
      BY <3>3, <3>5 DEF KidPlace, Surrounds
    <3> DEFINE kid == node.kids[i]  s == InOrder[h][kid]  x == Rightmost[h][kid]
    <3>7. s \in Seq(AnyItem) /\ InOrder[h + 1][node] = (A ++ s) ++ <<>>
      BY <2>1, <3>5, <3>6 DEF KidPlace
    <3>8. kid \in Filled(degree)[h]
      BY <2>1, <3>1, <3>3, LooseFields
    <3>9. Rightmost[h + 1][node] = x
      BY <2>1, <3>1, <3>4, RightmostOf
    <3>10. x \in AnyItem /\ \E C \in Seq(AnyItem) : s = C ++ One(x)
      BY <1>2, <3>8, Zenon DEF EndsRight
    <3>11. PICK C \in Seq(AnyItem) : s = C ++ One(x)
      BY <3>10
    <3> HIDE DEF kid, s, x
    <3>12. One(x) \in Seq(AnyItem) /\ A ++ s \in Seq(AnyItem) /\ A ++ C \in Seq(AnyItem)
      BY <3>7, <3>10, ItemCats
    <3>13. (A ++ s) ++ <<>> = A ++ s /\ (A ++ C) ++ One(x) = A ++ (C ++ One(x))
      BY <3>12, ItemCats
    <3>14. InOrder[h + 1][node] = (A ++ C) ++ One(x)
      BY <3>7, <3>11, <3>13
    <3>15. QED
      BY <3>9, <3>10, <3>12, <3>14
  <2>3. EndsRight(h + 1)
    BY <2>2 DEF EndsRight
  <2>4. QED
    BY <2>1, <2>3
<1>3. \A h \in 0 .. g : h \in S
  <2> HIDE DEF S
  <2>1. QED
    BY <1>1, <1>2, IntervalInduction
<1>4. QED
  BY <1>3

\* The walk down the first children of a tree of level h ends at its first
\* item.
EndsLeft(h) ==
    \A node \in Filled(degree)[h] :
        /\ Leftmost[h][node] \in AnyItem
        /\ \E C \in Seq(AnyItem) : InOrder[h][node] = One(Leftmost[h][node]) ++ C

\* The walk to the first item, unfolded once.
LEMMA LeftmostOf ==
    \A h \in Nat : \A node \in Tree[h] :
        Leftmost[h][node] = IF h = 0 THEN Head(node.items) ELSE Leftmost[h - 1][Head(node.kids)]
<1> DEFINE f == Leftmost
<1> HIDE DEF f
<1>1. f = [h \in Nat |-> HeadIn(h, f[h - 1])]
  BY LevelFunctions DEF f
<1>2. \A h \in Nat : f[h] = HeadIn(h, f[h - 1])
  BY <1>1
<1>3. \A h \in Nat : \A node \in Tree[h] :
          f[h][node] = IF h = 0 THEN Head(node.items) ELSE f[h - 1][Head(node.kids)]
  <2> SUFFICES ASSUME NEW h \in Nat, NEW node \in Tree[h]
               PROVE  f[h][node] = IF h = 0 THEN Head(node.items) ELSE f[h - 1][Head(node.kids)]
    OBVIOUS
  <2>1. f[h] = HeadIn(h, f[h - 1])
    BY <1>2, Zenon
  <2>2. QED
    BY <2>1 DEF HeadIn
<1>4. QED
  BY <1>3 DEF f

\* The walk down the first children ends at the first item of the subtree.
LEMMA LeftmostIsFirst ==
    ASSUME DegreeOK
    PROVE  \A h \in Nat : EndsLeft(h)
<1> SUFFICES ASSUME NEW g \in Nat
             PROVE  EndsLeft(g)
  OBVIOUS
<1> DEFINE S == {h \in 0 .. g : EndsLeft(h)}
<1>1. 0 \in S
  <2>1. ASSUME NEW node \in Filled(degree)[0]
        PROVE  /\ Leftmost[0][node] \in AnyItem
               /\ \E C \in Seq(AnyItem) : InOrder[0][node] = One(Leftmost[0][node]) ++ C
    <3>1. node \in Tree[0] /\ Len(node.items) \in Nat /\ Len(node.items) >= degree - 1
      BY OfFilled
    <3>2. 1 \in 1 .. Len(node.items)
      BY <3>1 DEF DegreeOK
    <3>3. node.items \in Seq(AnyItem)
      BY <3>1, TreeFields
    <3>4. /\ From(node.items, 1 + 1) \in Seq(AnyItem)
          /\ node.items = FirstOf(node.items, 1) ++ From(node.items, 1 + 1)
          /\ node.items[1] \in AnyItem
      BY <3>2, <3>3, CutAfter, ElementOfSeq, Zenon
    <3>5. Leftmost[0][node] = node.items[1] /\ FirstOf(node.items, 1) = One(node.items[1])
      <4> DEFINE n == Len(node.items) - 1
      <4>1. n \in Nat /\ Len(node.items) = n + 1
        BY <3>1 DEF DegreeOK
      <4> HIDE DEF n
      <4>2. Head(node.items) = node.items[1] /\ FirstOf(node.items, 1) = One(node.items[1])
        BY <3>3, <4>1, Ends, Zenon
      <4>3. QED
        BY <3>1, <4>2, LeftmostOf
    <3>6. InOrder[0][node] = node.items
      BY <3>1, InOrderOf
    <3>7. QED
      BY <3>4, <3>5, <3>6
  <2>2. QED
    BY <2>1 DEF EndsLeft
<1>2. ASSUME NEW h \in 0 .. g - 1, h \in S
      PROVE  h + 1 \in S
  <2>1. h + 1 \in Nat /\ h + 1 > 0 /\ (h + 1) - 1 = h /\ h + 1 \in 0 .. g /\ h + 1 # 0 /\ h \in Nat
    OBVIOUS
  <2>2. ASSUME NEW node \in Filled(degree)[h + 1]
        PROVE  /\ Leftmost[h + 1][node] \in AnyItem
               /\ \E C \in Seq(AnyItem) : InOrder[h + 1][node] = One(Leftmost[h + 1][node]) ++ C
    <3>1. Loose(h + 1, node) /\ node \in Tree[h + 1]
      BY <2>1, OfFilled
    <3>2. Len(node.kids) = Len(node.items) + 1 /\ Len(node.items) \in Nat
      BY <2>1, <3>1, KidCount
    <3> DEFINE i == 1
    <3>3. i \in 1 .. Len(node.kids) /\ i = 1
      BY <3>2
    <3>4. Head(node.kids) = node.kids[i]
      OBVIOUS
    <3> HIDE DEF i
    <3>5. PICK A, B \in Seq(AnyItem) : KidPlace(h + 1, node, i, A, B)
      BY <2>1, <3>1, <3>3, LooseKid
    <3>6. A = <<>>
      BY <3>3, <3>5 DEF KidPlace, Surrounds
    <3> DEFINE kid == node.kids[i]  s == InOrder[h][kid]  x == Leftmost[h][kid]
    <3>7. s \in Seq(AnyItem) /\ InOrder[h + 1][node] = (<<>> ++ s) ++ B
      BY <2>1, <3>5, <3>6 DEF KidPlace
    <3>8. kid \in Filled(degree)[h]
      BY <2>1, <3>1, <3>3, LooseFields
    <3>9. Leftmost[h + 1][node] = x
      BY <2>1, <3>1, <3>4, LeftmostOf
    <3>10. x \in AnyItem /\ \E C \in Seq(AnyItem) : s = One(x) ++ C
      BY <1>2, <3>8 DEF EndsLeft
    <3>11. PICK C \in Seq(AnyItem) : s = One(x) ++ C
      BY <3>10
    <3> HIDE DEF kid, s, x
    <3>12. One(x) \in Seq(AnyItem) /\ C ++ B \in Seq(AnyItem)
      BY <3>10, ItemCats
    <3>13. <<>> ++ s = s /\ (One(x) ++ C) ++ B = One(x) ++ (C ++ B)
      BY <3>7, <3>12, ItemCats
    <3>14. InOrder[h + 1][node] = One(x) ++ (C ++ B)
      BY <3>7, <3>11, <3>13
    <3>15. QED
      BY <3>9, <3>10, <3>12, <3>14
  <2>3. EndsLeft(h + 1)
    BY <2>2 DEF EndsLeft
  <2>4. QED
    BY <2>1, <2>3
<1>3. \A h \in 0 .. g : h \in S
  <2> HIDE DEF S
  <2>1. QED
    BY <1>1, <1>2, IntervalInduction
<1>4. QED
  BY <1>3

-----------------------------------------------------------------------------
(* 14. A key and the child it fits *)

\* The key may lie in child i, or can only lie there.
Fits(node, i, k) ==
    /\ i > 1 => node.items[i - 1].key <= k
    /\ i <= Len(node.items) => k <= node.items[i].key

\* Key k lies strictly between the items around child i.
FitsOnly(node, i, k) ==
    /\ i > 1 => node.items[i - 1].key < k
    /\ i <= Len(node.items) => k < node.items[i].key

\* What is needed of the sides of a child that is in its place.
Sides(node, i, A, B) ==
    /\ \A x \in ToSet(A) : x \in AnyItem /\ i > 1 /\ node.items[i - 1] \in AnyItem
                              /\ x.key <= node.items[i - 1].key
    /\ \A x \in ToSet(B) : x \in AnyItem /\ i <= Len(node.items) /\ node.items[i] \in AnyItem
                              /\ node.items[i].key <= x.key

\* What is before child i lies at or below item i - 1, what is after it at or
\* above item i.
LEMMA SidesInPlace ==
    ASSUME NEW h \in Nat, h > 0, NEW node, Loose(h, node), Ordered(InOrder[h][node]),
           NEW i \in 1 .. Len(node.kids), NEW A \in Seq(AnyItem), NEW B \in Seq(AnyItem),
           KidPlace(h, node, i, A, B)
    PROVE  Sides(node, i, A, B)
<1> DEFINE s == InOrder[h - 1][node.kids[i]]
<1>1. /\ Surrounds(h, node, i, A, B) /\ s \in Seq(AnyItem)
      /\ InOrder[h][node] = (A ++ s) ++ B
  BY DEF KidPlace
<1>2. Ordered((A ++ s) ++ B)
  BY <1>1
<1>3. Len(node.items) \in Nat /\ \A m \in 1 .. Len(node.items) : node.items[m] \in AnyItem
  BY LooseFields, TreeFields
<1>4. Len(node.kids) = Len(node.items) + 1
  BY KidCount, Zenon
<1>5. i \in 1 .. Len(node.items) + 1
  BY <1>4
<1> HIDE DEF s
<1>6. /\ \A x \in ToSet(A) : i > 1 /\ x.key <= node.items[i - 1].key
      /\ \A x \in ToSet(B) : i <= Len(node.items) /\ node.items[i].key <= x.key
  BY <1>1, <1>2, <1>3, <1>5, SidesOf, Zenon
<1>7. ToSet(A) \subseteq AnyItem /\ ToSet(B) \subseteq AnyItem
  BY CatSets
<1>8. i > 1 => i - 1 \in 1 .. Len(node.items)
  BY <1>3, <1>5
<1>9. i <= Len(node.items) => i \in 1 .. Len(node.items)
  BY <1>3, <1>5
<1>10. (i > 1 => node.items[i - 1] \in AnyItem) /\ (i <= Len(node.items) => node.items[i] \in AnyItem)
  BY <1>3, <1>8, <1>9
<1>11. QED
  BY <1>6, <1>7, <1>10 DEF Sides

\* An item whose key fits child i lies between all that is before and all
\* that is after the child.
LEMMA AroundKey ==
    ASSUME NEW node, NEW i, NEW A, NEW B, Sides(node, i, A, B),
           NEW x \in AnyItem, Fits(node, i, x.key)
    PROVE  Precedes(A, One(x)) /\ Precedes(One(x), B)
<1>1. ASSUME NEW y \in ToSet(A)
      PROVE  y.key <= x.key
  BY ItemsAreKeyed DEF Sides, Fits
<1>2. ASSUME NEW y \in ToSet(B)
      PROVE  x.key <= y.key
  BY ItemsAreKeyed DEF Sides, Fits
<1>3. QED
  BY <1>1, <1>2, OrderedCats

\* A key strictly between the items around child i is neither before nor
\* after the child.
LEMMA NotAround ==
    ASSUME NEW node, NEW i, NEW A \in Seq(AnyItem), NEW B \in Seq(AnyItem), Sides(node, i, A, B),
           NEW k \in Key, FitsOnly(node, i, k)
    PROVE  Hits(A, Keyed(k)) = 0 /\ Hits(B, Keyed(k)) = 0
<1>0. k \in Int
  BY KeyAssumption
<1>1. ASSUME NEW y \in ToSet(A)
      PROVE  y \notin Keyed(k)
  BY <1>0, ItemsAreKeyed DEF Sides, FitsOnly, Keyed
<1>2. ASSUME NEW y \in ToSet(B)
      PROVE  y \notin Keyed(k)
  BY <1>0, ItemsAreKeyed DEF Sides, FitsOnly, Keyed
<1>3. ToSet(A) \cap Keyed(k) = {} /\ ToSet(B) \cap Keyed(k) = {}
  BY <1>1, <1>2
<1>4. QED
  BY <1>3, HitsCats

\* The items of a node are among those in order.
LEMMA OwnItems ==
    ASSUME NEW h \in Nat, NEW node, Loose(h, node), NEW m \in 1 .. Len(node.items)
    PROVE  node.items[m] \in ToSet(InOrder[h][node]) /\ node.items[m] \in AnyItem
<1>1. node \in Tree[h] /\ node.items \in Seq(AnyItem) /\ node.items[m] \in AnyItem
  BY LooseFields, TreeFields
<1>2. CASE h = 0
  <2>1. InOrder[h][node] = node.items
    BY <1>1, <1>2, InOrderOf
  <2>2. QED
    BY <1>1, <2>1 DEF ToSet
<1>3. CASE h > 0
  <2> DEFINE x == node.items[m]  l == InOrder[h - 1][node.kids[m]]
             r == InOrder[h - 1][node.kids[m + 1]]
  <2>1. PICK A, B \in Seq(AnyItem) : TwoPlace(h, node, m, A, B)
    BY <1>3, LooseTwo
  <2>2. /\ l \in Seq(AnyItem) /\ r \in Seq(AnyItem)
        /\ InOrder[h][node] = (A ++ ((l ++ One(x)) ++ r)) ++ B
    BY <2>1 DEF TwoPlace
  <2>3. x \in AnyItem
    BY <1>1
  <2> HIDE DEF x, l, r
  <2>4. One(x) \in Seq(AnyItem) /\ l ++ One(x) \in Seq(AnyItem)
    BY <2>2, <2>3, ItemCats
  <2>5. (l ++ One(x)) ++ r \in Seq(AnyItem) /\ x \in ToSet((l ++ One(x)) ++ r)
    <3> DEFINE u == l ++ One(x)
    <3>1. u \in Seq(AnyItem) /\ ToSet(u) = ToSet(l) \cup ToSet(One(x)) /\ ToSet(One(x)) = {x}
      BY <2>2, <2>4, CatSets
    <3> HIDE DEF u
    <3>2. u ++ r \in Seq(AnyItem) /\ ToSet(u ++ r) = ToSet(u) \cup ToSet(r)
      BY <2>2, <3>1, ItemCats, CatSets, Zenon
    <3>3. QED
      BY <3>1, <3>2 DEF u
  <2> DEFINE s == (l ++ One(x)) ++ r
  <2> HIDE DEF s
  <2>6. s \in Seq(AnyItem) /\ x \in ToSet(s)
    BY <2>5 DEF s
  <2>7. x \in ToSet((A ++ s) ++ B)
    BY <2>6, AroundFacts DEF IsAround
  <2>8. QED
    BY <1>1, <2>2, <2>7 DEF s, x
<1>4. QED
  BY <1>2, <1>3

\* A child of a loose node is filled and loose.
LEMMA KidIn ==
    ASSUME NEW h \in Nat, h > 0, NEW node, Loose(h, node), NEW i \in 1 .. Len(node.kids)
    PROVE  /\ h - 1 \in Nat /\ node.kids[i] \in Filled(degree)[h - 1]
           /\ node.kids[i] \in Tree[h - 1] /\ Loose(h - 1, node.kids[i])
<1>1. /\ h - 1 \in Nat
      /\ \A n \in 1 .. Len(node.kids) : node.kids[n] \in Filled(degree)[h - 1]
  BY LooseFields
<1>2. node.kids[i] \in Filled(degree)[h - 1]
  BY <1>1
<1>3. QED
  BY <1>1, <1>2, FilledNodes

-----------------------------------------------------------------------------
(* 15. Searching *)

\* What is found for a key: a value that is there with it, or that there is none.
Finds(h, node, k) ==
    LET v == SearchNode[h][[node |-> node, key |-> k]]
        s == InOrder[h][node]
    IN  \/ v = Absent /\ Hits(s, Keyed(k)) = 0
        \/ \E x \in ToSet(s) : x.key = k /\ v = x.value

\* btree_search_node, unfolded once.
LEMMA SearchOf ==
    \A h \in Nat : \A node \in Tree[h], k \in Key :
        LET at == Below(node, k) + 1
        IN  SearchNode[h][[node |-> node, key |-> k]] =
                IF IsAt(node, at, k) THEN node.items[at].value
                ELSE IF h = 0 THEN Absent
                ELSE SearchNode[h - 1][[node |-> node.kids[at], key |-> k]]
<1> DEFINE f == SearchNode
<1> HIDE DEF f
<1>1. f = [h \in Nat |-> SearchIn(h, f[h - 1])]
  BY LevelFunctions DEF f
<1>2. \A h \in Nat : f[h] = SearchIn(h, f[h - 1])
  BY <1>1
<1>3. ASSUME NEW h \in Nat, NEW node \in Tree[h], NEW k \in Key
      PROVE  LET at == Below(node, k) + 1
             IN  f[h][[node |-> node, key |-> k]] =
                    IF IsAt(node, at, k) THEN node.items[at].value
                    ELSE IF h = 0 THEN Absent
                    ELSE f[h - 1][[node |-> node.kids[at], key |-> k]]
  <2> DEFINE s == [node |-> node, key |-> k]
  <2>1. s \in Sought(h) /\ s.node = node /\ s.key = k
    BY DEF Sought
  <2>2. \A kid : [s EXCEPT !.node = kid] = [node |-> kid, key |-> k]
    OBVIOUS
  <2> HIDE DEF s
  <2> DEFINE at == Below(node, k) + 1
  <2>3. f[h][s] = IF IsAt(node, at, k) THEN node.items[at].value
                  ELSE IF h = 0 THEN Absent
                  ELSE f[h - 1][[s EXCEPT !.node = node.kids[at]]]
    <3>1. f[h] = SearchIn(h, f[h - 1])
      BY <1>2
    <3>2. f[h][s] = LET place == Below(s.node, s.key) + 1
                    IN  IF IsAt(s.node, place, s.key) THEN s.node.items[place].value
                        ELSE IF h = 0 THEN Absent
                        ELSE f[h - 1][[s EXCEPT !.node = s.node.kids[place]]]
      BY <2>1, <3>1, Zenon DEF SearchIn
    <3>3. QED
      BY <2>1, <3>2, Zenon
  <2> HIDE DEF at
  <2>4. [s EXCEPT !.node = node.kids[at]] = [node |-> node.kids[at], key |-> k]
    BY <2>2, Zenon
  <2>5. QED
    BY <2>3, <2>4 DEF s, at
<1>4. QED
  BY <1>3, Zenon DEF f

\* Where a key is looked for in a node: it is at the place, or it can only lie
\* in the child there.
LEMMA PlaceOf ==
    ASSUME NEW h \in Nat, NEW node, Loose(h, node), Ordered(InOrder[h][node]), NEW k \in Key
    PROVE  LET at == Below(node, k) + 1
           IN  /\ at \in 1 .. Len(node.items) + 1 /\ DOMAIN node.items = 1 .. Len(node.items)
               /\ IsAt(node, at, k) => at \in 1 .. Len(node.items) /\ node.items[at].key = k
               /\ ~IsAt(node, at, k) =>
                     /\ FitsOnly(node, at, k)
                     /\ \A m \in 1 .. Len(node.items) : node.items[m].key # k
<1> DEFINE b == Below(node, k)  c == Len(node.items)
<1>1. Shaped(h, node) /\ c \in Nat /\ DOMAIN node.items = 1 .. c
      /\ \A m \in 1 .. c : node.items[m] \in AnyItem
  BY LooseFields, TreeFields, Zenon
<1>2. k \in Int /\ \A m \in 1 .. c : node.items[m].key \in Int
  BY <1>1, KeyAssumption, ItemsAreKeyed
<1>3. b \in 0 .. c /\ \A m \in 1 .. c : m <= b <=> node.items[m].key < k
  BY <1>1, <1>2, Positions, Zenon
<1>4. \A m, n \in 1 .. c : m <= n => node.items[m].key <= node.items[n].key
  BY <1>1, ItemsAscend
<1> HIDE DEF b, c
<1>5. IsAt(node, b + 1, k) => b + 1 \in 1 .. c /\ node.items[b + 1].key = k
  BY <1>1 DEF IsAt
<1>6. ASSUME ~IsAt(node, b + 1, k)
      PROVE  /\ FitsOnly(node, b + 1, k)
             /\ \A m \in 1 .. c : node.items[m].key # k
  <2>1. b + 1 > 1 => node.items[(b + 1) - 1].key < k
    <3>1. (b + 1) - 1 = b /\ (b + 1 > 1 => b \in 1 .. c /\ b <= b)
      BY <1>1, <1>3
    <3>2. QED
      BY <1>3, <3>1
  <2>2. b + 1 <= c => b + 1 \in 1 .. c /\ ~(b + 1 <= b)
    BY <1>1, <1>3
  <2>3. b + 1 <= c => k < node.items[b + 1].key
    <3>1. b + 1 <= c => node.items[b + 1].key # k /\ ~(node.items[b + 1].key < k)
      BY <1>1, <1>3, <1>6, <2>2 DEF IsAt
    <3>2. QED
      BY <1>2, <2>2, <3>1
  <2>4. ASSUME NEW m \in 1 .. c
        PROVE  node.items[m].key # k
    <3>1. CASE m <= b
      BY <1>2, <1>3, <3>1
    <3>2. CASE ~(m <= b)
      <4>1. b + 1 \in 1 .. c /\ b + 1 <= m /\ b + 1 <= c
        BY <1>1, <1>3, <3>2
      <4>2. k < node.items[b + 1].key /\ node.items[b + 1].key <= node.items[m].key
        BY <1>4, <2>3, <4>1
      <4>3. QED
        BY <1>2, <4>1, <4>2
    <3>3. QED
      BY <3>1, <3>2
  <2>5. QED
    BY <2>1, <2>3, <2>4 DEF FitsOnly, c
<1>7. b + 1 \in 1 .. c + 1
  BY <1>1, <1>3
<1>8. QED
  BY <1>1, <1>5, <1>6, <1>7 DEF b, c

\* Searches are right at level h.
Searches(h) ==
    \A node, k : Loose(h, node) /\ Ordered(InOrder[h][node]) /\ k \in Key => Finds(h, node, k)

\* A search is right in a node when it is right in its children.
LEMMA SearchStep ==
    ASSUME NEW h \in Nat, NEW node, Loose(h, node), Ordered(InOrder[h][node]), NEW k \in Key,
           h > 0 => Searches(h - 1)
    PROVE  Finds(h, node, k)
<1> DEFINE at == Below(node, k) + 1  kid == node.kids[at]  s == InOrder[h][node]
           v == SearchNode[h][[node |-> node, key |-> k]]
<1>1. node \in Tree[h]
  BY LooseFields
<1>2. v = IF IsAt(node, at, k) THEN node.items[at].value
          ELSE IF h = 0 THEN Absent
          ELSE SearchNode[h - 1][[node |-> kid, key |-> k]]
  BY <1>1, SearchOf
<1>3. /\ at \in 1 .. Len(node.items) + 1 /\ DOMAIN node.items = 1 .. Len(node.items)
      /\ IsAt(node, at, k) => at \in 1 .. Len(node.items) /\ node.items[at].key = k
      /\ ~IsAt(node, at, k) =>
            /\ FitsOnly(node, at, k)
            /\ \A m \in 1 .. Len(node.items) : node.items[m].key # k
  BY PlaceOf
<1> HIDE DEF at, v
<1>4. CASE IsAt(node, at, k)
  <2>1. v = node.items[at].value
    BY <1>2, <1>4
  <2>2. node.items[at].key = k /\ node.items[at] \in ToSet(s)
    BY <1>3, <1>4, OwnItems
  <2>3. \E x \in ToSet(s) : x.key = k /\ v = x.value
    BY <2>1, <2>2
  <2>4. QED
    BY <2>3 DEF Finds, v
<1>5. CASE ~IsAt(node, at, k) /\ h = 0
  <2>1. v = Absent
    BY <1>2, <1>5
  <2>2. s = node.items /\ s \in Seq(AnyItem)
    BY <1>1, <1>5, InOrderOf, TreeFields
  <2>3. ToSet(s) \cap Keyed(k) = {}
    BY <1>3, <1>5, <2>2 DEF ToSet, Keyed
  <2>4. Hits(s, Keyed(k)) = 0
    <3> HIDE DEF s
    <3>1. QED
      BY <2>2, <2>3, HitsCats
  <2>5. QED
    BY <2>1, <2>4 DEF Finds, v
<1>6. CASE ~IsAt(node, at, k) /\ h > 0
  <2>1. at \in 1 .. Len(node.kids) /\ h - 1 \in Nat
    <3>1. Len(node.kids) = Len(node.items) + 1
      BY <1>6, KidCount, Zenon
    <3>2. QED
      BY <1>3, <1>6, <3>1
  <2>2. PICK A, B \in Seq(AnyItem) : KidPlace(h, node, at, A, B)
    BY <1>6, <2>1, LooseKid
  <2> DEFINE t == InOrder[h - 1][kid]  w == SearchNode[h - 1][[node |-> kid, key |-> k]]
  <2>3. t \in Seq(AnyItem) /\ s = (A ++ t) ++ B
    BY <2>2 DEF KidPlace
  <2>4. Sides(node, at, A, B)
    BY <1>6, <2>1, <2>2, SidesInPlace
  <2>5. Hits(A, Keyed(k)) = 0 /\ Hits(B, Keyed(k)) = 0
    BY <1>3, <1>6, <2>4, NotAround
  <2>6. kid \in Filled(degree)[h - 1]
    BY <1>6, <2>1, KidIn, Zenon
  <2> HIDE DEF kid
  <2>7. Loose(h - 1, kid)
    BY <2>1, <2>6, FilledNodes
  <2>8. v = w
    BY <1>2, <1>6
  <2>9. Ordered(s)
    OBVIOUS
  <2> HIDE DEF s, w, t
  <2>10. Ordered(t)
    BY <2>3, <2>9, OrderedAround
  <2>11. Finds(h - 1, kid, k)
    BY <1>6, <2>7, <2>10 DEF Searches, t
  <2>12. \/ w = Absent /\ Hits(t, Keyed(k)) = 0
         \/ \E x \in ToSet(t) : x.key = k /\ w = x.value
    BY <2>11, Zenon DEF Finds, w, t
  <2>13. IsAround(s, A, t, B)
    BY <2>3, AroundFacts
  <2>14. /\ ToSet(t) \subseteq ToSet(s)
         /\ Hits(s, Keyed(k)) = Hits(A, Keyed(k)) + Hits(t, Keyed(k)) + Hits(B, Keyed(k))
    BY <2>13 DEF IsAround
  <2>15. \/ v = Absent /\ Hits(s, Keyed(k)) = 0
         \/ \E x \in ToSet(s) : x.key = k /\ v = x.value
    BY <2>5, <2>8, <2>12, <2>14
  <2>16. QED
    BY <2>15, Zenon DEF Finds, v, s
<1>7. h = 0 \/ h > 0
  OBVIOUS
<1>8. QED
  BY <1>4, <1>5, <1>6, <1>7, Zenon

\* btree_search_node answers a value of the key when the tree holds one and
\* Absent otherwise.
LEMMA SearchFinds == \A h \in Nat : Searches(h)
<1> SUFFICES ASSUME NEW g \in Nat
             PROVE  Searches(g)
  OBVIOUS
<1> DEFINE S == {h \in 0 .. g : Searches(h)}
<1>2. 0 \in S
  <2>1. Searches(0)
    BY SearchStep DEF Searches
  <2>2. QED
    BY <2>1
<1>3. ASSUME NEW h \in 0 .. g - 1, h \in S
      PROVE  h + 1 \in S
  <2>1. h + 1 \in Nat /\ h + 1 \in 0 .. g /\ (h + 1) - 1 = h /\ Searches(h)
    BY <1>3
  <2>2. Searches(h + 1)
    BY <2>1, SearchStep DEF Searches
  <2>3. QED
    BY <2>1, <2>2
<1>4. \A h \in 0 .. g : h \in S
  <2> HIDE DEF S
  <2>1. QED
    BY <1>2, <1>3, IntervalInduction
<1>5. QED
  BY <1>4

-----------------------------------------------------------------------------
(* 16. The place of one item *)

\* Item m of a node, with all that is before and all that is after it.
ItemPlace(h, node, m, A, B) ==
    /\ InOrder[h][node] = (A ++ One(node.items[m])) ++ B
    /\ \A x \in AnyItem : /\ Loose(h, ItemPut(node, m, x))
                          /\ Len(ItemPut(node, m, x).items) = Len(node.items)
                          /\ InOrder[h][ItemPut(node, m, x)] = (A ++ One(x)) ++ B

\* An element of a sequence is replaced.
LEMMA AlteredParts ==
    ASSUME NEW T, NEW s \in Seq(T), NEW i \in 1 .. Len(s), NEW x \in T
    PROVE  /\ Altered(s, i, x) \in Seq(T) /\ Len(Altered(s, i, x)) = Len(s)
           /\ Altered(s, i, x) = (FirstOf(s, i - 1) ++ One(x)) ++ From(s, i + 1)
<1> DEFINE p == Altered(s, i, x)  a == FirstOf(s, i - 1)  b == From(s, i + 1)
<1>1. /\ p \in Seq(T) /\ Len(p) = Len(s)
      /\ \A m \in 1 .. Len(s) : p[m] = IF m = i THEN x ELSE s[m]
  BY ExceptSeq DEF Altered
<1>2. /\ a \in Seq(T) /\ Len(a) = i - 1 /\ b \in Seq(T) /\ Len(b) = Len(s) - i
      /\ \A m \in 1 .. i - 1 : a[m] = s[m]
      /\ \A m \in 1 .. Len(s) - i : b[m] = s[i + m]
  BY CutAt, Zenon
<1>3. Len(s) \in Nat
  OBVIOUS
<1> HIDE DEF p, a, b
<1>4. Consists(p, a, x, b)
  <2>1. Len(p) = Len(a) + 1 + Len(b)
    BY <1>1, <1>2, <1>3
  <2>2. ASSUME NEW n \in 1 .. Len(a)
        PROVE  p[n] = a[n]
    <3>1. n \in 1 .. i - 1 /\ n \in 1 .. Len(s) /\ n # i
      BY <1>2, <1>3
    <3>2. QED
      BY <1>1, <1>2, <3>1, Zenon
  <2>3. p[Len(a) + 1] = x
    BY <1>1, <1>2
  <2>4. ASSUME NEW n \in 1 .. Len(b)
        PROVE  p[Len(a) + 1 + n] = b[n]
    <3>1. n \in 1 .. Len(s) - i /\ i + n \in 1 .. Len(s) /\ i + n # i /\ Len(a) + 1 + n = i + n
      BY <1>2, <1>3
    <3>2. QED
      BY <1>1, <1>2, <3>1, Zenon
  <2>5. QED
    BY <2>1, <2>2, <2>3, <2>4 DEF Consists
<1>5. p = (a ++ One(x)) ++ b
  BY <1>1, <1>2, <1>4, Assemble
<1>6. QED
  BY <1>1, <1>5 DEF p, a, b

\* Assigning an element what it is changes nothing.
LEMMA AlteredSame ==
    ASSUME NEW T, NEW s \in Seq(T), NEW i
    PROVE  Altered(s, i, s[i]) = s
BY DEF Altered

\* The place of one item of a loose node, whatever item stands there.
LEMMA ItemInPlace ==
    ASSUME NEW h \in Nat, NEW node, Loose(h, node), NEW m \in 1 .. Len(node.items)
    PROVE  \E A, B \in Seq(AnyItem) : ItemPlace(h, node, m, A, B)
<1>1. /\ node = Node(h, node.items, node.kids) /\ node.items \in Seq(AnyItem) /\ node \in Tree[h]
      /\ Len(node.items) \in Nat /\ node.items[m] \in AnyItem
  BY LooseFields, OwnItems
<1> DEFINE new(x) == ItemPut(node, m, x)  I(x) == Altered(node.items, m, x)
<1>2. ASSUME NEW x \in AnyItem
      PROVE  new(x) = Node(h, I(x), node.kids) /\ new(x).items = I(x) /\ new(x).kids = node.kids
  <2>1. ItemPut(Node(h, node.items, node.kids), m, x)
           = Node(h, Altered(node.items, m, x), node.kids)
    BY ItemPutNode
  <2>2. new(x) = Node(h, I(x), node.kids)
    BY <1>1, <2>1
  <2> HIDE DEF new, I
  <2>3. QED
    BY <2>2, NodeFields
<1>3. ASSUME NEW x \in AnyItem
      PROVE  /\ I(x) \in Seq(AnyItem) /\ Len(I(x)) = Len(node.items)
             /\ I(x) = (FirstOf(node.items, m - 1) ++ One(x)) ++ From(node.items, m + 1)
  BY <1>1, AlteredParts
<1> HIDE DEF new, I
<1>4. ASSUME NEW x \in AnyItem
      PROVE  Loose(h, new(x)) /\ Len(new(x).items) = Len(node.items)
  <2>1. IF h = 0 THEN node.kids = <<>>
        ELSE /\ node.kids \in Seq(Filled(degree)[h - 1]) /\ Len(node.kids) = Len(I(x)) + 1
    BY <1>3, LooseFields, Zenon
  <2>2. QED
    BY <1>2, <1>3, <2>1, MakeLoose
<1>5. CASE h = 0
  <2> DEFINE A == FirstOf(node.items, m - 1)  B == From(node.items, m + 1)
  <2>1. A \in Seq(AnyItem) /\ B \in Seq(AnyItem) /\ node.items = (A ++ One(node.items[m])) ++ B
    BY <1>1, CutAt, Zenon
  <2>2. InOrder[h][node] = node.items
    BY <1>1, <1>5, InOrderOf
  <2>3. ASSUME NEW x \in AnyItem
        PROVE  InOrder[h][new(x)] = (A ++ One(x)) ++ B
    <3>1. new(x) \in Tree[h]
      BY <1>4, LooseFields
    <3>2. InOrder[h][new(x)] = new(x).items
      BY <1>5, <3>1, InOrderOf
    <3>3. QED
      BY <1>2, <1>3, <3>2
  <2> HIDE DEF A, B
  <2>4. ItemPlace(h, node, m, A, B)
    BY <1>4, <2>1, <2>2, <2>3 DEF ItemPlace, new
  <2>5. QED
    BY <2>1, <2>4
<1>6. CASE h > 0
  <2> DEFINE l == node.kids[m]  r == node.kids[m + 1]  s == InOrder[h - 1][l]  t == InOrder[h - 1][r]
  <2>1. PICK C, D \in Seq(AnyItem) : TwoPlace(h, node, m, C, D)
    BY <1>6, LooseTwo, Zenon
  <2>2. l \in Filled(degree)[h - 1] /\ r \in Filled(degree)[h - 1] /\ l \in Tree[h - 1] /\ r \in Tree[h - 1]
    <3>1. m \in 1 .. Len(node.kids) /\ m + 1 \in 1 .. Len(node.kids)
      BY <1>1, <1>6, LooseFields
    <3>2. QED
      BY <1>6, <3>1, KidIn, Zenon
  <2>3. s \in Seq(AnyItem) /\ t \in Seq(AnyItem)
        /\ InOrder[h][node] = (C ++ ((s ++ One(node.items[m])) ++ t)) ++ D
    BY <2>1 DEF TwoPlace
  <2>4. ASSUME NEW x \in AnyItem
        PROVE  InOrder[h][new(x)] = (C ++ ((s ++ One(x)) ++ t)) ++ D
    <3>1. Altered(Altered(node.kids, m, l), m + 1, r) = node.kids
      <4>1. node.kids \in Seq(Filled(degree)[h - 1])
        BY <1>6, LooseFields
      <4>2. Altered(node.kids, m, l) = node.kids /\ Altered(node.kids, m + 1, r) = node.kids
        BY <4>1, AlteredSame
      <4>3. QED
        BY <4>2
    <3> HIDE DEF l, r
    <3>2. new(x) = Mended(h, node, m, l, x, r)
      BY <1>2, <3>1 DEF Mended, I
    <3>3. Pair(Base(node, m), m, l, x, r) = Mended(h, node, m, l, x, r)
      BY <1>6, <2>2, Repaired
    <3>4. InOrder[h][Pair(Base(node, m), m, l, x, r)] = (C ++ ((s ++ One(x)) ++ t)) ++ D
      BY <2>1, <2>2 DEF TwoPlace, Surrounds
    <3>5. QED
      BY <3>2, <3>3, <3>4
  <2> DEFINE A == C ++ s  B == t ++ D
  <2> HIDE DEF s, t
  <2>5. A \in Seq(AnyItem) /\ B \in Seq(AnyItem)
    BY <2>3, ItemCats
  <2>6. ASSUME NEW x \in AnyItem
        PROVE  (C ++ ((s ++ One(x)) ++ t)) ++ D = (A ++ One(x)) ++ B
    <3> DEFINE u == One(x)  v == s ++ u
    <3>1. u \in Seq(AnyItem)
      BY ItemCats
    <3> HIDE DEF u
    <3>2. v \in Seq(AnyItem)
      BY <2>3, <3>1, ItemCats
    <3>3. C ++ v = (C ++ s) ++ u
      BY <2>3, <3>1, ItemCats
    <3> HIDE DEF v
    <3>4. C ++ (v ++ t) = (C ++ v) ++ t
      BY <2>3, <3>2, ItemCats
    <3>5. A ++ u \in Seq(AnyItem)
      BY <2>5, <3>1, ItemCats
    <3> DEFINE w == A ++ u
    <3> HIDE DEF w
    <3>6. (w ++ t) ++ D = w ++ (t ++ D)
      BY <2>3, <3>5, ItemCats DEF w
    <3>7. QED
      BY <3>3, <3>4, <3>6 DEF w, v, u, A, B
  <2> HIDE DEF A, B
  <2>7. ItemPlace(h, node, m, A, B)
    BY <1>1, <1>4, <2>3, <2>4, <2>6 DEF ItemPlace, new
  <2>8. QED
    BY <2>5, <2>7
<1>7. QED
  BY <1>5, <1>6

-----------------------------------------------------------------------------
(* 17. The child an item goes into *)

\* An item is inserted into a sequence.
LEMMA InsertedBetween ==
    ASSUME NEW s \in Seq(AnyItem), NEW at \in 0 .. Len(s), NEW x \in AnyItem,
           \A m \in 1 .. Len(s) : m <= at <=> s[m].key <= x.key
    PROVE  \E A, B \in Seq(AnyItem) :
              /\ s = A ++ B /\ InsertAt(s, at + 1, x) = (A ++ One(x)) ++ B
              /\ Precedes(A, One(x)) /\ Precedes(One(x), B)
<1> DEFINE A == SubSeq(s, 1, at)  B == SubSeq(s, at + 1, Len(s))  p == InsertAt(s, at + 1, x)
<1>1. /\ A \in Seq(AnyItem) /\ Len(A) = at /\ \A m \in 1 .. at : A[m] = s[m]
      /\ B \in Seq(AnyItem) /\ Len(B) = Len(s) - at /\ \A m \in 1 .. Len(s) - at : B[m] = s[at + m]
      /\ s = A \o B
  BY Cuts, Zenon
<1>2. Len(s) \in Nat /\ at + 1 \in 1 .. Len(s) + 1 /\ (at + 1) - 1 = at
  OBVIOUS
<1>3. IsWith(p, s, at + 1, x, AnyItem)
  BY <1>2, InsertedAt
<1> HIDE DEF A, B, p
<1>4. /\ p \in Seq(AnyItem) /\ Len(p) = Len(s) + 1
      /\ \A m \in 1 .. Len(s) + 1 :
            p[m] = IF m < at + 1 THEN s[m] ELSE IF m = at + 1 THEN x ELSE s[m - 1]
  BY <1>3 DEF IsWith
<1>5. Consists(p, A, x, B)
  <2>1. Len(p) = Len(A) + 1 + Len(B)
    BY <1>1, <1>2, <1>4
  <2>2. ASSUME NEW n \in 1 .. Len(A)
        PROVE  p[n] = A[n]
    BY <1>1, <1>2, <1>4
  <2>3. p[Len(A) + 1] = x
    BY <1>1, <1>2, <1>4
  <2>4. ASSUME NEW n \in 1 .. Len(B)
        PROVE  p[Len(A) + 1 + n] = B[n]
    <3>1. n \in 1 .. Len(s) - at /\ Len(A) + 1 + n = at + n + 1 /\ at + n + 1 \in 1 .. Len(s) + 1
          /\ ~(at + n + 1 < at + 1) /\ at + n + 1 # at + 1 /\ (at + n + 1) - 1 = at + n
      BY <1>1, <1>2
    <3> DEFINE q == at + n + 1
    <3>2. q \in 1 .. Len(s) + 1 /\ ~(q < at + 1) /\ q # at + 1 /\ q - 1 = at + n
      BY <3>1
    <3> HIDE DEF q
    <3>3. p[q] = s[q - 1]
      BY <1>4, <3>2
    <3>4. B[n] = s[at + n]
      BY <1>1, <3>1
    <3>5. QED
      BY <3>1, <3>2, <3>3, <3>4 DEF q
  <2>5. QED
    BY <2>1, <2>2, <2>3, <2>4 DEF Consists
<1>6. p = (A ++ One(x)) ++ B
  BY <1>1, <1>4, <1>5, Assemble
<1>7. Precedes(A, One(x))
  <2>1. ASSUME NEW y \in ToSet(A)
        PROVE  y.key <= x.key
    <3>1. PICK m \in 1 .. Len(A) : A[m] = y
      BY <1>1 DEF ToSet
    <3>2. m \in 1 .. Len(s) /\ m <= at /\ y = s[m]
      BY <1>1, <1>2, <3>1
    <3>3. QED
      BY <3>2
  <2>2. QED
    BY <2>1, OrderedCats
<1>8. Precedes(One(x), B)
  <2>1. ASSUME NEW y \in ToSet(B)
        PROVE  x.key <= y.key
    <3>1. PICK m \in 1 .. Len(B) : B[m] = y
      BY <1>1 DEF ToSet
    <3>2. at + m \in 1 .. Len(s) /\ ~(at + m <= at) /\ y = s[at + m] /\ y \in AnyItem
      BY <1>1, <1>2, <3>1, ElementOfSeq
    <3>3. ~(y.key <= x.key)
      BY <3>2
    <3>4. QED
      BY <3>2, <3>3, ItemsAreKeyed
  <2>2. QED
    BY <2>1, OrderedCats
<1>9. s = A ++ B
  BY <1>1 DEF ++
<1>10. QED
  BY <1>1, <1>6, <1>7, <1>8, <1>9 DEF p

\* The child of a node into which a key goes, made ready for it.
IsParted(h, node, j, k) ==
    LET parted == Parted(node, j)
        i == Side(node, j, k)
    IN  /\ Loose(h, parted) /\ InOrder[h][parted] = InOrder[h][node]
        /\ Len(parted.items) \in {Len(node.items), Len(node.items) + 1}
        /\ i \in 1 .. Len(parted.kids) /\ Fits(parted, i, k)
        /\ ~IsFull(parted.kids[i])

\* Splitting a full child on the way down leaves a child the key fits, which
\* is not full.
LEMMA PartedKeeps ==
    ASSUME NEW h \in Nat, h > 0, NEW node, Loose(h, node), DegreeOK,
           NEW j \in 1 .. Len(node.kids), NEW k \in Key, FitsOnly(node, j, k)
    PROVE  IsParted(h, node, j, k)
<1> DEFINE parted == Parted(node, j)  i == Side(node, j, k)  c == Len(node.items)
<1>1. c \in Nat /\ Len(node.kids) = c + 1 /\ k \in Int
      /\ \A m \in 1 .. c : node.items[m] \in AnyItem /\ node.items[m].key \in Int
  BY LooseFields, TreeFields, KidCount, KeyAssumption, ItemsAreKeyed
<1>2. CASE ~IsFull(node.kids[j])
  <2>1. parted = node /\ i = j
    BY <1>2 DEF Parted, Side
  <2>2. Fits(node, j, k)
    <3>1. (j > 1 => j - 1 \in 1 .. c) /\ (j <= c => j \in 1 .. c)
      BY <1>1
    <3>2. QED
      BY <1>1, <3>1, SMTT(20) DEF Fits, FitsOnly
  <2>3. QED
    BY <1>2, <2>1, <2>2 DEF IsParted
<1>3. CASE IsFull(node.kids[j])
  <2>1. parted = SplitChild(node, j)
    BY <1>3 DEF Parted
  <2>2. i = IF parted.items[j].key < k THEN j + 1 ELSE j
    BY <1>3 DEF Side
  <2>3. IsSplit(h, node, j, parted)
    BY <1>3, <2>1, SplitKeeps
  <2> HIDE DEF parted, i
  <2>4. /\ Loose(h, parted) /\ InOrder[h][parted] = InOrder[h][node]
        /\ Len(parted.items) = c + 1
        /\ Len(parted.kids[j].items) = degree - 1 /\ Len(parted.kids[j + 1].items) = degree - 1
        /\ \A m \in 1 .. c + 1 :
              parted.items[m] = IF m < j THEN node.items[m] ELSE IF m = j THEN parted.items[j]
                                ELSE node.items[m - 1]
    BY <2>3 DEF IsSplit, Kept, IsWith
  <2>5. j \in 1 .. c + 1 /\ Len(parted.kids) = c + 2
    <3>1. Len(parted.kids) = Len(parted.items) + 1
      BY <2>4, KidCount, Zenon
    <3>2. QED
      BY <1>1, <2>4, <3>1
  <2>6. parted.items[j] \in AnyItem /\ parted.items[j].key \in Int
    <3>1. j \in 1 .. Len(parted.items)
      BY <2>4, <2>5
    <3>2. QED
      BY <2>4, <3>1, OwnItems, ItemsAreKeyed
  <2>7. i \in 1 .. Len(parted.kids)
    BY <1>1, <2>2, <2>5
  <2>8. ~IsFull(parted.kids[i])
    BY <2>2, <2>4 DEF IsFull, DegreeOK
  <2>9. Fits(parted, i, k)
    <3>1. CASE parted.items[j].key < k
      <4>1. i = j + 1 /\ i - 1 = j
        BY <2>2, <3>1
      <4>2. ASSUME i <= c + 1
            PROVE  k <= parted.items[i].key
        <5>1. i \in 1 .. c + 1 /\ ~(i < j) /\ i # j /\ j <= c /\ j \in 1 .. c
          BY <1>1, <2>5, <4>1, <4>2
        <5>2. parted.items[i] = node.items[j]
          BY <2>4, <4>1, <5>1
        <5>3. QED
          BY <1>1, <5>1, <5>2 DEF FitsOnly
      <4>3. QED
        BY <1>1, <2>4, <2>6, <3>1, <4>1, <4>2 DEF Fits
    <3>2. CASE ~(parted.items[j].key < k)
      <4>1. i = j
        BY <2>2, <3>2
      <4>2. ASSUME j > 1
            PROVE  parted.items[j - 1].key <= k
        <5>1. j - 1 \in 1 .. c + 1 /\ j - 1 < j /\ j - 1 \in 1 .. c
          BY <1>1, <2>5, <4>2
        <5>2. parted.items[j - 1] = node.items[j - 1]
          BY <2>4, <5>1
        <5>3. QED
          BY <1>1, <4>2, <5>1, <5>2 DEF FitsOnly
      <4>3. k <= parted.items[j].key
        BY <1>1, <2>6, <3>2
      <4>4. QED
        BY <4>1, <4>2, <4>3 DEF Fits
    <3>3. QED
      BY <3>1, <3>2
  <2>10. QED
    BY <2>4, <2>7, <2>8, <2>9 DEF IsParted, parted, i
<1>4. QED
  BY <1>2, <1>3

-----------------------------------------------------------------------------
(* 18. Insertion *)

\* An insertion under way, and assignments to the parts of one.
PutOf(node, h, x) == [node |-> node, held |-> h, item |-> x]
ItemsPut(node, items) == [node EXCEPT !.items = items]
NodePut(done, node) == [done EXCEPT !.node = node]

\* The fields of an insertion under way.
LEMMA PutFields ==
    \A node, c, x : /\ PutOf(node, c, x).node = node
                    /\ PutOf(node, c, x).held = c
                    /\ PutOf(node, c, x).item = x
BY DEF PutOf

\* Assigning the node of an insertion under way.
LEMMA NodePutOf ==
    \A node, c, x, new : NodePut(PutOf(node, c, x), new) = PutOf(new, c, x)
BY DEF PutOf, NodePut

\* Assigning the items of a node.
LEMMA ItemsPutNode ==
    \A h, items, kids, new : ItemsPut(Node(h, items, kids), new) = Node(h, new, kids)
BY DEF Node, ItemsPut

\* Assigning a child is exchanging it.
LEMMA KidPutIsWithKid ==
    ASSUME NEW h \in Nat, NEW node, Loose(h, node), NEW i, NEW kid
    PROVE  KidPut(node, i, kid) = WithKid(node, i, kid)
<1>1. node = Node(h, node.items, node.kids) /\ node.level = h
  BY LooseFields
<1>2. KidPut(Node(h, node.items, node.kids), i, kid)
         = Node(h, node.items, Altered(node.kids, i, kid))
  BY KidPutNode
<1>3. WithKid(node, i, kid) = Node(node.level, node.items, Altered(node.kids, i, kid))
  BY DEF WithKid, Altered
<1>4. QED
  BY <1>1, <1>2, <1>3, Zenon

\* Overwriting an item: it takes its place, and one reference to the old one
\* is dropped.
LEMMA OverwriteOf ==
    \A node, c, x, at :
        Overwrite(PutOf(node, c, x), at)
           = PutOf(ItemPut(node, at, x), Counted(c, node.items[at], -1), x)
<1> SUFFICES ASSUME NEW node, NEW c, NEW x, NEW at
             PROVE  Overwrite(PutOf(node, c, x), at)
                       = PutOf(ItemPut(node, at, x), Counted(c, node.items[at], -1), x)
  OBVIOUS
<1> DEFINE put == PutOf(node, c, x)
<1>1. put.node = node /\ put.held = c /\ put.item = x
  BY PutFields
<1>2. Overwrite(put, at)
         = [[put EXCEPT !.node.items[at] = put.item]
               EXCEPT !.held = Counted(put.held, put.node.items[at], -1)]
  <2> HIDE DEF put
  <2>1. QED
    BY DEF Overwrite
<1>3. [put EXCEPT !.node.items[at] = x] = PutOf(ItemPut(node, at, x), c, x)
  BY DEF PutOf, ItemPut
<1>4. \A new, e, d : [PutOf(new, e, x) EXCEPT !.held = d] = PutOf(new, d, x)
  BY DEF PutOf
<1>5. [put EXCEPT !.node.items[at] = put.item] = PutOf(ItemPut(node, at, x), c, x)
  BY <1>1, <1>3
<1>6. [PutOf(ItemPut(node, at, x), c, x) EXCEPT !.held = Counted(c, node.items[at], -1)]
         = PutOf(ItemPut(node, at, x), Counted(c, node.items[at], -1), x)
  BY <1>4
<1> HIDE DEF put
<1>7. Overwrite(put, at)
         = [PutOf(ItemPut(node, at, x), c, x) EXCEPT !.held = Counted(c, node.items[at], -1)]
  BY <1>1, <1>2, <1>5, Zenon
<1>8. QED
  BY <1>6, <1>7 DEF put

\* What an insertion into a node does, in terms of one into a child.
InsertAnswer(h, node, c, x) ==
    LET at == UpTo(node, x.key)
        parted == Parted(node, at + 1)
        i == Side(node, at + 1, x.key)
        done == InsertNonFull[h - 1][PutOf(parted.kids[i], c, x)]
    IN  IF IsAt(node, at, x.key)
        THEN PutOf(ItemPut(node, at, x), Counted(c, node.items[at], -1), x)
        ELSE IF h = 0 THEN PutOf(ItemsPut(node, InsertAt(node.items, at + 1, x)), c, x)
        ELSE NodePut(done, KidPut(parted, i, done.node))

\* btree_insert_nonfull, unfolded once.
LEMMA InsertOf ==
    \A h \in Nat : \A node \in Tree[h], c \in Holdings, x \in AnyItem :
        InsertNonFull[h][PutOf(node, c, x)] = InsertAnswer(h, node, c, x)
<1> DEFINE f == InsertNonFull
<1> HIDE DEF f
<1>1. f = [h \in Nat |-> InsertInto(h, f[h - 1])]
  BY LevelFunctions DEF f
<1>2. \A h \in Nat : f[h] = InsertInto(h, f[h - 1])
  BY <1>1
<1> SUFFICES ASSUME NEW h \in Nat, NEW node \in Tree[h], NEW c \in Holdings, NEW x \in AnyItem
             PROVE  InsertNonFull[h][PutOf(node, c, x)] = InsertAnswer(h, node, c, x)
  OBVIOUS
<1> DEFINE put == PutOf(node, c, x)  at == UpTo(node, x.key)  parted == Parted(node, at + 1)
           i == Side(node, at + 1, x.key)  done == f[h - 1][PutOf(parted.kids[i], c, x)]
<1>3. put \in Put(h) /\ put.node = node /\ put.held = c /\ put.item = x
  BY DEF Put, PutOf
<1>4. f[h] = InsertInto(h, f[h - 1])
  BY <1>2
<1>5. \A kid : [put EXCEPT !.node = kid] = PutOf(kid, c, x)
  BY DEF PutOf
<1>6. \A items : [put EXCEPT !.node.items = items] = PutOf(ItemsPut(node, items), c, x)
  BY DEF PutOf, ItemsPut
<1>7. Overwrite(put, at) = PutOf(ItemPut(node, at, x), Counted(c, node.items[at], -1), x)
  BY OverwriteOf
<1> HIDE DEF put
<1>8. f[h][put] =
        LET k == put.item.key
            place == UpTo(put.node, k)
            p == Parted(put.node, place + 1)
            n == Side(put.node, place + 1, k)
            d == f[h - 1][[put EXCEPT !.node = p.kids[n]]]
        IN  IF IsAt(put.node, place, k) THEN Overwrite(put, place)
            ELSE IF h = 0 THEN [put EXCEPT !.node.items = InsertAt(@, place + 1, put.item)]
            ELSE [d EXCEPT !.node = [p EXCEPT !.kids[n] = d.node]]
  BY <1>3, <1>4, Zenon DEF InsertInto
<1>9. [put EXCEPT !.node.items = InsertAt(@, at + 1, x)]
         = PutOf(ItemsPut(node, InsertAt(node.items, at + 1, x)), c, x)
  BY <1>3, <1>6, Zenon
<1>10. [put EXCEPT !.node = parted.kids[i]] = PutOf(parted.kids[i], c, x)
  BY <1>5, Zenon
<1>11. f[h][put] =
         IF IsAt(node, at, x.key) THEN Overwrite(put, at)
         ELSE IF h = 0 THEN PutOf(ItemsPut(node, InsertAt(node.items, at + 1, x)), c, x)
         ELSE [done EXCEPT !.node = [parted EXCEPT !.kids[i] = done.node]]
  BY <1>3, <1>8, <1>9, <1>10, Zenon
<1>12. [done EXCEPT !.node = [parted EXCEPT !.kids[i] = done.node]]
          = NodePut(done, KidPut(parted, i, done.node))
  BY DEF NodePut, KidPut
<1>13. f[h][put] = InsertAnswer(h, node, c, x)
  BY <1>7, <1>11, <1>12, Zenon DEF InsertAnswer, f
<1>14. QED
  BY <1>13 DEF f, put

\* What an insertion below a node that is not full needs, and what it does.
CanPut(h, node, c, x) ==
    /\ Loose(h, node) /\ Len(node.items) < 2 * degree - 1 /\ Ordered(InOrder[h][node])
    /\ c \in Holdings /\ x \in AnyItem

\* An insertion of x into node went well.
Puts(h, node, c, x, done) ==
    /\ done = PutOf(done.node, done.held, x)
    /\ Loose(h, done.node)
    /\ Len(done.node.items) \in {Len(node.items), Len(node.items) + 1}
    /\ \E b \in {0, 1} :
          Changes(InOrder[h][node], InOrder[h][done.node], c, done.held, {x}, x.key, b)

\* Insertions are right at level h.
Inserts(h) ==
    \A node, c, x : CanPut(h, node, c, x) => Puts(h, node, c, x, InsertNonFull[h][PutOf(node, c, x)])

\* The parts of a successful insertion.
LEMMA IsPut ==
    ASSUME NEW h, NEW node, NEW c, NEW x, NEW new, NEW e, Loose(h, new),
           Len(new.items) \in {Len(node.items), Len(node.items) + 1}, NEW b \in {0, 1},
           Changes(InOrder[h][node], InOrder[h][new], c, e, {x}, x.key, b)
    PROVE  Puts(h, node, c, x, PutOf(new, e, x))
BY PutFields DEF Puts

\* Where a key is inserted into a node.
LEMMA PutPlaceOf ==
    ASSUME NEW h \in Nat, NEW node, Loose(h, node), Ordered(InOrder[h][node]), NEW k \in Key
    PROVE  LET at == UpTo(node, k)
           IN  /\ at \in 0 .. Len(node.items)
               /\ \A m \in 1 .. Len(node.items) : m <= at <=> node.items[m].key <= k
               /\ IsAt(node, at, k) => at \in 1 .. Len(node.items) /\ node.items[at].key = k
               /\ ~IsAt(node, at, k) => FitsOnly(node, at + 1, k)
<1> DEFINE b == UpTo(node, k)  c == Len(node.items)
<1>1. Shaped(h, node) /\ c \in Nat /\ DOMAIN node.items = 1 .. c
      /\ \A m \in 1 .. c : node.items[m] \in AnyItem
  BY LooseFields, TreeFields
<1>2. k \in Int /\ \A m \in 1 .. c : node.items[m].key \in Int
  BY <1>1, KeyAssumption, ItemsAreKeyed
<1>3. b \in 0 .. c /\ \A m \in 1 .. c : m <= b <=> node.items[m].key <= k
  BY <1>1, <1>2, Positions
<1> HIDE DEF b, c
<1>4. IsAt(node, b, k) => b \in 1 .. c /\ node.items[b].key = k
  BY <1>1 DEF IsAt
<1>5. ASSUME ~IsAt(node, b, k)
      PROVE  FitsOnly(node, b + 1, k)
  <2>1. b + 1 > 1 => node.items[(b + 1) - 1].key < k
    <3>1. (b + 1) - 1 = b /\ (b + 1 > 1 => b \in 1 .. c /\ b <= b)
      BY <1>1, <1>3
    <3>2. b + 1 > 1 => node.items[b].key <= k /\ node.items[b].key # k
      BY <1>1, <1>3, <1>5, <3>1 DEF IsAt
    <3>3. QED
      BY <1>2, <3>1, <3>2
  <2>2. b + 1 <= c => b + 1 \in 1 .. c /\ ~(b + 1 <= b)
    BY <1>1, <1>3
  <2>3. b + 1 <= c => k < node.items[b + 1].key
    <3>1. b + 1 <= c => ~(node.items[b + 1].key <= k)
      BY <1>3, <2>2
    <3>2. QED
      BY <1>2, <2>2, <3>1
  <2>4. QED
    BY <1>1, <2>1, <2>3 DEF FitsOnly, c
<1>6. QED
  BY <1>3, <1>4, <1>5 DEF b, c

\* An insertion into a node is right when one into its children is.
LEMMA InsertStep ==
    ASSUME DegreeOK, NEW h \in Nat, NEW node, NEW c, NEW x, CanPut(h, node, c, x),
           h > 0 => Inserts(h - 1)
    PROVE  Puts(h, node, c, x, InsertNonFull[h][PutOf(node, c, x)])
<1> DEFINE k == x.key  at == UpTo(node, k)  s == InOrder[h][node]
           answer == InsertNonFull[h][PutOf(node, c, x)]
<1>1. /\ Loose(h, node) /\ Len(node.items) < 2 * degree - 1 /\ Ordered(s)
      /\ c \in Holdings /\ x \in AnyItem
  BY DEF CanPut
<1>2. /\ node \in Tree[h] /\ node = Node(h, node.items, node.kids)
      /\ node.items \in Seq(AnyItem) /\ Len(node.items) \in Nat
  BY <1>1, LooseFields
<1>3. k \in Key /\ k \in Int
  BY <1>1, ItemsAreKeyed
<1>4. /\ at \in 0 .. Len(node.items)
      /\ \A m \in 1 .. Len(node.items) : m <= at <=> node.items[m].key <= k
      /\ IsAt(node, at, k) => at \in 1 .. Len(node.items) /\ node.items[at].key = k
      /\ ~IsAt(node, at, k) => FitsOnly(node, at + 1, k)
  BY <1>1, <1>3, PutPlaceOf, Zenon
<1>5. answer = InsertAnswer(h, node, c, x)
  BY <1>1, <1>2, InsertOf
<1>6. CASE IsAt(node, at, k)
  <2> DEFINE new == ItemPut(node, at, x)  e == Counted(c, node.items[at], -1)  y == node.items[at]
  <2>1. answer = PutOf(new, e, x)
    BY <1>5, <1>6 DEF InsertAnswer
  <2> HIDE DEF at, answer
  <2>2. at \in 1 .. Len(node.items) /\ y.key = k /\ y \in AnyItem
    BY <1>1, <1>4, <1>6, OwnItems
  <2>3. PICK A, B \in Seq(AnyItem) : ItemPlace(h, node, at, A, B)
    BY <1>1, <2>2, ItemInPlace
  <2>4. /\ s = (A ++ One(y)) ++ B
        /\ Loose(h, new) /\ Len(new.items) = Len(node.items)
        /\ InOrder[h][new] = (A ++ One(x)) ++ B
    BY <1>1, <2>3 DEF ItemPlace
  <2>5. Ordered((A ++ One(y)) ++ B)
    BY <1>1, <2>4
  <2> HIDE DEF new, y, s
  <2>6. Changes((A ++ One(y)) ++ B, (A ++ One(x)) ++ B, c, Counted(c, y, -1), {x}, x.key, 0)
    BY <1>1, <2>2, <2>5, ItemReplaced, Zenon
  <2>7. Changes(s, InOrder[h][new], c, e, {x}, x.key, 0)
    BY <2>4, <2>6 DEF y
  <2>8. 0 \in {0, 1} /\ Len(new.items) \in {Len(node.items), Len(node.items) + 1}
    BY <2>4
  <2> HIDE DEF e
  <2>9. Puts(h, node, c, x, PutOf(new, e, x))
    BY <2>4, <2>7, <2>8, IsPut, Zenon DEF s
  <2>10. QED
    BY <2>1, <2>9 DEF answer
<1>7. CASE ~IsAt(node, at, k) /\ h = 0
  <2> DEFINE items == InsertAt(node.items, at + 1, x)  new == ItemsPut(node, items)
  <2>1. answer = PutOf(new, c, x)
    BY <1>5, <1>7 DEF InsertAnswer
  <2>2. new = Node(h, items, node.kids)
    BY <1>2, ItemsPutNode
  <2> HIDE DEF at, answer, new
  <2>3. IsWith(items, node.items, at + 1, x, AnyItem)
    <3>1. at + 1 \in 1 .. Len(node.items) + 1
      BY <1>2, <1>4
    <3>2. QED
      BY <1>1, <1>2, <3>1, InsertedAt
  <2>4. items \in Seq(AnyItem) /\ Len(items) = Len(node.items) + 1
    BY <2>3 DEF IsWith
  <2>5. PICK A, B \in Seq(AnyItem) :
              /\ node.items = A ++ B /\ items = (A ++ One(x)) ++ B
              /\ Precedes(A, One(x)) /\ Precedes(One(x), B)
    BY <1>1, <1>2, <1>4, InsertedBetween, Zenon
  <2> HIDE DEF items
  <2>6. node.kids = <<>>
    BY <1>1, <1>7, LooseFields, Zenon
  <2>7. Loose(h, new) /\ new.items = items
    BY <1>7, <2>2, <2>4, <2>6, MakeLoose, NodeFields
  <2>8. InOrder[h][new] = items /\ s = node.items
    <3>1. new \in Tree[h]
      BY <2>7, LooseFields
    <3>2. QED
      BY <1>2, <1>7, <2>7, <3>1, InOrderOf
  <2>9. Ordered(A ++ B)
    BY <1>1, <2>5, <2>8
  <2> HIDE DEF s
  <2>10. Changes(A ++ B, (A ++ One(x)) ++ B, c, c, {x}, x.key, 1)
    BY <1>1, <2>5, <2>9, ItemAdded, Zenon
  <2>11. Changes(s, InOrder[h][new], c, c, {x}, x.key, 1)
    BY <2>5, <2>8, <2>10
  <2>12. 1 \in {0, 1} /\ Len(new.items) \in {Len(node.items), Len(node.items) + 1}
    BY <2>4, <2>7
  <2>13. Puts(h, node, c, x, PutOf(new, c, x))
    BY <2>7, <2>11, <2>12, IsPut, Zenon DEF s
  <2>14. QED
    BY <2>1, <2>13 DEF answer
<1>8. CASE ~IsAt(node, at, k) /\ h > 0
  <2> DEFINE parted == Parted(node, at + 1)  i == Side(node, at + 1, k)  kid == parted.kids[i]
             done == InsertNonFull[h - 1][PutOf(kid, c, x)]  new == KidPut(parted, i, done.node)
             t == InOrder[h - 1][kid]  u == InOrder[h - 1][done.node]
  <2>1. answer = NodePut(done, new)
    BY <1>5, <1>8 DEF InsertAnswer
  <2> HIDE DEF at, answer
  <2>2. at + 1 \in 1 .. Len(node.kids)
    <3>1. Len(node.kids) = Len(node.items) + 1
      BY <1>1, <1>8, KidCount
    <3>2. QED
      BY <1>2, <1>4, <3>1
  <2>3. IsParted(h, node, at + 1, k)
    BY <1>1, <1>3, <1>4, <1>8, <2>2, PartedKeeps
  <2>4. /\ Loose(h, parted) /\ InOrder[h][parted] = s
        /\ Len(parted.items) \in {Len(node.items), Len(node.items) + 1}
        /\ i \in 1 .. Len(parted.kids) /\ Fits(parted, i, k) /\ ~IsFull(kid)
    BY <2>3 DEF IsParted
  <2> HIDE DEF parted, i, s
  <2>5. PICK A, B \in Seq(AnyItem) : KidPlace(h, parted, i, A, B)
    BY <1>8, <2>4, LooseKid
  <2>6. t \in Seq(AnyItem) /\ s = (A ++ t) ++ B /\ Surrounds(h, parted, i, A, B)
    BY <2>4, <2>5 DEF KidPlace
  <2>7. Sides(parted, i, A, B)
    BY <1>1, <1>8, <2>4, <2>5, SidesInPlace, Zenon
  <2>8. Precedes(A, One(x)) /\ Precedes(One(x), B)
    BY <1>1, <2>4, <2>7, AroundKey
  <2>9. h - 1 \in Nat /\ kid \in Filled(degree)[h - 1] /\ Loose(h - 1, kid)
    BY <1>8, <2>4, KidIn
  <2> HIDE DEF kid
  <2>10. Len(kid.items) \in Nat /\ Len(kid.items) >= degree - 1 /\ Len(kid.items) < 2 * degree - 1
    <3>1. Len(kid.items) \in Nat /\ Len(kid.items) >= degree - 1 /\ Len(kid.items) <= 2 * degree - 1
      BY <2>9, OfFilled
    <3>2. Len(kid.items) # 2 * degree - 1
      BY <2>4 DEF IsFull
    <3>3. QED
      BY <3>1, <3>2 DEF DegreeOK
  <2> HIDE DEF done, t, u
  <2>11. Ordered(t)
    BY <1>1, <2>6, OrderedAround
  <2>12. Puts(h - 1, kid, c, x, done)
    <3>1. CanPut(h - 1, kid, c, x)
      BY <1>1, <2>9, <2>10, <2>11 DEF CanPut, t
    <3>2. QED
      BY <1>8, <3>1 DEF Inserts, done
  <2>13. /\ done = PutOf(done.node, done.held, x)
         /\ Loose(h - 1, done.node)
         /\ Len(done.node.items) \in {Len(kid.items), Len(kid.items) + 1}
         /\ \E b \in {0, 1} : Changes(t, u, c, done.held, {x}, k, b)
    BY <2>12 DEF Puts, t, u
  <2>14. PICK b \in {0, 1} : Changes(t, u, c, done.held, {x}, k, b)
    BY <2>13
  <2> DEFINE down == done.node
  <2>15. down \in Filled(degree)[h - 1] /\ down \in Tree[h - 1]
    <3>1. Len(down.items) >= degree - 1 /\ Len(down.items) <= 2 * degree - 1
      <4> DEFINE n == Len(kid.items)  m == Len(down.items)
      <4>1. /\ n \in Nat /\ n >= degree - 1 /\ n < 2 * degree - 1
            /\ m = n \/ m = n + 1
        BY <2>10, <2>13, Zenon
      <4> HIDE DEF n, m
      <4>2. m >= degree - 1 /\ m <= 2 * degree - 1
        BY <4>1 DEF DegreeOK
      <4>3. QED
        BY <4>2 DEF m
    <3>2. QED
      BY <2>9, <2>13, <3>1, InFilled, Zenon
  <2>16. new = WithKid(parted, i, down)
    BY <2>4, KidPutIsWithKid
  <2> HIDE DEF new, down
  <2>17. Loose(h, new) /\ new.items = parted.items
    BY <1>8, <2>4, <2>15, <2>16, LooseWithKid
  <2>18. InOrder[h][new] = (A ++ u) ++ B
    BY <2>6, <2>15, <2>16 DEF Surrounds, u, down
  <2>19. Changes((A ++ t) ++ B, (A ++ u) ++ B, c, done.held, {x}, k, b)
    <3>1. \A z \in {x} : Precedes(A, One(z)) /\ Precedes(One(z), B)
      BY <2>8
    <3>2. b \in Int /\ Ordered((A ++ t) ++ B)
      BY <1>1, <2>6
    <3> DEFINE X == {x}
    <3> HIDE DEF X, k
    <3>3. Changes(t, u, c, done.held, X, k, b) /\ \A z \in X : Precedes(A, One(z)) /\ Precedes(One(z), B)
      BY <2>14, <3>1 DEF X
    <3>4. Changes((A ++ t) ++ B, (A ++ u) ++ B, c, done.held, X, k, b)
      BY <1>1, <2>6, <3>2, <3>3, ChangesWithin
    <3>5. QED
      BY <3>4 DEF X
  <2>20. Changes(s, InOrder[h][new], c, done.held, {x}, x.key, b)
    BY <2>6, <2>18, <2>19
  <2>21. Puts(h, node, c, x, PutOf(new, done.held, x))
    BY <2>4, <2>14, <2>17, <2>20, IsPut, Zenon DEF s
  <2>22. answer = PutOf(new, done.held, x)
    BY <2>1, <2>13, NodePutOf
  <2>23. QED
    BY <2>21, <2>22 DEF answer
<1>9. h = 0 \/ h > 0
  OBVIOUS
<1>10. QED
  BY <1>6, <1>7, <1>8, <1>9, Zenon

\* btree_insert_nonfull keeps the shape and the order, and changes what is
\* held by the one item.
LEMMA InsertKeeps ==
    ASSUME DegreeOK
    PROVE  \A h \in Nat : Inserts(h)
<1> SUFFICES ASSUME NEW g \in Nat
             PROVE  Inserts(g)
  OBVIOUS
<1> DEFINE S == {h \in 0 .. g : Inserts(h)}
<1>1. 0 \in S
  <2>1. Inserts(0)
    BY InsertStep DEF Inserts
  <2>2. QED
    BY <2>1
<1>2. ASSUME NEW h \in 0 .. g - 1, h \in S
      PROVE  h + 1 \in S
  <2>1. h + 1 \in Nat /\ h + 1 \in 0 .. g /\ (h + 1) - 1 = h /\ Inserts(h)
    BY <1>2
  <2>2. Inserts(h + 1)
    BY <2>1, InsertStep DEF Inserts
  <2>3. QED
    BY <2>1, <2>2
<1>3. \A h \in 0 .. g : h \in S
  <2> HIDE DEF S
  <2>1. QED
    BY <1>1, <1>2, IntervalInduction
<1>4. QED
  BY <1>3

-----------------------------------------------------------------------------
(* 19. A child made ready for a removal *)

\* An item of a node lies between the children on its sides.
LEMMA KidsAround ==
    ASSUME NEW h \in Nat, h > 0, NEW node, Loose(h, node), Ordered(InOrder[h][node]),
           NEW m \in 1 .. Len(node.items)
    PROVE  /\ \A y \in ToSet(InOrder[h - 1][node.kids[m]]) : y.key <= node.items[m].key
           /\ \A y \in ToSet(InOrder[h - 1][node.kids[m + 1]]) : node.items[m].key <= y.key
<1> DEFINE l == InOrder[h - 1][node.kids[m]]  r == InOrder[h - 1][node.kids[m + 1]]
           x == node.items[m]
<1>1. PICK A, B \in Seq(AnyItem) : TwoPlace(h, node, m, A, B)
  BY LooseTwo, Zenon
<1>2. /\ l \in Seq(AnyItem) /\ r \in Seq(AnyItem)
      /\ InOrder[h][node] = (A ++ ((l ++ One(x)) ++ r)) ++ B
  BY <1>1 DEF TwoPlace
<1>3. x \in AnyItem
  BY OwnItems
<1> HIDE DEF l, r, x
<1>4. One(x) \in Seq(AnyItem) /\ l ++ One(x) \in Seq(AnyItem)
  BY <1>2, <1>3, ItemCats
<1> DEFINE s == (l ++ One(x)) ++ r
<1>5. s \in Seq(AnyItem)
  BY <1>2, <1>4, ItemCats
<1> HIDE DEF s
<1>6. Ordered((A ++ s) ++ B)
  BY <1>2 DEF s
<1>7. Ordered(s)
  BY <1>5, <1>6, OrderedAround
<1>8. Ordered((l ++ One(x)) ++ r)
  BY <1>7 DEF s
<1> DEFINE o == One(x)
<1>9. Precedes(l, o) /\ Precedes(o, r)
  <2>1. o \in Seq(AnyItem)
    BY <1>4
  <2> HIDE DEF o
  <2>2. Ordered((l ++ o) ++ r)
    BY <1>8 DEF o
  <2>3. QED
    BY <1>2, <2>1, <2>2, OrderedAround
<1>10. /\ \A y \in ToSet(l) : y.key <= x.key
       /\ \A y \in ToSet(r) : x.key <= y.key
  BY <1>9, OrderedCats
<1>11. QED
  BY <1>10 DEF l, r, x

\* A child is made ready to lose an item.
IsReady(h, node, k, new, i) ==
    /\ Loose(h, new) /\ InOrder[h][new] = InOrder[h][node]
    /\ Len(new.items) \in {Len(node.items) - 1, Len(node.items)}
    /\ i \in 1 .. Len(new.kids) /\ FitsOnly(new, i, k) /\ CanSpare(new.kids[i])

\* Child j of node cannot spare an item, and key k fits it alone.
CanReady(h, node, j, k) ==
    /\ Loose(h, node) /\ Ordered(InOrder[h][node]) /\ j \in 1 .. Len(node.kids)
    /\ k \in Key /\ FitsOnly(node, j, k) /\ ~CanSpare(node.kids[j])

\* What is known of such a child.
ReadyFacts(h, node, j, k) ==
    /\ Len(node.items) \in Nat /\ Len(node.kids) = Len(node.items) + 1 /\ k \in Int
    /\ \A m \in 1 .. Len(node.items) : node.items[m] \in AnyItem /\ node.items[m].key \in Int
    /\ \A m, n \in 1 .. Len(node.items) : m <= n => node.items[m].key <= node.items[n].key
    /\ j \in 1 .. Len(node.items) + 1
    /\ j > 1 => j - 1 \in 1 .. Len(node.items) /\ node.items[j - 1].key < k
    /\ j <= Len(node.items) => j \in 1 .. Len(node.items) /\ k < node.items[j].key
    /\ Len(node.kids[j].items) = degree - 1

\* What is known of a child before it is made ready for a removal.
LEMMA ReadyHas ==
    ASSUME DegreeOK, NEW h \in Nat, h > 0, NEW node, NEW j, NEW k, CanReady(h, node, j, k)
    PROVE  ReadyFacts(h, node, j, k)
<1>1. /\ Loose(h, node) /\ Ordered(InOrder[h][node]) /\ j \in 1 .. Len(node.kids)
      /\ k \in Key /\ FitsOnly(node, j, k) /\ ~CanSpare(node.kids[j])
  BY DEF CanReady
<1>2. /\ Len(node.items) \in Nat /\ Len(node.kids) = Len(node.items) + 1 /\ k \in Int
      /\ Shaped(h, node)
      /\ \A m \in 1 .. Len(node.items) : node.items[m] \in AnyItem /\ node.items[m].key \in Int
  BY <1>1, LooseFields, TreeFields, KidCount, KeyAssumption, ItemsAreKeyed
<1>3. \A m, n \in 1 .. Len(node.items) : m <= n => node.items[m].key <= node.items[n].key
  BY <1>1, <1>2, ItemsAscend, Zenon
<1>4. Len(node.kids[j].items) = degree - 1
  <2> DEFINE kid == node.kids[j]
  <2>1. h - 1 \in Nat /\ kid \in Filled(degree)[h - 1]
    BY <1>1, KidIn, Zenon
  <2> HIDE DEF kid
  <2>2. Len(kid.items) \in Nat /\ Len(kid.items) >= degree - 1
    BY <2>1, OfFilled
  <2>3. ~(Len(kid.items) >= degree)
    BY <1>1 DEF CanSpare, kid
  <2>4. Len(kid.items) = degree - 1
    BY <2>2, <2>3 DEF DegreeOK
  <2>5. QED
    BY <2>4 DEF kid
<1>5. j \in 1 .. Len(node.items) + 1
  BY <1>1, <1>2
<1>6. /\ j > 1 => j - 1 \in 1 .. Len(node.items) /\ node.items[j - 1].key < k
      /\ j <= Len(node.items) => j \in 1 .. Len(node.items) /\ k < node.items[j].key
  BY <1>1, <1>2, <1>5 DEF FitsOnly
<1>7. QED
  BY <1>2, <1>3, <1>4, <1>5, <1>6 DEF ReadyFacts

\* A child made ready by a loan from its left neighbour.
LEMMA ReadyByPrev ==
    ASSUME DegreeOK, NEW h \in Nat, h > 0, NEW node, NEW j, NEW k, CanReady(h, node, j, k),
           j > 1, CanSpare(node.kids[j - 1])
    PROVE  IsReady(h, node, k, BorrowFromPrev(node, j), j)
<1> DEFINE new == BorrowFromPrev(node, j)  sib == node.kids[j - 1]  c == Len(node.items)
           y == sib.items[Len(sib.items)]
<1>1. Loose(h, node) /\ Ordered(InOrder[h][node]) /\ ~CanSpare(node.kids[j])
  BY DEF CanReady
<1>2. ReadyFacts(h, node, j, k)
  BY ReadyHas
<1>3. /\ c \in Nat /\ Len(node.kids) = c + 1 /\ k \in Int
      /\ \A m \in 1 .. c : node.items[m] \in AnyItem /\ node.items[m].key \in Int
      /\ j \in 1 .. c + 1
      /\ j - 1 \in 1 .. c /\ node.items[j - 1].key < k
      /\ j <= c => j \in 1 .. c /\ k < node.items[j].key
      /\ Len(node.kids[j].items) = degree - 1
  BY <1>2 DEF ReadyFacts
<1>4. IsPrevLoan(h, node, j, new)
  <2>1. j \in 2 .. c + 1
    BY <1>3
  <2>2. QED
    BY <1>1, <2>1, LoanFromPrev
<1> HIDE DEF new
<1>5. /\ Loose(h, new) /\ InOrder[h][new] = InOrder[h][node]
      /\ Len(new.items) = c + 0
      /\ Len(new.kids[j].items) = Len(node.kids[j].items) + 1
      /\ \A m \in 1 .. c : m # j - 1 => new.items[m] = node.items[m]
      /\ new.items[j - 1] = y
  BY <1>4 DEF IsPrevLoan, Kept
<1>6. y.key < k
  <2>1. h - 1 \in Nat /\ sib \in Filled(degree)[h - 1] /\ Loose(h - 1, sib)
    <3>1. j - 1 \in 1 .. Len(node.kids)
      BY <1>3
    <3>2. QED
      BY <1>1, <3>1, KidIn, Zenon
  <2>2. \A z \in ToSet(InOrder[h - 1][sib]) : z.key <= node.items[j - 1].key
    BY <1>1, <1>3, KidsAround, Zenon
  <2>3. CanSpare(sib)
    OBVIOUS
  <2> HIDE DEF sib
  <2>4. Len(sib.items) \in 1 .. Len(sib.items)
    BY <2>1, <2>3, LooseFields DEF CanSpare, DegreeOK
  <2>5. y \in ToSet(InOrder[h - 1][sib]) /\ y \in AnyItem
    BY <2>1, <2>4, OwnItems
  <2> HIDE DEF y
  <2>6. y.key \in Int /\ y.key <= node.items[j - 1].key
    BY <2>2, <2>5, ItemsAreKeyed
  <2> DEFINE b == node.items[j - 1].key  a == y.key
  <2>7. a \in Int /\ a <= b /\ b \in Int /\ b < k /\ k \in Int
    BY <1>3, <2>6, Zenon
  <2> HIDE DEF a, b
  <2>8. a < k
    BY <2>7
  <2>9. QED
    BY <2>8 DEF a
<1>7. Len(new.items) = c
  BY <1>3, <1>5
<1>8. j \in 1 .. Len(new.kids)
  <2>1. Len(new.kids) = Len(new.items) + 1
    BY <1>5, KidCount, Zenon
  <2>2. QED
    BY <1>3, <1>7, <2>1
<1>9. FitsOnly(new, j, k)
  <2>1. j <= c => new.items[j] = node.items[j]
    <3>1. j <= c => j \in 1 .. c /\ j # j - 1
      BY <1>3
    <3>2. QED
      BY <1>5, <3>1
  <2>2. QED
    BY <1>3, <1>5, <1>6, <1>7, <2>1, Zenon DEF FitsOnly
<1>10. CanSpare(new.kids[j])
  BY <1>3, <1>5 DEF CanSpare, DegreeOK
<1>11. QED
  BY <1>5, <1>7, <1>8, <1>9, <1>10 DEF IsReady, new

\* A child made ready by a loan from its right neighbour.
LEMMA ReadyByNext ==
    ASSUME DegreeOK, NEW h \in Nat, h > 0, NEW node, NEW j, NEW k, CanReady(h, node, j, k),
           j <= Len(node.items), CanSpare(node.kids[j + 1])
    PROVE  IsReady(h, node, k, BorrowFromNext(node, j), j)
<1> DEFINE new == BorrowFromNext(node, j)  sib == node.kids[j + 1]  c == Len(node.items)
           y == sib.items[1]
<1>1. Loose(h, node) /\ Ordered(InOrder[h][node]) /\ ~CanSpare(node.kids[j])
  BY DEF CanReady
<1>2. ReadyFacts(h, node, j, k)
  BY ReadyHas
<1>3. /\ c \in Nat /\ Len(node.kids) = c + 1 /\ k \in Int
      /\ \A m \in 1 .. c : node.items[m] \in AnyItem /\ node.items[m].key \in Int
      /\ j \in 1 .. c + 1
      /\ j > 1 => j - 1 \in 1 .. c /\ node.items[j - 1].key < k
      /\ j \in 1 .. c /\ k < node.items[j].key
      /\ Len(node.kids[j].items) = degree - 1
  BY <1>2 DEF ReadyFacts
<1>4. IsNextLoan(h, node, j, new)
  BY <1>1, <1>3, LoanFromNext
<1> HIDE DEF new
<1>5. /\ Loose(h, new) /\ InOrder[h][new] = InOrder[h][node]
      /\ Len(new.items) = c + 0
      /\ Len(new.kids[j].items) = Len(node.kids[j].items) + 1
      /\ \A m \in 1 .. c : m # j => new.items[m] = node.items[m]
      /\ new.items[j] = y
  BY <1>4 DEF IsNextLoan, Kept
<1>6. k < y.key
  <2>1. h - 1 \in Nat /\ sib \in Filled(degree)[h - 1] /\ Loose(h - 1, sib)
    <3>1. j + 1 \in 1 .. Len(node.kids)
      BY <1>3
    <3>2. QED
      BY <1>1, <3>1, KidIn
  <2>2. \A z \in ToSet(InOrder[h - 1][sib]) : node.items[j].key <= z.key
    BY <1>1, <1>3, KidsAround
  <2>3. CanSpare(sib)
    OBVIOUS
  <2> HIDE DEF sib
  <2>4. 1 \in 1 .. Len(sib.items)
    BY <2>1, <2>3, LooseFields DEF CanSpare, DegreeOK
  <2>5. y \in ToSet(InOrder[h - 1][sib]) /\ y \in AnyItem
    BY <2>1, <2>4, OwnItems
  <2> HIDE DEF y
  <2>6. y.key \in Int /\ node.items[j].key <= y.key
    BY <2>2, <2>5, ItemsAreKeyed
  <2> DEFINE b == node.items[j].key  a == y.key
  <2>7. a \in Int /\ b <= a /\ b \in Int /\ k < b /\ k \in Int
    BY <1>3, <2>6, Zenon
  <2> HIDE DEF a, b
  <2>8. k < a
    BY <2>7
  <2>9. QED
    BY <2>8 DEF a
<1>7. Len(new.items) = c
  BY <1>3, <1>5
<1>8. j \in 1 .. Len(new.kids)
  <2>1. Len(new.kids) = Len(new.items) + 1
    BY <1>5, KidCount, Zenon
  <2>2. QED
    BY <1>3, <1>7, <2>1
<1>9. FitsOnly(new, j, k)
  <2>1. j > 1 => new.items[j - 1] = node.items[j - 1]
    <3>1. j > 1 => j - 1 \in 1 .. c /\ j - 1 # j
      BY <1>3
    <3>2. QED
      BY <1>5, <3>1
  <2>2. QED
    BY <1>3, <1>5, <1>6, <1>7, <2>1, Zenon DEF FitsOnly
<1>10. CanSpare(new.kids[j])
  BY <1>3, <1>5 DEF CanSpare, DegreeOK
<1>11. QED
  BY <1>5, <1>7, <1>8, <1>9, <1>10 DEF IsReady, new

\* An item between two children is merged with them.
LEMMA ReadyByMerge ==
    ASSUME DegreeOK, NEW h \in Nat, h > 0, NEW node, NEW j, NEW k, CanReady(h, node, j, k),
           NEW i \in {j - 1, j}, i \in 1 .. Len(node.items),
           ~CanSpare(node.kids[i]), ~CanSpare(node.kids[i + 1])
    PROVE  IsReady(h, node, k, Merge(node, i), i)
<1> DEFINE new == Merge(node, i)  c == Len(node.items)
<1>1. Loose(h, node)
  BY DEF CanReady
<1>2. ReadyFacts(h, node, j, k)
  BY ReadyHas
<1>3. /\ c \in Nat /\ k \in Int
      /\ \A m \in 1 .. c : node.items[m] \in AnyItem /\ node.items[m].key \in Int
      /\ \A m, n \in 1 .. c : m <= n => node.items[m].key <= node.items[n].key
      /\ j \in 1 .. c + 1
      /\ j > 1 => j - 1 \in 1 .. c /\ node.items[j - 1].key < k
      /\ j <= c => j \in 1 .. c /\ k < node.items[j].key
  BY <1>2 DEF ReadyFacts
<1>4. IsMerge(h, node, i, new)
  BY <1>1, MergeKeeps
<1> HIDE DEF new
<1>5. /\ Loose(h, new) /\ InOrder[h][new] = InOrder[h][node] /\ Len(new.items) = c + -1
      /\ i \in 1 .. Len(new.kids) /\ Len(new.kids[i].items) = 2 * degree - 1
      /\ IsWithout(new.items, node.items, i, AnyItem)
  BY <1>4 DEF IsMerge, Kept
<1>6. \A m \in 1 .. c - 1 : new.items[m] = IF m < i THEN node.items[m] ELSE node.items[m + 1]
  BY <1>5 DEF IsWithout
<1>7. Len(new.items) = c - 1
  BY <1>3, <1>5
<1>8. i > 1 => new.items[i - 1].key < k
  <2>1. ASSUME i > 1
        PROVE  i - 1 \in 1 .. c - 1 /\ i - 1 < i /\ i - 1 \in 1 .. c /\ i - 1 <= j - 1 /\ j > 1
    BY <1>3, <2>1
  <2>2. ASSUME i > 1
        PROVE  new.items[i - 1] = node.items[i - 1]
    BY <1>6, <2>1, <2>2
  <2>3. ASSUME i > 1
        PROVE  /\ node.items[i - 1].key <= node.items[j - 1].key /\ node.items[j - 1].key < k
               /\ node.items[i - 1].key \in Int /\ node.items[j - 1].key \in Int
    BY <1>3, <2>1, <2>3, Zenon
  <2>4. ASSUME i > 1
        PROVE  node.items[i - 1].key < k
    <3> DEFINE a == node.items[i - 1].key  b == node.items[j - 1].key
    <3>1. a <= b /\ b < k /\ a \in Int /\ b \in Int /\ k \in Int
      BY <1>3, <2>3, <2>4
    <3> HIDE DEF a, b
    <3>2. a < k
      BY <3>1
    <3>3. QED
      BY <3>2 DEF a
  <2>5. QED
    BY <2>2, <2>4
<1>9. i <= c - 1 => k < new.items[i].key
  <2>1. ASSUME i <= c - 1
        PROVE  i \in 1 .. c - 1 /\ ~(i < i) /\ i + 1 \in 1 .. c /\ j <= i + 1 /\ j <= c
    BY <1>3, <2>1
  <2>2. ASSUME i <= c - 1
        PROVE  new.items[i] = node.items[i + 1]
    BY <1>6, <2>1, <2>2
  <2>3. ASSUME i <= c - 1
        PROVE  node.items[j].key <= node.items[i + 1].key /\ k < node.items[j].key
    BY <1>3, <2>1, <2>3, Zenon
  <2>4. ASSUME i <= c - 1
        PROVE  k < node.items[i + 1].key
    <3> DEFINE a == node.items[i + 1].key  b == node.items[j].key
    <3>1. b <= a /\ k < b /\ a \in Int /\ b \in Int /\ k \in Int
      BY <1>3, <2>1, <2>3, <2>4, Zenon
    <3> HIDE DEF a, b
    <3>2. k < a
      BY <3>1
    <3>3. QED
      BY <3>2 DEF a
  <2>5. QED
    BY <2>2, <2>4
<1>10. FitsOnly(new, i, k)
  BY <1>7, <1>8, <1>9 DEF FitsOnly
<1>11. CanSpare(new.kids[i])
  BY <1>5 DEF CanSpare, DegreeOK
<1>12. Len(new.items) \in {c - 1, c}
  BY <1>7
<1>13. QED
  BY <1>5, <1>10, <1>11, <1>12 DEF IsReady, new

\* Before the descent the child has degree items or more, the key still fits
\* it, and no item has moved.
LEMMA ReadyKeeps ==
    ASSUME DegreeOK, NEW h \in Nat, h > 0, NEW node, Loose(h, node), Ordered(InOrder[h][node]),
           Len(node.items) >= 1, NEW j \in 1 .. Len(node.kids), NEW k \in Key, FitsOnly(node, j, k)
    PROVE  IsReady(h, node, k, Ready(node, j).node, Ready(node, j).i)
<1> DEFINE ready == Ready(node, j)  c == Len(node.items)
<1>1. c \in Nat /\ Len(node.kids) = c + 1
  BY KidCount
<1>2. CASE CanSpare(node.kids[j])
  <2>1. ready = [node |-> node, i |-> j]
    BY <1>2 DEF Ready
  <2>2. IsReady(h, node, k, node, j)
    BY <1>1, <1>2 DEF IsReady
  <2>3. QED
    BY <2>1, <2>2
<1>3. CASE ~CanSpare(node.kids[j]) /\ j > 1 /\ CanSpare(node.kids[j - 1])
  <2>1. ready = [node |-> BorrowFromPrev(node, j), i |-> j]
    BY <1>3 DEF Ready
  <2>2. CanReady(h, node, j, k)
    BY <1>3 DEF CanReady
  <2>3. IsReady(h, node, k, BorrowFromPrev(node, j), j)
    BY <1>3, <2>2, ReadyByPrev
  <2>4. QED
    BY <2>1, <2>3
<1>4. CASE ~CanSpare(node.kids[j]) /\ ~(j > 1 /\ CanSpare(node.kids[j - 1]))
  <2>1. ready = IF j <= c
                THEN IF CanSpare(node.kids[j + 1])
                     THEN [node |-> BorrowFromNext(node, j), i |-> j]
                     ELSE [node |-> Merge(node, j), i |-> j]
                ELSE [node |-> Merge(node, j - 1), i |-> j - 1]
    BY <1>4, Zenon DEF Ready
  <2>2. CanReady(h, node, j, k)
    BY <1>4 DEF CanReady
  <2> HIDE DEF ready
  <2>3. CASE j <= c /\ CanSpare(node.kids[j + 1])
    <3>1. ready = [node |-> BorrowFromNext(node, j), i |-> j]
      BY <2>1, <2>3
    <3>2. IsReady(h, node, k, BorrowFromNext(node, j), j)
      BY <2>2, <2>3, ReadyByNext
    <3>3. QED
      BY <3>1, <3>2 DEF ready
  <2>4. CASE j <= c /\ ~CanSpare(node.kids[j + 1])
    <3>1. ready = [node |-> Merge(node, j), i |-> j]
      BY <2>1, <2>4
    <3>2. j \in {j - 1, j} /\ j \in 1 .. Len(node.items)
      BY <1>1, <2>4
    <3>3. IsReady(h, node, k, Merge(node, j), j)
      BY <1>4, <2>2, <2>4, <3>2, ReadyByMerge
    <3>4. QED
      BY <3>1, <3>3 DEF ready
  <2>5. CASE ~(j <= c)
    <3> DEFINE i == j - 1
    <3>1. ready = [node |-> Merge(node, i), i |-> i]
      BY <2>1, <2>5
    <3>2. i \in {j - 1, j} /\ i \in 1 .. Len(node.items) /\ i + 1 = j /\ j > 1
      BY <1>1, <2>5
    <3>3. ~CanSpare(node.kids[i]) /\ ~CanSpare(node.kids[i + 1])
      BY <1>4, <3>2
    <3>4. IsReady(h, node, k, Merge(node, i), i)
      BY <2>2, <3>2, <3>3, ReadyByMerge
    <3>5. QED
      BY <3>1, <3>4 DEF ready
  <2>6. QED
    BY <2>3, <2>4, <2>5, Zenon
<1>5. QED
  BY <1>2, <1>3, <1>4, Zenon

-----------------------------------------------------------------------------
(* 20. Removal *)

\* A removal under way, the answer of one, and the counts after a swap.
TakeOf(node, c, k) == [node |-> node, held |-> c, key |-> k]
TakenOf(node, c, found) == [node |-> node, held |-> c, found |-> found]
Swapped(c, x, y) == Counted(Counted(c, x, -1), y, 1)

\* What removing from a child leads to.
TakenBelow(h, node, c, k, i) ==
    LET done == RemoveFromNode[h][TakeOf(node.kids[i], c, k)]
    IN  NodePut(done, KidPut(node, i, done.node))

\* The fields of a removal under way and of its answer.
LEMMA TakeFields ==
    \A node, c, k : /\ TakeOf(node, c, k).node = node
                    /\ TakeOf(node, c, k).held = c
                    /\ TakeOf(node, c, k).key = k
                    /\ TakenOf(node, c, k).node = node
                    /\ TakenOf(node, c, k).held = c
                    /\ TakenOf(node, c, k).found = k
BY DEF TakeOf, TakenOf

\* Assigning the node of a removal's answer.
LEMMA NodePutTaken ==
    \A node, c, f, new : NodePut(TakenOf(node, c, f), new) = TakenOf(new, c, f)
BY DEF TakenOf, NodePut

\* The swap of an item for its neighbour in order, as a change of node,
\* counts and key.
LEMMA ReplacedOf ==
    \A node, c, k, at, x :
        Replaced(TakeOf(node, c, k), at, x)
           = TakeOf(ItemPut(node, at, x), Swapped(c, node.items[at], x), x.key)
BY DEF Replaced, TakeOf, ItemPut, Swapped

\* What a removal from a node does, in terms of one from a child.
RemoveAnswer(h, node, c, k) ==
    LET at == Below(node, k) + 1
        x == node.items[at]
        prev == Rightmost[h - 1][node.kids[at]]
        next == Leftmost[h - 1][node.kids[at + 1]]
    IN  IF h = 0
        THEN IF IsAt(node, at, k)
             THEN TakenOf(ItemsPut(node, RemoveAt(node.items, at)), Counted(c, x, -1), TRUE)
             ELSE TakenOf(node, c, FALSE)
        ELSE IF ~IsAt(node, at, k) THEN TakenBelow(h - 1, Ready(node, at).node, c, k, Ready(node, at).i)
        ELSE IF CanSpare(node.kids[at])
        THEN TakenBelow(h - 1, ItemPut(node, at, prev), Swapped(c, x, prev), prev.key, at)
        ELSE IF CanSpare(node.kids[at + 1])
        THEN TakenBelow(h - 1, ItemPut(node, at, next), Swapped(c, x, next), next.key, at + 1)
        ELSE TakenBelow(h - 1, Merge(node, at), c, k, at)

\* btree_remove_node, unfolded once.
LEMMA RemoveOf ==
    \A h \in Nat : \A node \in Tree[h], c \in Holdings, k \in Key :
        RemoveFromNode[h][TakeOf(node, c, k)] = RemoveAnswer(h, node, c, k)
<1> DEFINE f == RemoveFromNode
<1> HIDE DEF f
<1>1. f = [h \in Nat |-> RemoveFrom(h, f[h - 1])]
  BY LevelFunctions DEF f
<1>2. \A h \in Nat : f[h] = RemoveFrom(h, f[h - 1])
  BY <1>1
<1> SUFFICES ASSUME NEW h \in Nat, NEW node \in Tree[h], NEW c \in Holdings, NEW k \in Key
             PROVE  RemoveFromNode[h][TakeOf(node, c, k)] = RemoveAnswer(h, node, c, k)
  OBVIOUS
<1> DEFINE take == TakeOf(node, c, k)  at == Below(node, k) + 1
           Down(t, i) == [f[h - 1][[t EXCEPT !.node = t.node.kids[i]]] EXCEPT
                             !.node = [t.node EXCEPT !.kids[i] =
                                          f[h - 1][[t EXCEPT !.node = t.node.kids[i]]].node]]
<1>3. take \in Take(h) /\ take.node = node /\ take.held = c /\ take.key = k
  BY DEF Take, TakeOf
<1>4. f[h] = RemoveFrom(h, f[h - 1])
  BY <1>2
<1>5. \A kid : [take EXCEPT !.node = kid] = TakeOf(kid, c, k)
  BY DEF TakeOf
<1>6. \A items : [node EXCEPT !.items = items] = ItemsPut(node, items)
  BY DEF ItemsPut
<1>7. \A x : Replaced(take, at, x)
               = TakeOf(ItemPut(node, at, x), Swapped(c, node.items[at], x), x.key)
  BY ReplacedOf
<1>8. \A n, e, y, i : Down(TakeOf(n, e, y), i) = TakenBelow(h - 1, n, e, y, i)
  <2> SUFFICES ASSUME NEW n, NEW e, NEW y, NEW i
               PROVE  Down(TakeOf(n, e, y), i) = TakenBelow(h - 1, n, e, y, i)
    OBVIOUS
  <2>1. TakeOf(n, e, y).node = n /\ [TakeOf(n, e, y) EXCEPT !.node = n.kids[i]] = TakeOf(n.kids[i], e, y)
    BY DEF TakeOf
  <2> DEFINE done == f[h - 1][TakeOf(n.kids[i], e, y)]
  <2>2. Down(TakeOf(n, e, y), i) = [done EXCEPT !.node = [n EXCEPT !.kids[i] = done.node]]
    BY <2>1, Zenon
  <2>3. [done EXCEPT !.node = [n EXCEPT !.kids[i] = done.node]] = NodePut(done, KidPut(n, i, done.node))
    BY DEF NodePut, KidPut
  <2>4. QED
    BY <2>2, <2>3, Zenon DEF TakenBelow, f
<1> HIDE DEF take
<1>9. f[h][take] =
        LET n == take.node
            place == Below(n, take.key) + 1
            Deeper(t, i) ==
                LET done == f[h - 1][[t EXCEPT !.node = t.node.kids[i]]]
                IN  [done EXCEPT !.node = [t.node EXCEPT !.kids[i] = done.node]]
            ready == Ready(n, place)
        IN  IF h = 0
            THEN IF IsAt(n, place, take.key)
                 THEN [node |-> [n EXCEPT !.items = RemoveAt(@, place)],
                       held |-> Counted(take.held, n.items[place], -1), found |-> TRUE]
                 ELSE [node |-> n, held |-> take.held, found |-> FALSE]
            ELSE IF ~IsAt(n, place, take.key)
            THEN Deeper([take EXCEPT !.node = ready.node], ready.i)
            ELSE IF CanSpare(n.kids[place])
            THEN Deeper(Replaced(take, place, Rightmost[h - 1][n.kids[place]]), place)
            ELSE IF CanSpare(n.kids[place + 1])
            THEN Deeper(Replaced(take, place, Leftmost[h - 1][n.kids[place + 1]]), place + 1)
            ELSE Deeper([take EXCEPT !.node = Merge(n, place)], place)
  BY <1>3, <1>4, Zenon DEF RemoveFrom
<1> DEFINE ready == Ready(node, at)
<1>10. f[h][take] =
            IF h = 0
            THEN IF IsAt(node, at, k)
                 THEN [node |-> [node EXCEPT !.items = RemoveAt(@, at)],
                       held |-> Counted(c, node.items[at], -1), found |-> TRUE]
                 ELSE [node |-> node, held |-> c, found |-> FALSE]
            ELSE IF ~IsAt(node, at, k)
            THEN Down([take EXCEPT !.node = ready.node], ready.i)
            ELSE IF CanSpare(node.kids[at])
            THEN Down(Replaced(take, at, Rightmost[h - 1][node.kids[at]]), at)
            ELSE IF CanSpare(node.kids[at + 1])
            THEN Down(Replaced(take, at, Leftmost[h - 1][node.kids[at + 1]]), at + 1)
            ELSE Down([take EXCEPT !.node = Merge(node, at)], at)
  BY <1>3, <1>9, Zenon
<1>11. [node EXCEPT !.items = RemoveAt(@, at)] = ItemsPut(node, RemoveAt(node.items, at))
  BY <1>6, Zenon
<1> HIDE DEF Down, at, ready
<1>16. \A kid, i : Down([take EXCEPT !.node = kid], i) = TakenBelow(h - 1, kid, c, k, i)
  BY <1>5, <1>8, Zenon
<1>17. /\ Down([take EXCEPT !.node = ready.node], ready.i) = TakenBelow(h - 1, ready.node, c, k, ready.i)
       /\ Down([take EXCEPT !.node = Merge(node, at)], at) = TakenBelow(h - 1, Merge(node, at), c, k, at)
  BY <1>16, Zenon
<1>18. /\ [node |-> [node EXCEPT !.items = RemoveAt(@, at)],
           held |-> Counted(c, node.items[at], -1), found |-> TRUE]
              = TakenOf(ItemsPut(node, RemoveAt(node.items, at)), Counted(c, node.items[at], -1), TRUE)
       /\ [node |-> node, held |-> c, found |-> FALSE] = TakenOf(node, c, FALSE)
  BY <1>11, Zenon DEF TakenOf
<1>12. f[h][take] =
            IF h = 0
            THEN IF IsAt(node, at, k)
                 THEN TakenOf(ItemsPut(node, RemoveAt(node.items, at)), Counted(c, node.items[at], -1), TRUE)
                 ELSE TakenOf(node, c, FALSE)
            ELSE IF ~IsAt(node, at, k)
            THEN TakenBelow(h - 1, ready.node, c, k, ready.i)
            ELSE IF CanSpare(node.kids[at])
            THEN Down(Replaced(take, at, Rightmost[h - 1][node.kids[at]]), at)
            ELSE IF CanSpare(node.kids[at + 1])
            THEN Down(Replaced(take, at, Leftmost[h - 1][node.kids[at + 1]]), at + 1)
            ELSE TakenBelow(h - 1, Merge(node, at), c, k, at)
  BY <1>10, <1>17, <1>18, Zenon
<1>13. \A x, i : Down(Replaced(take, at, x), i)
             = TakenBelow(h - 1, ItemPut(node, at, x), Swapped(c, node.items[at], x), x.key, i)
  BY <1>7, <1>8, Zenon
<1>14. f[h][take] = RemoveAnswer(h, node, c, k)
  BY <1>12, <1>13, Zenon DEF RemoveAnswer, at, ready
<1>15. QED
  BY <1>14 DEF f, take

\* What a removal below a node needs, and what it does.
CanTake(h, node, c, k) ==
    /\ Loose(h, node)
    /\ h > 0 => Len(node.items) >= 1
    /\ Ordered(InOrder[h][node]) /\ c \in Holdings /\ k \in Key

\* The items become t by the removal of one with key k, if one is found.
Removal(s, t, c, e, k, found) ==
    \/ found = TRUE /\ Changes(s, t, c, e, {}, k, -1)
    \/ found = FALSE /\ t = s /\ e = c /\ Hits(s, Keyed(k)) = 0

\* A removal from node went well.
Takes(h, node, c, k, done) ==
    /\ done = TakenOf(done.node, done.held, done.found)
    /\ Loose(h, done.node)
    /\ Len(done.node.items) \in {Len(node.items) - 1, Len(node.items)}
    /\ Removal(InOrder[h][node], InOrder[h][done.node], c, done.held, k, done.found)

\* Removals are right at level h.
Removes(h) ==
    \A node, c, k : CanTake(h, node, c, k) => Takes(h, node, c, k, RemoveFromNode[h][TakeOf(node, c, k)])

\* The parts of a successful removal.
LEMMA IsTaken ==
    ASSUME NEW h, NEW node, NEW c, NEW k, NEW new, NEW e, NEW found, Loose(h, new),
           Len(new.items) \in {Len(node.items) - 1, Len(node.items)},
           Removal(InOrder[h][node], InOrder[h][new], c, e, k, found)
    PROVE  Takes(h, node, c, k, TakenOf(new, e, found))
BY TakeFields DEF Takes

\* A key that is there is hit.
LEMMA KeyIsHit ==
    ASSUME NEW s \in Seq(AnyItem), NEW x \in ToSet(s)
    PROVE  Hits(s, Keyed(x.key)) # 0
<1>1. x \in AnyItem
  BY CatSets
<1>2. x \in Keyed(x.key)
  BY <1>1 DEF Keyed
<1>3. QED
  BY <1>2, HitsCats

\* What happens to a child that can spare an item.
TakesFrom(h, kid, e, y, done) ==
    /\ done = TakenOf(done.node, done.held, done.found)
    /\ done.node \in Filled(degree)[h] /\ done.node \in Tree[h]
    /\ Removal(InOrder[h][kid], InOrder[h][done.node], e, done.held, y, done.found)

\* A removal in a child with an item to spare leaves the child filled.
LEMMA KidTakes ==
    ASSUME DegreeOK, NEW h \in Nat, Removes(h), NEW kid \in Filled(degree)[h], CanSpare(kid),
           Ordered(InOrder[h][kid]), NEW e \in Holdings, NEW y \in Key
    PROVE  TakesFrom(h, kid, e, y, RemoveFromNode[h][TakeOf(kid, e, y)])
<1> DEFINE done == RemoveFromNode[h][TakeOf(kid, e, y)]  n == Len(kid.items)  m == Len(done.node.items)
<1>1. Loose(h, kid) /\ n \in Nat /\ n <= 2 * degree - 1
  BY OfFilled
<1>2. n >= degree
  BY DEF CanSpare
<1>3. CanTake(h, kid, e, y)
  BY <1>1, <1>2 DEF CanTake, DegreeOK
<1>4. Takes(h, kid, e, y, done)
  BY <1>3 DEF Removes
<1> HIDE DEF done
<1>5. /\ done = TakenOf(done.node, done.held, done.found)
      /\ Loose(h, done.node) /\ m \in {n - 1, n}
      /\ Removal(InOrder[h][kid], InOrder[h][done.node], e, done.held, y, done.found)
  BY <1>4 DEF Takes
<1>6. m >= degree - 1 /\ m <= 2 * degree - 1
  <2> HIDE DEF m, n
  <2>1. QED
    BY <1>1, <1>2, <1>5 DEF DegreeOK
<1>7. done.node \in Filled(degree)[h] /\ done.node \in Tree[h]
  BY <1>5, <1>6, InFilled
<1>8. QED
  BY <1>5, <1>7 DEF TakesFrom, done

\* Removing from child i of a node, where the key is or can only be.
LEMMA KidRemoval ==
    ASSUME DegreeOK, NEW h \in Nat, h > 0, Removes(h - 1), NEW node, Loose(h, node),
           Ordered(InOrder[h][node]), NEW i \in 1 .. Len(node.kids), CanSpare(node.kids[i]),
           NEW c \in Holdings, NEW k \in Key,
           \/ FitsOnly(node, i, k)
           \/ \E x \in ToSet(InOrder[h - 1][node.kids[i]]) : x.key = k
    PROVE  \E new, e, found :
              /\ TakenBelow(h - 1, node, c, k, i) = TakenOf(new, e, found)
              /\ Loose(h, new) /\ new.items = node.items
              /\ Removal(InOrder[h][node], InOrder[h][new], c, e, k, found)
<1> DEFINE kid == node.kids[i]  done == RemoveFromNode[h - 1][TakeOf(kid, c, k)]
           new == KidPut(node, i, done.node)
           s == InOrder[h][node]  t == InOrder[h - 1][kid]  u == InOrder[h - 1][done.node]
<1>1. TakenBelow(h - 1, node, c, k, i) = NodePut(done, new)
  BY DEF TakenBelow
<1>2. PICK A, B \in Seq(AnyItem) : KidPlace(h, node, i, A, B)
  BY LooseKid
<1>3. t \in Seq(AnyItem) /\ s = (A ++ t) ++ B /\ Surrounds(h, node, i, A, B)
  BY <1>2 DEF KidPlace
<1>4. h - 1 \in Nat /\ kid \in Filled(degree)[h - 1] /\ CanSpare(kid)
  BY KidIn
<1>5. Sides(node, i, A, B)
  BY <1>2, SidesInPlace
<1>6. Ordered((A ++ t) ++ B)
  BY <1>3
<1>7. FitsOnly(node, i, k) \/ \E x \in ToSet(t) : x.key = k
  OBVIOUS
<1> HIDE DEF kid
<1>8. Ordered(t)
  <2> HIDE DEF t
  <2>1. QED
    BY <1>3, <1>6, OrderedAround
<1>9. TakesFrom(h - 1, kid, c, k, done)
  BY <1>4, <1>8, KidTakes
<1> DEFINE down == done.node  found == done.found  e == done.held
<1> HIDE DEF done, s
<1>10. /\ done = TakenOf(down, e, found)
       /\ down \in Filled(degree)[h - 1] /\ down \in Tree[h - 1]
       /\ Removal(t, u, c, e, k, found)
  BY <1>9 DEF TakesFrom
<1>11. new = WithKid(node, i, down)
  BY KidPutIsWithKid
<1> HIDE DEF new
<1>12. Loose(h, new) /\ new.items = node.items
  BY <1>10, <1>11, LooseWithKid
<1>13. InOrder[h][new] = (A ++ u) ++ B
  BY <1>3, <1>10, <1>11 DEF Surrounds
<1>14. TakenBelow(h - 1, node, c, k, i) = TakenOf(new, e, found)
  BY <1>1, <1>10, NodePutTaken
<1> HIDE DEF t, u, down, found, e
<1>15. Removal(s, InOrder[h][new], c, e, k, found)
  <2>1. CASE found = TRUE /\ Changes(t, u, c, e, {}, k, -1)
    <3> DEFINE X == {}  b == -1
    <3>1. Changes(t, u, c, e, X, k, b) /\ b \in Int
      BY <2>1
    <3>2. \A x \in X : Precedes(A, One(x)) /\ Precedes(One(x), B)
      OBVIOUS
    <3> HIDE DEF X, b
    <3>3. Changes((A ++ t) ++ B, (A ++ u) ++ B, c, e, X, k, b)
      BY <1>3, <1>6, <3>1, <3>2, ChangesWithin
    <3>4. Changes(s, InOrder[h][new], c, e, X, k, b)
      BY <1>3, <1>13, <3>3
    <3>5. QED
      BY <2>1, <3>4 DEF Removal, X, b
  <2>2. CASE found = FALSE /\ u = t /\ e = c /\ Hits(t, Keyed(k)) = 0
    <3>1. InOrder[h][new] = s
      BY <1>3, <1>13, <2>2
    <3>2. FitsOnly(node, i, k)
      BY <1>3, <1>7, <2>2, KeyIsHit
    <3>3. Hits(A, Keyed(k)) = 0 /\ Hits(B, Keyed(k)) = 0
      BY <1>5, <3>2, NotAround
    <3>4. IsAround(s, A, t, B)
      BY <1>3, AroundFacts
    <3>5. Hits(s, Keyed(k)) = 0
      BY <2>2, <3>3, <3>4 DEF IsAround
    <3>6. QED
      BY <2>2, <3>1, <3>5 DEF Removal
  <2>3. QED
    BY <1>10, <2>1, <2>2, Zenon DEF Removal
<1>16. QED
  BY <1>12, <1>14, <1>15 DEF s

\* Item m of a node is x, and the children on its sides are l and r.
IsSwap(h, node, m, new, l, x, r, A, B) ==
    /\ Loose(h, new) /\ Len(new.items) = Len(node.items)
    /\ InOrder[h][new] = (A ++ Between(h - 1, l, x, r)) ++ B

\* An item exchanged for another while one of its neighbours changes.
LEMMA Swapping ==
    ASSUME NEW h \in Nat, h > 0, NEW node, Loose(h, node), NEW m \in 1 .. Len(node.items),
           NEW l \in Filled(degree)[h - 1], NEW r \in Filled(degree)[h - 1], NEW x \in AnyItem,
           NEW A, NEW B, TwoPlace(h, node, m, A, B)
    PROVE  IsSwap(h, node, m, Mended(h, node, m, l, x, r), l, x, r, A, B)
<1> DEFINE base == Base(node, m)  new == Mended(h, node, m, l, x, r)
           I == [node.items EXCEPT ![m] = x]
           L == [[node.kids EXCEPT ![m] = l] EXCEPT ![m + 1] = r]
<1>1. Loose(h, base) /\ m \in 1 .. Len(base.kids)
  BY LooseTwo
<1>2. Filled(degree)[h - 1] \subseteq Tree[h - 1] /\ node.items \in Seq(AnyItem)
  BY LooseFields
<1>3. new = Pair(base, m, l, x, r)
  BY Repaired
<1>4. new = Node(h, I, L)
  BY DEF Mended, Altered
<1> HIDE DEF base, new
<1>5. Loose(h, new)
  BY <1>1, <1>3, LoosePair
<1>6. InOrder[h][new] = (A ++ Between(h - 1, l, x, r)) ++ B
  BY <1>2, <1>3 DEF TwoPlace, Surrounds, Between, base
<1>7. Len(I) = Len(node.items)
  BY <1>2, ExceptSeq
<1> HIDE DEF I, L
<1>8. new.items = I
  BY <1>4, NodeFields
<1>9. IsSwap(h, node, m, new, l, x, r, A, B)
  BY <1>5, <1>6, <1>7, <1>8 DEF IsSwap
<1>10. QED
  BY <1>9 DEF new

\* Assigning an item and one of its neighbours, as one change.
LEMMA PutBoth ==
    ASSUME NEW h \in Nat, h > 0, NEW node, Loose(h, node), NEW m, NEW x, NEW d
    PROVE  /\ KidPut(ItemPut(node, m, x), m, d) = Mended(h, node, m, d, x, node.kids[m + 1])
           /\ KidPut(ItemPut(node, m, x), m + 1, d) = Mended(h, node, m, node.kids[m], x, d)
<1> DEFINE I == Altered(node.items, m, x)  kids == node.kids
<1>1. node = Node(h, node.items, kids) /\ kids \in Seq(Filled(degree)[h - 1])
  BY LooseFields
<1>2. ItemPut(Node(h, node.items, kids), m, x) = Node(h, I, kids)
  BY ItemPutNode
<1>3. ItemPut(node, m, x) = Node(h, I, kids)
  BY <1>1, <1>2
<1>4. Altered(Altered(kids, m, d), m + 1, kids[m + 1]) = Altered(kids, m, d)
  BY <1>1 DEF Altered
<1>5. Altered(Altered(kids, m, kids[m]), m + 1, d) = Altered(kids, m + 1, d)
  BY <1>1 DEF Altered
<1> HIDE DEF I
<1>6. /\ KidPut(Node(h, I, kids), m, d) = Node(h, I, Altered(kids, m, d))
      /\ KidPut(Node(h, I, kids), m + 1, d) = Node(h, I, Altered(kids, m + 1, d))
  BY KidPutNode
<1>7. QED
  BY <1>3, <1>4, <1>5, <1>6 DEF Mended, I

\* Assigning an item leaves the children alone.
LEMMA ItemPutKids ==
    ASSUME NEW h \in Nat, NEW node, Loose(h, node)
    PROVE  \A m, x : ItemPut(node, m, x).kids = node.kids
<1>1. node = Node(h, node.items, node.kids)
  BY LooseFields
<1>2. \A m, x : ItemPut(Node(h, node.items, node.kids), m, x)
                  = Node(h, Altered(node.items, m, x), node.kids)
  BY ItemPutNode, SMTT(20)
<1>3. QED
  BY <1>1, <1>2, NodeFields

\* What comes up from a child and is removed from there.
LEMMA StandIn ==
    ASSUME DegreeOK, NEW h \in Nat, Removes(h), NEW kid \in Filled(degree)[h], CanSpare(kid),
           Ordered(InOrder[h][kid]), NEW p \in ToSet(InOrder[h][kid]), p \in AnyItem, NEW e \in Holdings
    PROVE  \E d \in Filled(degree)[h] : \E f, found :
              /\ found = TRUE
              /\ RemoveFromNode[h][TakeOf(kid, e, p.key)] = TakenOf(d, f, found)
              /\ Changes(InOrder[h][kid], InOrder[h][d], e, f, {}, p.key, -1)
<1> DEFINE done == RemoveFromNode[h][TakeOf(kid, e, p.key)]
<1>1. TakesFrom(h, kid, e, p.key, done)
  <2>1. p.key \in Key
    BY ItemsAreKeyed
  <2> DEFINE k == p.key
  <2> HIDE DEF k
  <2>2. TakesFrom(h, kid, e, k, RemoveFromNode[h][TakeOf(kid, e, k)])
    BY <2>1, KidTakes DEF k
  <2>3. QED
    BY <2>2 DEF k
<1> HIDE DEF done
<1>2. /\ done = TakenOf(done.node, done.held, done.found) /\ done.node \in Filled(degree)[h]
      /\ Removal(InOrder[h][kid], InOrder[h][done.node], e, done.held, p.key, done.found)
  BY <1>1 DEF TakesFrom
<1>3. Hits(InOrder[h][kid], Keyed(p.key)) # 0
  <2>1. InOrder[h][kid] \in Seq(AnyItem)
    BY OfFilled
  <2> DEFINE s == InOrder[h][kid]
  <2> HIDE DEF s
  <2>2. Hits(s, Keyed(p.key)) # 0
    BY <2>1, KeyIsHit DEF s
  <2>3. QED
    BY <2>2 DEF s
<1>4. done.found = TRUE /\ Changes(InOrder[h][kid], InOrder[h][done.node], e, done.held, {}, p.key, -1)
  BY <1>2, <1>3 DEF Removal
<1>5. QED
  BY <1>2, <1>4 DEF done

\* Item m of a node is gone.
ItemGone(h, node, m, c, new, e) ==
    /\ Loose(h, new) /\ Len(new.items) = Len(node.items)
    /\ Changes(InOrder[h][node], InOrder[h][new], c, e, {}, node.items[m].key, -1)

\* An item removed from a piece is removed from the whole.
LEMMA ChangedWithin ==
    ASSUME NEW A \in Seq(AnyItem), NEW B \in Seq(AnyItem), NEW s \in Seq(AnyItem), NEW t,
           NEW c \in Holdings, NEW e, NEW k, Changes(s, t, c, e, {}, k, -1),
           Ordered((A ++ s) ++ B)
    PROVE  Changes((A ++ s) ++ B, (A ++ t) ++ B, c, e, {}, k, -1)
<1> DEFINE X == {}  b == -1
<1>1. b \in Int /\ \A x \in X : Precedes(A, One(x)) /\ Precedes(One(x), B)
  OBVIOUS
<1>2. Changes(s, t, c, e, X, k, b)
  OBVIOUS
<1> HIDE DEF X, b
<1>3. Changes((A ++ s) ++ B, (A ++ t) ++ B, c, e, X, k, b)
  BY <1>1, <1>2, ChangesWithin
<1>4. QED
  BY <1>3 DEF X, b

\* The two children around an item, the item and what is around them.
Around(h, node, m, A, B) ==
    LET l == InOrder[h - 1][node.kids[m]]
        r == InOrder[h - 1][node.kids[m + 1]]
        y == node.items[m]
    IN  /\ TwoPlace(h, node, m, A, B) /\ l \in Seq(AnyItem) /\ r \in Seq(AnyItem)
        /\ InOrder[h][node] = (A ++ ((l ++ One(y)) ++ r)) ++ B
        /\ (l ++ One(y)) ++ r \in Seq(AnyItem)
        /\ Ordered((A ++ ((l ++ One(y)) ++ r)) ++ B)
        /\ Ordered((l ++ One(y)) ++ r) /\ Ordered(l) /\ Ordered(r)

\* What is around an item and its two neighbours.
LEMMA IsAroundItem ==
    ASSUME NEW h \in Nat, h > 0, NEW node, Loose(h, node), Ordered(InOrder[h][node]),
           NEW m \in 1 .. Len(node.items)
    PROVE  \E A, B \in Seq(AnyItem) : Around(h, node, m, A, B)
<1> DEFINE l == InOrder[h - 1][node.kids[m]]  r == InOrder[h - 1][node.kids[m + 1]]
           y == node.items[m]  u == One(y)  w == (l ++ u) ++ r
<1>1. PICK A, B \in Seq(AnyItem) : TwoPlace(h, node, m, A, B)
  BY LooseTwo, Zenon
<1>2. /\ l \in Seq(AnyItem) /\ r \in Seq(AnyItem)
      /\ InOrder[h][node] = (A ++ w) ++ B
  BY <1>1 DEF TwoPlace
<1>3. Ordered((A ++ w) ++ B)
  BY <1>2
<1>4. y \in AnyItem
  BY OwnItems
<1> HIDE DEF l, r, y
<1>5. u \in Seq(AnyItem)
  BY <1>4, ItemCats
<1> HIDE DEF u
<1>6. l ++ u \in Seq(AnyItem)
  BY <1>2, <1>5, ItemCats
<1>7. w \in Seq(AnyItem)
  BY <1>2, <1>6, ItemCats
<1>8. Ordered(w)
  <2> HIDE DEF w
  <2>1. QED
    BY <1>3, <1>7, OrderedAround
<1>9. Ordered(l) /\ Ordered(r)
  BY <1>2, <1>5, <1>8, OrderedAround, SMTT(20)
<1>10. Around(h, node, m, A, B)
  BY <1>1, <1>2, <1>3, <1>7, <1>8, <1>9 DEF Around, l, r, u, w, y
<1>11. QED
  BY <1>10

\* The counts after a swap are counts.
LEMMA SwappedHoldings ==
    ASSUME NEW c \in Holdings, NEW x \in AnyItem, NEW y \in AnyItem
    PROVE  Swapped(c, x, y) \in Holdings
<1>1. Counted(c, x, -1) \in Holdings
  BY CountedFacts
<1>2. QED
  BY <1>1, CountedFacts DEF Swapped

\* Removing item m by its predecessor: the item goes, the predecessor takes
\* its place and is taken out below.
LEMMA PrevStandsIn ==
    ASSUME DegreeOK, NEW h \in Nat, h > 0, Removes(h - 1), NEW node, Loose(h, node),
           Ordered(InOrder[h][node]), NEW m \in 1 .. Len(node.items), CanSpare(node.kids[m]),
           NEW c \in Holdings
    PROVE  LET p == Rightmost[h - 1][node.kids[m]]
           IN  \E new, e, found :
                  /\ found = TRUE
                  /\ TakenBelow(h - 1, ItemPut(node, m, p), Swapped(c, node.items[m], p), p.key, m)
                        = TakenOf(new, e, found)
                  /\ ItemGone(h, node, m, c, new, e)
<1> DEFINE kid == node.kids[m]  p == Rightmost[h - 1][kid]  y == node.items[m]
           other == node.kids[m + 1]
           l == InOrder[h - 1][kid]  r == InOrder[h - 1][other]
           d == Swapped(c, y, p)
<1>0. h - 1 \in Nat
  OBVIOUS
<1>1. h - 1 \in Nat /\ kid \in Filled(degree)[h - 1] /\ other \in Filled(degree)[h - 1] /\ y \in AnyItem
  BY <1>0, LooseTwo, Zenon
<1>2. CanSpare(kid)
  OBVIOUS
<1>3. PICK A, B \in Seq(AnyItem) : Around(h, node, m, A, B)
  BY IsAroundItem, SMTT(20)
<1>4. /\ TwoPlace(h, node, m, A, B) /\ l \in Seq(AnyItem) /\ r \in Seq(AnyItem)
      /\ InOrder[h][node] = (A ++ ((l ++ One(y)) ++ r)) ++ B
      /\ (l ++ One(y)) ++ r \in Seq(AnyItem)
      /\ Ordered((A ++ ((l ++ One(y)) ++ r)) ++ B)
      /\ Ordered((l ++ One(y)) ++ r) /\ Ordered(l) /\ Ordered(r)
  BY <1>3 DEF Around
<1>5. /\ \A x, n : KidPut(ItemPut(node, m, x), m, n) = Mended(h, node, m, n, x, other)
      /\ \A x : ItemPut(node, m, x).kids[m] = kid
  BY PutBoth, ItemPutKids
<1> HIDE DEF kid, other, y
<1>6. p \in AnyItem /\ \E w \in Seq(AnyItem) : l = w ++ One(p)
  <2>1. EndsRight(h - 1)
    BY <1>1, RightmostIsLast
  <2>2. QED
    BY <1>1, <2>1 DEF EndsRight
<1>7. PICK w \in Seq(AnyItem) : l = w ++ One(p)
  BY <1>6
<1> HIDE DEF p
<1>8. d \in Holdings
  BY <1>1, <1>6, SwappedHoldings
<1>9. p \in ToSet(l)
  <2>1. One(p) \in Seq(AnyItem) /\ ToSet(One(p)) = {p}
    BY <1>6, ItemCats, CatSets
  <2>2. ToSet(l) = ToSet(w) \cup ToSet(One(p))
    BY <1>7, <2>1, CatSets
  <2>3. QED
    BY <2>1, <2>2
<1> HIDE DEF d
<1>10. PICK new, e, found :
          /\ new \in Filled(degree)[h - 1]
          /\ found = TRUE
          /\ RemoveFromNode[h - 1][TakeOf(kid, d, p.key)] = TakenOf(new, e, found)
          /\ Changes(l, InOrder[h - 1][new], d, e, {}, p.key, -1)
  <2>1. p \in ToSet(InOrder[h - 1][kid]) /\ Ordered(InOrder[h - 1][kid])
    BY <1>4, <1>9
  <2>2. QED
    BY <1>1, <1>2, <1>6, <1>8, <2>1, StandIn, Zenon
<1> DEFINE t == InOrder[h - 1][new]  made == Mended(h, node, m, new, p, other)
<1>11. IsSwap(h, node, m, made, new, p, other, A, B)
  BY <1>1, <1>4, <1>6, <1>10, Swapping, Zenon
<1>12. TakenBelow(h - 1, ItemPut(node, m, p), d, p.key, m) = TakenOf(made, e, found)
  <2>1. KidPut(ItemPut(node, m, p), m, new) = made /\ ItemPut(node, m, p).kids[m] = kid
    BY <1>5
  <2> HIDE DEF made
  <2>2. TakenBelow(h - 1, ItemPut(node, m, p), d, p.key, m)
           = NodePut(TakenOf(new, e, found), KidPut(ItemPut(node, m, p), m, TakenOf(new, e, found).node))
    BY <1>10, <2>1, Zenon DEF TakenBelow
  <2>3. TakenOf(new, e, found).node = new
    BY TakeFields
  <2>4. QED
    BY <2>1, <2>2, <2>3, NodePutTaken
<1> HIDE DEF made
<1>13. /\ Loose(h, made) /\ Len(made.items) = Len(node.items)
       /\ InOrder[h][made] = (A ++ ((t ++ One(p)) ++ r)) ++ B
  BY <1>11 DEF IsSwap, Between
<1> HIDE DEF l, r, t
<1>14. Changes((l ++ One(y)) ++ r, (t ++ One(p)) ++ r, c, e, {}, y.key, -1)
  <2>1. Changes(l, t, Counted(Counted(c, y, -1), p, 1), e, {}, p.key, -1)
    BY <1>10 DEF d, Swapped, t
  <2>2. QED
    BY <1>1, <1>4, <1>6, <1>7, <2>1, LastStandsIn, Zenon
<1>15. Changes((A ++ ((l ++ One(y)) ++ r)) ++ B, (A ++ ((t ++ One(p)) ++ r)) ++ B, c, e, {}, y.key, -1)
  <2> DEFINE a == (l ++ One(y)) ++ r  b == (t ++ One(p)) ++ r  k == y.key
  <2>1. a \in Seq(AnyItem) /\ Ordered((A ++ a) ++ B) /\ Changes(a, b, c, e, {}, k, -1)
    BY <1>4, <1>14
  <2> HIDE DEF a, b, k
  <2>2. Changes((A ++ a) ++ B, (A ++ b) ++ B, c, e, {}, k, -1)
    BY <2>1, ChangedWithin
  <2>3. QED
    BY <2>2 DEF a, b, k
<1>16. ItemGone(h, node, m, c, made, e)
  BY <1>4, <1>13, <1>15 DEF ItemGone, y
<1>17. QED
  BY <1>10, <1>12, <1>16, Zenon DEF d, p, y, kid

\* Removing item m by its successor: the item goes, the successor takes its
\* place and is taken out below.
LEMMA NextStandsIn ==
    ASSUME DegreeOK, NEW h \in Nat, h > 0, Removes(h - 1), NEW node, Loose(h, node),
           Ordered(InOrder[h][node]), NEW m \in 1 .. Len(node.items), CanSpare(node.kids[m + 1]),
           NEW c \in Holdings
    PROVE  LET p == Leftmost[h - 1][node.kids[m + 1]]
           IN  \E new, e, found :
                  /\ found = TRUE
                  /\ TakenBelow(h - 1, ItemPut(node, m, p), Swapped(c, node.items[m], p), p.key, m + 1)
                        = TakenOf(new, e, found)
                  /\ ItemGone(h, node, m, c, new, e)
<1> DEFINE kid == node.kids[m + 1]  p == Leftmost[h - 1][kid]  y == node.items[m]
           other == node.kids[m]
           l == InOrder[h - 1][other]  r == InOrder[h - 1][kid]
           d == Swapped(c, y, p)
<1>0. h - 1 \in Nat
  OBVIOUS
<1>1. h - 1 \in Nat /\ kid \in Filled(degree)[h - 1] /\ other \in Filled(degree)[h - 1] /\ y \in AnyItem
  BY <1>0, LooseTwo, Zenon
<1>2. CanSpare(kid)
  OBVIOUS
<1>3. PICK A, B \in Seq(AnyItem) : Around(h, node, m, A, B)
  BY IsAroundItem, SMTT(20)
<1>4. /\ TwoPlace(h, node, m, A, B) /\ l \in Seq(AnyItem) /\ r \in Seq(AnyItem)
      /\ InOrder[h][node] = (A ++ ((l ++ One(y)) ++ r)) ++ B
      /\ (l ++ One(y)) ++ r \in Seq(AnyItem)
      /\ Ordered((A ++ ((l ++ One(y)) ++ r)) ++ B)
      /\ Ordered((l ++ One(y)) ++ r) /\ Ordered(l) /\ Ordered(r)
  BY <1>3 DEF Around
<1>5. /\ \A x, n : KidPut(ItemPut(node, m, x), m + 1, n) = Mended(h, node, m, other, x, n)
      /\ \A x : ItemPut(node, m, x).kids[m + 1] = kid
  BY PutBoth, ItemPutKids
<1> HIDE DEF kid, other, y
<1>6. p \in AnyItem /\ \E w \in Seq(AnyItem) : r = One(p) ++ w
  <2>1. EndsLeft(h - 1)
    BY <1>1, LeftmostIsFirst
  <2>2. QED
    BY <1>1, <2>1 DEF EndsLeft
<1>7. PICK w \in Seq(AnyItem) : r = One(p) ++ w
  BY <1>6
<1> HIDE DEF p
<1>8. d \in Holdings
  BY <1>1, <1>6, SwappedHoldings
<1>9. p \in ToSet(r)
  <2>1. One(p) \in Seq(AnyItem) /\ ToSet(One(p)) = {p}
    BY <1>6, ItemCats, CatSets
  <2>2. ToSet(r) = ToSet(One(p)) \cup ToSet(w)
    BY <1>7, <2>1, CatSets
  <2>3. QED
    BY <2>1, <2>2
<1> HIDE DEF d
<1>10. PICK new, e, found :
          /\ new \in Filled(degree)[h - 1]
          /\ found = TRUE
          /\ RemoveFromNode[h - 1][TakeOf(kid, d, p.key)] = TakenOf(new, e, found)
          /\ Changes(r, InOrder[h - 1][new], d, e, {}, p.key, -1)
  <2>1. p \in ToSet(InOrder[h - 1][kid]) /\ Ordered(InOrder[h - 1][kid])
    BY <1>4, <1>9
  <2>2. QED
    BY <1>1, <1>2, <1>6, <1>8, <2>1, StandIn, Zenon
<1> DEFINE t == InOrder[h - 1][new]  made == Mended(h, node, m, other, p, new)
<1>11. IsSwap(h, node, m, made, other, p, new, A, B)
  BY <1>1, <1>4, <1>6, <1>10, Swapping, Zenon
<1>12. TakenBelow(h - 1, ItemPut(node, m, p), d, p.key, m + 1) = TakenOf(made, e, found)
  <2>1. KidPut(ItemPut(node, m, p), m + 1, new) = made /\ ItemPut(node, m, p).kids[m + 1] = kid
    BY <1>5
  <2> HIDE DEF made
  <2>2. TakenBelow(h - 1, ItemPut(node, m, p), d, p.key, m + 1)
           = NodePut(TakenOf(new, e, found), KidPut(ItemPut(node, m, p), m + 1, TakenOf(new, e, found).node))
    BY <1>10, <2>1, Zenon DEF TakenBelow
  <2>3. TakenOf(new, e, found).node = new
    BY TakeFields
  <2>4. QED
    BY <2>1, <2>2, <2>3, NodePutTaken
<1> HIDE DEF made
<1>13. /\ Loose(h, made) /\ Len(made.items) = Len(node.items)
       /\ InOrder[h][made] = (A ++ ((l ++ One(p)) ++ t)) ++ B
  BY <1>11 DEF IsSwap, Between
<1> HIDE DEF l, r, t
<1>14. Changes((l ++ One(y)) ++ r, (l ++ One(p)) ++ t, c, e, {}, y.key, -1)
  <2>1. Changes(r, t, Counted(Counted(c, y, -1), p, 1), e, {}, p.key, -1)
    BY <1>10 DEF d, Swapped, t
  <2>2. QED
    BY <1>1, <1>4, <1>6, <1>7, <2>1, FirstStandsIn, Zenon
<1>15. Changes((A ++ ((l ++ One(y)) ++ r)) ++ B, (A ++ ((l ++ One(p)) ++ t)) ++ B, c, e, {}, y.key, -1)
  <2> DEFINE a == (l ++ One(y)) ++ r  b == (l ++ One(p)) ++ t  k == y.key
  <2>1. a \in Seq(AnyItem) /\ Ordered((A ++ a) ++ B) /\ Changes(a, b, c, e, {}, k, -1)
    BY <1>4, <1>14
  <2> HIDE DEF a, b, k
  <2>2. Changes((A ++ a) ++ B, (A ++ b) ++ B, c, e, {}, k, -1)
    BY <2>1, ChangedWithin
  <2>3. QED
    BY <2>2 DEF a, b, k
<1>16. ItemGone(h, node, m, c, made, e)
  BY <1>4, <1>13, <1>15 DEF ItemGone, y
<1>17. QED
  BY <1>10, <1>12, <1>16, Zenon DEF d, p, y, kid

\* An element of a sequence is removed.
LEMMA RemovedBetween ==
    ASSUME NEW s \in Seq(AnyItem), NEW m \in 1 .. Len(s)
    PROVE  \E A, B \in Seq(AnyItem) : s = (A ++ One(s[m])) ++ B /\ RemoveAt(s, m) = A ++ B
<1> DEFINE A == FirstOf(s, m - 1)  B == From(s, m + 1)
<1>1. A \in Seq(AnyItem) /\ B \in Seq(AnyItem) /\ s = (A ++ One(s[m])) ++ B
  BY CutAt
<1>2. Len(s) \in Nat /\ m - 1 < Len(s)
  OBVIOUS
<1>3. A = SubSeq(s, 1, m - 1) /\ B = SubSeq(s, m + 1, Len(s))
  BY <1>2 DEF FirstOf, From
<1>4. RemoveAt(s, m) = A ++ B
  BY <1>3, Zenon DEF RemoveAt, ++
<1>5. QED
  BY <1>1, <1>4

\* A removal in a leaf.
LEMMA RemoveInLeaf ==
    ASSUME DegreeOK, NEW node, NEW c, NEW k, CanTake(0, node, c, k)
    PROVE  Takes(0, node, c, k, RemoveFromNode[0][TakeOf(node, c, k)])
<1> DEFINE at == Below(node, k) + 1  s == InOrder[0][node]
           answer == RemoveFromNode[0][TakeOf(node, c, k)]
           items == RemoveAt(node.items, at)  new == ItemsPut(node, items)
           y == node.items[at]  e == Counted(c, y, -1)
<1>1. Loose(0, node) /\ Ordered(s) /\ c \in Holdings /\ k \in Key
  BY DEF CanTake
<1>2. /\ node \in Tree[0] /\ node = Node(0, node.items, node.kids) /\ node.kids = <<>>
      /\ node.items \in Seq(AnyItem) /\ Len(node.items) \in Nat
  BY <1>1, LooseFields
<1>3. /\ at \in 1 .. Len(node.items) + 1
      /\ IsAt(node, at, k) => at \in 1 .. Len(node.items) /\ node.items[at].key = k
      /\ ~IsAt(node, at, k) =>
            /\ FitsOnly(node, at, k)
            /\ \A m \in 1 .. Len(node.items) : node.items[m].key # k
  BY <1>1, PlaceOf
<1>4. answer = RemoveAnswer(0, node, c, k)
  BY <1>1, <1>2, RemoveOf
<1>5. s = node.items
  BY <1>2, InOrderOf
<1>6. CASE IsAt(node, at, k)
  <2> DEFINE found == TRUE
  <2>1. answer = TakenOf(new, e, found)
    BY <1>4, <1>6, Zenon DEF RemoveAnswer
  <2>2. new = Node(0, items, <<>>)
    BY <1>2, ItemsPutNode
  <2> HIDE DEF at, answer, new, found
  <2>3. at \in 1 .. Len(node.items) /\ y.key = k /\ y \in AnyItem
    BY <1>1, <1>3, <1>6, OwnItems
  <2>4. IsWithout(items, node.items, at, AnyItem)
    BY <1>2, <2>3, RemovedAt
  <2>5. PICK A, B \in Seq(AnyItem) :
            node.items = (A ++ One(y)) ++ B /\ items = A ++ B
    BY <1>2, <2>3, RemovedBetween
  <2> HIDE DEF items, y
  <2>6. items \in Seq(AnyItem) /\ Len(items) = Len(node.items) - 1
    BY <2>4 DEF IsWithout
  <2>7. Loose(0, new) /\ new.items = items
    BY <2>2, <2>6, MakeLoose, NodeFields
  <2>8. InOrder[0][new] = items
    <3>1. new \in Tree[0]
      BY <2>7, LooseFields
    <3>2. QED
      BY <2>7, <3>1, InOrderOf
  <2>9. Ordered((A ++ One(y)) ++ B)
    BY <1>1, <1>5, <2>5
  <2>10. Changes((A ++ One(y)) ++ B, A ++ B, c, Counted(c, y, -1), {}, y.key, -1)
    BY <1>1, <2>3, <2>9, ItemRemoved
  <2>11. Removal(s, InOrder[0][new], c, e, k, found)
    BY <1>5, <2>3, <2>5, <2>8, <2>10 DEF Removal, found
  <2>12. Len(new.items) \in {Len(node.items) - 1, Len(node.items)}
    BY <2>6, <2>7
  <2> HIDE DEF e
  <2>13. Takes(0, node, c, k, TakenOf(new, e, found))
    BY <2>7, <2>11, <2>12, IsTaken
  <2>14. QED
    BY <2>1, <2>13 DEF answer
<1>7. CASE ~IsAt(node, at, k)
  <2> DEFINE found == FALSE
  <2>1. answer = TakenOf(node, c, found)
    BY <1>4, <1>7, Zenon DEF RemoveAnswer
  <2> HIDE DEF at, answer, found
  <2>2. ToSet(s) \cap Keyed(k) = {}
    BY <1>3, <1>5, <1>7, <1>2 DEF ToSet, Keyed
  <2>3. Hits(s, Keyed(k)) = 0
    <3>1. s \in Seq(AnyItem)
      BY <1>2, <1>5
    <3> HIDE DEF s
    <3>2. QED
      BY <2>2, <3>1, HitsCats
  <2>4. Removal(s, s, c, c, k, found)
    BY <2>3 DEF Removal, found
  <2>5. Takes(0, node, c, k, TakenOf(node, c, found))
    BY <1>1, <2>4, IsTaken
  <2>6. QED
    BY <2>1, <2>5 DEF answer
<1>8. QED
  BY <1>6, <1>7, Zenon

\* A removal in an inner node is right when one in its children is.
LEMMA RemoveBelow ==
    ASSUME DegreeOK, NEW h \in Nat, h > 0, NEW node, NEW c, NEW k, CanTake(h, node, c, k),
           Removes(h - 1)
    PROVE  Takes(h, node, c, k, RemoveFromNode[h][TakeOf(node, c, k)])
<1> DEFINE at == Below(node, k) + 1  s == InOrder[h][node]
           answer == RemoveFromNode[h][TakeOf(node, c, k)]
           ready == Ready(node, at)  fused == Merge(node, at)  y == node.items[at]
           prev == Rightmost[h - 1][node.kids[at]]  next == Leftmost[h - 1][node.kids[at + 1]]
<1>1. Loose(h, node) /\ Len(node.items) >= 1 /\ Ordered(s) /\ c \in Holdings /\ k \in Key
  BY DEF CanTake
<1>2. node \in Tree[h] /\ Len(node.items) \in Nat /\ Len(node.kids) = Len(node.items) + 1
  BY <1>1, LooseFields, KidCount
<1>3. /\ at \in 1 .. Len(node.items) + 1
      /\ IsAt(node, at, k) => at \in 1 .. Len(node.items) /\ node.items[at].key = k
      /\ ~IsAt(node, at, k) => FitsOnly(node, at, k)
  BY <1>1, PlaceOf
<1>4. answer = RemoveAnswer(h, node, c, k)
  BY <1>1, <1>2, RemoveOf
<1>10. h # 0
  OBVIOUS
<1>5. CASE ~IsAt(node, at, k)
  <2> DEFINE new == ready.node  i == ready.i
  <2>1. answer = TakenBelow(h - 1, new, c, k, i)
    BY <1>4, <1>5, <1>10, Zenon DEF RemoveAnswer
  <2>2. IsReady(h, node, k, new, i)
    <3>1. at \in 1 .. Len(node.kids)
      BY <1>2, <1>3
    <3> HIDE DEF at
    <3>2. QED
      BY <1>1, <1>3, <1>5, <3>1, ReadyKeeps
  <2> HIDE DEF at, answer, new, i
  <2>3. /\ Loose(h, new) /\ InOrder[h][new] = s
        /\ Len(new.items) \in {Len(node.items) - 1, Len(node.items)}
        /\ i \in 1 .. Len(new.kids) /\ FitsOnly(new, i, k) /\ CanSpare(new.kids[i])
    BY <2>2 DEF IsReady
  <2>4. PICK made, e, found :
            /\ TakenBelow(h - 1, new, c, k, i) = TakenOf(made, e, found)
            /\ Loose(h, made) /\ made.items = new.items
            /\ Removal(InOrder[h][new], InOrder[h][made], c, e, k, found)
    BY <1>1, <2>3, KidRemoval
  <2>5. Takes(h, node, c, k, TakenOf(made, e, found))
    BY <2>3, <2>4, IsTaken
  <2>6. QED
    BY <2>1, <2>4, <2>5 DEF answer
<1>6. CASE IsAt(node, at, k) /\ CanSpare(node.kids[at])
  <2>1. answer = TakenBelow(h - 1, ItemPut(node, at, prev), Swapped(c, y, prev), prev.key, at)
    BY <1>4, <1>6, <1>10, Zenon DEF RemoveAnswer
  <2> HIDE DEF at, answer
  <2>2. PICK new, e, found :
            /\ found = TRUE
            /\ TakenBelow(h - 1, ItemPut(node, at, prev), Swapped(c, y, prev), prev.key, at)
                  = TakenOf(new, e, found)
            /\ ItemGone(h, node, at, c, new, e)
    BY <1>1, <1>3, <1>6, PrevStandsIn, Zenon
  <2>3. /\ Loose(h, new) /\ Len(new.items) = Len(node.items)
        /\ Removal(s, InOrder[h][new], c, e, k, found)
    BY <1>3, <1>6, <2>2 DEF ItemGone, Removal
  <2>4. Takes(h, node, c, k, TakenOf(new, e, found))
    BY <2>3, IsTaken
  <2>5. QED
    BY <2>1, <2>2, <2>4, Zenon DEF answer
<1>7. CASE IsAt(node, at, k) /\ ~CanSpare(node.kids[at]) /\ CanSpare(node.kids[at + 1])
  <2>1. answer = TakenBelow(h - 1, ItemPut(node, at, next), Swapped(c, y, next), next.key, at + 1)
    BY <1>4, <1>7, <1>10, Zenon DEF RemoveAnswer
  <2> HIDE DEF at, answer
  <2>2. PICK new, e, found :
            /\ found = TRUE
            /\ TakenBelow(h - 1, ItemPut(node, at, next), Swapped(c, y, next), next.key, at + 1)
                  = TakenOf(new, e, found)
            /\ ItemGone(h, node, at, c, new, e)
    BY <1>1, <1>3, <1>7, NextStandsIn, Zenon
  <2>3. /\ Loose(h, new) /\ Len(new.items) = Len(node.items)
        /\ Removal(s, InOrder[h][new], c, e, k, found)
    BY <1>3, <1>7, <2>2 DEF ItemGone, Removal
  <2>4. Takes(h, node, c, k, TakenOf(new, e, found))
    BY <2>3, IsTaken
  <2>5. QED
    BY <2>1, <2>2, <2>4, Zenon DEF answer
<1>8. CASE IsAt(node, at, k) /\ ~CanSpare(node.kids[at]) /\ ~CanSpare(node.kids[at + 1])
  <2>1. answer = TakenBelow(h - 1, fused, c, k, at)
    BY <1>4, <1>8, <1>10, Zenon DEF RemoveAnswer
  <2> HIDE DEF at, answer
  <2>2. IsMerge(h, node, at, fused)
    BY <1>1, <1>3, <1>8, MergeKeeps, Zenon
  <2> HIDE DEF fused
  <2>3. /\ Loose(h, fused) /\ InOrder[h][fused] = s
        /\ Len(fused.items) = Len(node.items) + -1
        /\ at \in 1 .. Len(fused.kids) /\ Len(fused.kids[at].items) = 2 * degree - 1
        /\ node.items[at] \in ToSet(InOrder[h - 1][fused.kids[at]])
    BY <2>2 DEF IsMerge, Kept
  <2>4. CanSpare(fused.kids[at])
    BY <2>3 DEF CanSpare, DegreeOK
  <2>5. \E x \in ToSet(InOrder[h - 1][fused.kids[at]]) : x.key = k
    BY <1>3, <1>8, <2>3
  <2>6. PICK made, e, found :
            /\ TakenBelow(h - 1, fused, c, k, at) = TakenOf(made, e, found)
            /\ Loose(h, made) /\ made.items = fused.items
            /\ Removal(InOrder[h][fused], InOrder[h][made], c, e, k, found)
    BY <1>1, <2>3, <2>4, <2>5, KidRemoval, Zenon
  <2>7. Len(made.items) \in {Len(node.items) - 1, Len(node.items)}
    BY <1>2, <2>3, <2>6
  <2>8. Takes(h, node, c, k, TakenOf(made, e, found))
    BY <2>3, <2>6, <2>7, IsTaken, Zenon
  <2>9. QED
    BY <2>1, <2>6, <2>8 DEF answer
<1>9. QED
  BY <1>5, <1>6, <1>7, <1>8, Zenon

\* btree_remove_node keeps the shape and the order, and takes out one item of
\* the key when there is one.
LEMMA RemoveKeeps ==
    ASSUME DegreeOK
    PROVE  \A h \in Nat : Removes(h)
<1> SUFFICES ASSUME NEW g \in Nat
             PROVE  Removes(g)
  OBVIOUS
<1> DEFINE S == {h \in 0 .. g : Removes(h)}
<1>1. 0 \in S
  <2>1. Removes(0)
    BY RemoveInLeaf DEF Removes
  <2>2. QED
    BY <2>1
<1>2. ASSUME NEW h \in 0 .. g - 1, h \in S
      PROVE  h + 1 \in S
  <2>1. h + 1 \in Nat /\ h + 1 > 0 /\ h + 1 \in 0 .. g /\ (h + 1) - 1 = h /\ Removes(h)
    BY <1>2
  <2>2. Removes(h + 1)
    BY <2>1, RemoveBelow DEF Removes
  <2>3. QED
    BY <2>1, <2>2
<1>3. \A h \in 0 .. g : h \in S
  <2> HIDE DEF S
  <2>1. QED
    BY <1>1, <1>2, IntervalInduction
<1>4. QED
  BY <1>3

-----------------------------------------------------------------------------
(* 21. The operations on the whole tree *)

\* A node that can be the root.
GoodRoot(node) ==
    /\ node.level \in Nat /\ Loose(node.level, node) /\ Len(node.items) <= 2 * degree - 1
    /\ node.level > 0 => Len(node.items) >= 1
    /\ Ordered(ItemsOf(node)) /\ ItemsOf(node) \in Seq(AnyItem)

\* A loose node within the bounds of a root is one.
LEMMA MakeGoodRoot ==
    ASSUME NEW h \in Nat, NEW node, Loose(h, node), Len(node.items) <= 2 * degree - 1,
           h > 0 => Len(node.items) >= 1, Ordered(InOrder[h][node])
    PROVE  GoodRoot(node) /\ ItemsOf(node) = InOrder[h][node] /\ node.level = h
<1>1. node.level = h /\ node \in Tree[h]
  BY LooseFields
<1>2. InOrder[h][node] \in Seq(AnyItem)
  BY <1>1, LooseFields, InOrderType
<1>3. QED
  BY <1>1, <1>2 DEF GoodRoot, ItemsOf

\* A full root under a new one.
Above(node) == Node(node.level + 1, <<>>, <<node>>)

\* top is the new root over the halves of a full one.
IsTop(node, top) ==
    /\ GoodRoot(top) /\ ~IsFull(top) /\ ItemsOf(top) = ItemsOf(node)

\* btree_insert with a full root: the new root over the two halves is good
\* and holds the same items.
LEMMA NewTop ==
    ASSUME DegreeOK, NEW node, GoodRoot(node), IsFull(node)
    PROVE  IsTop(node, SplitChild(Above(node), 1))
<1> DEFINE h == node.level  new == Above(node)  top == SplitChild(new, 1)
<1>1. /\ h \in Nat /\ Loose(h, node) /\ Len(node.items) = 2 * degree - 1
      /\ Ordered(InOrder[h][node])
  BY DEF GoodRoot, IsFull, ItemsOf
<1>2. new = Node(h + 1, <<>>, <<node>>)
  BY DEF Above
<1>3. ItemsOf(node) = InOrder[h][node]
  BY DEF ItemsOf
<1> HIDE DEF h, new
<1>4. node \in Filled(degree)[h]
  BY <1>1, InFilled DEF DegreeOK
<1>5. h + 1 \in Nat /\ h + 1 > 0 /\ (h + 1) - 1 = h /\ h + 1 # 0
  BY <1>1
<1>6. Loose(h + 1, new)
  <2> DEFINE U == Filled(degree)[h]  kids == <<node>>  items == <<>>
  <2>1. kids \in Seq(U) /\ Len(kids) = 1
    <3>1. node \in U
      BY <1>4
    <3> HIDE DEF U
    <3>2. QED
      BY <3>1
  <2>2. items \in Seq(AnyItem) /\ Len(items) = 0
    BY EmptyType
  <2> HIDE DEF U, kids, items
  <2>3. IF h + 1 = 0 THEN kids = <<>>
        ELSE kids \in Seq(Filled(degree)[(h + 1) - 1]) /\ Len(kids) = Len(items) + 1
    BY <1>5, <2>1, <2>2 DEF U
  <2>4. Loose(h + 1, Node(h + 1, items, kids))
    BY <1>5, <2>2, <2>3, MakeLoose, Zenon
  <2>5. QED
    BY <1>2, <2>4 DEF kids, items
<1>7. new.items = <<>> /\ new.kids = <<node>>
  BY <1>2, NodeFields
<1>8. Len(new.items) = 0 /\ 1 \in 1 .. Len(new.kids) /\ new.kids[1] = node
  BY <1>7
<1>9. InOrder[h + 1][new] = InOrder[h][node]
  BY <1>5, <1>6, <1>8, OnlyKid
<1>10. IsFull(new.kids[1])
  BY <1>8
<1>11. IsSplit(h + 1, new, 1, top)
  BY <1>5, <1>6, <1>8, <1>10, SplitKeeps
<1> HIDE DEF top
<1>12. Loose(h + 1, top) /\ InOrder[h + 1][top] = InOrder[h + 1][new] /\ Len(top.items) = 1
  BY <1>8, <1>11 DEF IsSplit, Kept
<1>13. Len(top.items) <= 2 * degree - 1 /\ ~IsFull(top)
  BY <1>12 DEF IsFull, DegreeOK
<1>14. Ordered(InOrder[h + 1][top])
  BY <1>1, <1>9, <1>12
<1>15. GoodRoot(top) /\ ItemsOf(top) = InOrder[h + 1][top]
  <2> DEFINE g == h + 1
  <2>1. /\ g \in Nat /\ Loose(g, top) /\ Len(top.items) <= 2 * degree - 1
        /\ g > 0 => Len(top.items) >= 1
        /\ Ordered(InOrder[g][top])
    BY <1>5, <1>12, <1>13, <1>14
  <2> HIDE DEF g
  <2>2. QED
    BY <2>1, MakeGoodRoot DEF g
<1>16. QED
  BY <1>3, <1>9, <1>12, <1>13, <1>15 DEF IsTop, top, new

\* What inserting into a tree does.
InsertedInto(node, c, x, done) ==
    /\ GoodRoot(done.node) /\ done.held \in Holdings
    /\ \E b \in {0, 1} :
          Changes(ItemsOf(node), ItemsOf(done.node), Counted(c, x, 1), done.held, {x}, x.key, b)

\* btree_insert as a whole: the root stays good and the items change by the
\* inserted one.
LEMMA InsertedKeeps ==
    ASSUME DegreeOK, NEW tree, GoodRoot(tree.node), tree.held \in Holdings, NEW x \in AnyItem
    PROVE  /\ InsertedInto(tree.node, tree.held, x, Inserted(tree, x))
           /\ Inserted(tree, x) = PutOf(Inserted(tree, x).node, Inserted(tree, x).held, x)
<1> DEFINE node == tree.node  c == tree.held  d == Counted(c, x, 1)
           top == IF IsFull(node) THEN SplitChild(Above(node), 1) ELSE node
           h == top.level  done == InsertNonFull[h][PutOf(top, d, x)]
<1>1. Inserted(tree, x) = done
  BY Zenon DEF Inserted, Above, PutOf
<1>2. GoodRoot(node) /\ c \in Holdings
  OBVIOUS
<1> HIDE DEF node, c
<1>3. IsTop(node, top)
  <2>1. CASE IsFull(node)
    BY <1>2, <2>1, NewTop
  <2>2. CASE ~IsFull(node)
    BY <1>2, <2>2 DEF IsTop
  <2>3. QED
    BY <2>1, <2>2
<1> HIDE DEF top
<1>4. /\ h \in Nat /\ Loose(h, top) /\ Len(top.items) <= 2 * degree - 1
      /\ h > 0 => Len(top.items) >= 1
      /\ Ordered(InOrder[h][top]) /\ InOrder[h][top] = ItemsOf(node)
      /\ Len(top.items) # 2 * degree - 1
  BY <1>3 DEF IsTop, GoodRoot, ItemsOf, IsFull
<1> HIDE DEF h
<1>5. Len(top.items) \in Nat
  BY <1>4, LooseFields
<1>6. Len(top.items) < 2 * degree - 1
  BY <1>4, <1>5 DEF DegreeOK
<1>7. d \in Holdings
  BY <1>2, CountedFacts
<1> HIDE DEF d
<1>8. Puts(h, top, d, x, done)
  <2>1. CanPut(h, top, d, x)
    BY <1>4, <1>6, <1>7 DEF CanPut
  <2>2. Inserts(h)
    BY <1>4, InsertKeeps
  <2>3. QED
    BY <2>1, <2>2 DEF Inserts
<1> HIDE DEF done
<1>9. /\ Loose(h, done.node) /\ done = PutOf(done.node, done.held, x)
      /\ Len(done.node.items) \in {Len(top.items), Len(top.items) + 1}
      /\ \E b \in {0, 1} :
            Changes(InOrder[h][top], InOrder[h][done.node], d, done.held, {x}, x.key, b)
  BY <1>8 DEF Puts
<1>10. PICK b \in {0, 1} :
            Changes(InOrder[h][top], InOrder[h][done.node], d, done.held, {x}, x.key, b)
  BY <1>9
<1>11. Ordered(InOrder[h][done.node]) /\ done.held \in Holdings
  BY <1>10 DEF Changes
<1>12. Len(done.node.items) <= 2 * degree - 1 /\ (h > 0 => Len(done.node.items) >= 1)
  BY <1>4, <1>5, <1>6, <1>9 DEF DegreeOK
<1>13. GoodRoot(done.node) /\ ItemsOf(done.node) = InOrder[h][done.node]
  BY <1>4, <1>9, <1>11, <1>12, MakeGoodRoot
<1>14. QED
  BY <1>1, <1>4, <1>9, <1>10, <1>11, <1>13 DEF InsertedInto, d, node, c

\* What removing from a tree does.
RemovedFrom(node, c, k, done) ==
    /\ GoodRoot(Shrunk(done.node)) /\ done.held \in Holdings
    /\ ItemsOf(Shrunk(done.node)) = ItemsOf(done.node)
    /\ Removal(ItemsOf(node), ItemsOf(done.node), c, done.held, k, done.found)

\* The descent of btree_remove from the root.
LEMMA RemovedKeeps ==
    ASSUME DegreeOK, NEW node, GoodRoot(node), NEW c \in Holdings, NEW k \in Key
    PROVE  RemovedFrom(node, c, k, RemoveFromNode[node.level][TakeOf(node, c, k)])
<1> DEFINE h == node.level  done == RemoveFromNode[h][TakeOf(node, c, k)]  new == done.node
           s == InOrder[h][node]  t == InOrder[h][new]
<1>1. /\ h \in Nat /\ Loose(h, node) /\ Len(node.items) <= 2 * degree - 1
      /\ h > 0 => Len(node.items) >= 1
      /\ Ordered(s)
      /\ ItemsOf(node) = s
  BY DEF GoodRoot, ItemsOf
<1> HIDE DEF h
<1>2. Takes(h, node, c, k, done)
  <2>1. CanTake(h, node, c, k)
    BY <1>1 DEF CanTake
  <2>2. Removes(h)
    BY <1>1, RemoveKeeps
  <2>3. QED
    BY <2>1, <2>2 DEF Removes
<1> HIDE DEF done
<1>3. /\ Loose(h, new) /\ Len(new.items) \in {Len(node.items) - 1, Len(node.items)}
      /\ Removal(s, t, c, done.held, k, done.found)
  BY <1>2 DEF Takes
<1>4. Ordered(t) /\ done.held \in Holdings
  BY <1>1, <1>3 DEF Removal, Changes
<1>5. new.level = h /\ Len(new.items) \in Nat /\ Len(node.items) \in Nat /\ new.items \in Seq(AnyItem)
  BY <1>1, <1>3, LooseFields, Zenon
<1>6. ItemsOf(new) = t
  BY <1>5 DEF ItemsOf
<1> HIDE DEF new, s, t
<1>7. Len(new.items) <= 2 * degree - 1
  <2> DEFINE m == Len(new.items)  n == Len(node.items)
  <2>1. n <= 2 * degree - 1 /\ m \in {n - 1, n} /\ n \in Nat
    BY <1>1, <1>3, <1>5
  <2> HIDE DEF m, n
  <2>2. m <= 2 * degree - 1
    BY <2>1 DEF DegreeOK
  <2>3. QED
    BY <2>2 DEF m
<1>8. CASE new.items = <<>> /\ h > 0
  <2> DEFINE kid == new.kids[1]
  <2>1. Len(new.items) = 0 /\ ~IsLeaf(new)
    BY <1>5, <1>8 DEF IsLeaf
  <2>2. Shrunk(new) = kid
    BY <1>8, <2>1 DEF Shrunk
  <2>3. t = InOrder[h - 1][kid] /\ kid \in Filled(degree)[h - 1]
    BY <1>1, <1>3, <1>8, <2>1, OnlyKid DEF t
  <2> HIDE DEF kid
  <2>4. h - 1 \in Nat
    BY <1>1, <1>8
  <2>5. /\ Loose(h - 1, kid) /\ Len(kid.items) \in Nat
        /\ Len(kid.items) >= degree - 1 /\ Len(kid.items) <= 2 * degree - 1
    BY <2>3, <2>4, OfFilled
  <2>6. h - 1 > 0 => Len(kid.items) >= 1
    BY <2>5 DEF DegreeOK
  <2>7. GoodRoot(kid) /\ ItemsOf(kid) = InOrder[h - 1][kid]
    BY <1>4, <2>3, <2>4, <2>5, <2>6, MakeGoodRoot
  <2>8. RemovedFrom(node, c, k, done)
    BY <1>1, <1>3, <1>4, <1>6, <2>2, <2>3, <2>7 DEF RemovedFrom, new
  <2>9. QED
    BY <2>8 DEF done, h
<1>9. CASE ~(new.items = <<>> /\ h > 0)
  <2>1. Shrunk(new) = new
    BY <1>1, <1>5, <1>9 DEF Shrunk, IsLeaf
  <2>2. h > 0 => Len(new.items) >= 1
    BY <1>5, <1>9
  <2>3. GoodRoot(new)
    BY <1>1, <1>3, <1>4, <1>7, <2>2, MakeGoodRoot DEF t
  <2>4. RemovedFrom(node, c, k, done)
    BY <1>1, <1>3, <1>4, <1>6, <2>1, <2>3 DEF RemovedFrom, new
  <2>5. QED
    BY <2>4 DEF done, h
<1>10. QED
  BY <1>8, <1>9

-----------------------------------------------------------------------------
(* 22. The inductive invariant *)

\* How often the keys are held, once some are known to have been held twice.
KeysHeld(items, twice) ==
    \A k \in Key : IF k \in twice THEN Hits(items, Keyed(k)) >= 1 ELSE Hits(items, Keyed(k)) <= 1

\* The counts of references that are those of the items.
HeldOf(items) == {c \in Holdings : \A y \in AnyItem : c[y] = Hits(items, {y})}

\* The inductive invariant.
TreeInv ==
    /\ DegreeOK
    /\ GoodRoot(root)
    /\ held \in HeldOf(ItemsOf(root))
    /\ count \in Nat /\ count >= Len(ItemsOf(root))
    /\ doubled \subseteq Key
    /\ KeysHeld(ItemsOf(root), doubled)

\* The copies of a key the run remembers are the items with that key.
LEMMA CopiesAreHits ==
    ASSUME NEW s \in Seq(AnyItem), NEW k \in Key
    PROVE  Copies(s, k) = Hits(s, Keyed(k))
<1>1. \A n \in DOMAIN s : s[n].key = k <=> s[n] \in Keyed(k)
  BY ElementOfSeq DEF Keyed
<1>2. {n \in DOMAIN s : s[n].key = k} = {n \in DOMAIN s : s[n] \in Keyed(k)}
  BY <1>1
<1>3. QED
  BY <1>2, Zenon DEF Copies, Hits

\* What is remembered of the keys that were held twice.
LEMMA Remembered ==
    ASSUME NEW s \in Seq(AnyItem), Remember(s)
    PROVE  /\ doubled' \subseteq Key /\ KeysHeld(s, doubled')
           /\ \A k \in Key : k \in doubled' <=> Hits(s, Keyed(k)) > IF k \in doubled THEN 0 ELSE 1
<1>1. \A k \in Key : Copies(s, k) = Hits(s, Keyed(k)) /\ Hits(s, Keyed(k)) \in Int
  BY CopiesAreHits, HitsCats
<1>2. doubled' = {k \in Key : Copies(s, k) > IF k \in doubled THEN 0 ELSE 1}
  BY DEF Remember
<1>3. \A k \in Key : k \in doubled' <=> Hits(s, Keyed(k)) > IF k \in doubled THEN 0 ELSE 1
  BY <1>1, <1>2
<1>4. KeysHeld(s, doubled')
  BY <1>1, <1>3 DEF KeysHeld
<1>5. QED
  BY <1>2, <1>3, <1>4

\* The references held are the items of the tree, after an insertion.
LEMMA HeldAfterInsert ==
    ASSUME NEW s \in Seq(AnyItem), NEW t, NEW c \in HeldOf(s), NEW e, NEW x \in AnyItem, NEW k, NEW b,
           Changes(s, t, Counted(c, x, 1), e, {x}, k, b)
    PROVE  e \in HeldOf(t)
<1> DEFINE d == Counted(c, x, 1)
<1>1. c \in Holdings /\ \A y \in AnyItem : c[y] = Hits(s, {y})
  BY DEF HeldOf
<1>2. \A y \in AnyItem : d[y] = c[y] + IF y = x THEN 1 ELSE 0
  BY <1>1, CountedFacts
<1> HIDE DEF d
<1>3. /\ t \in Seq(AnyItem) /\ e \in Holdings
      /\ \A y \in AnyItem : e[y] = d[y] + Hits(t, {y}) - Hits(s, {y}) - IF y \in {x} THEN 1 ELSE 0
  BY DEF Changes, d
<1>4. ASSUME NEW y \in AnyItem
      PROVE  e[y] = Hits(t, {y})
  <2>1. Hits(s, {y}) \in Int /\ Hits(t, {y}) \in Int
    BY <1>3, HitsCats
  <2> DEFINE p == Hits(s, {y})  q == Hits(t, {y})
  <2>2. e[y] = p + (IF y = x THEN 1 ELSE 0) + q - p - IF y = x THEN 1 ELSE 0
    BY <1>1, <1>2, <1>3, Zenon
  <2> HIDE DEF p, q
  <2>3. e[y] = q
    BY <2>1, <2>2 DEF p, q
  <2>4. QED
    BY <2>3 DEF q
<1>5. QED
  BY <1>3, <1>4, Zenon DEF HeldOf

\* The references held are the items of the tree, after a removal.
LEMMA HeldAfterRemoval ==
    ASSUME NEW s \in Seq(AnyItem), NEW t, NEW c \in HeldOf(s), NEW e, NEW k, NEW found,
           Removal(s, t, c, e, k, found)
    PROVE  e \in HeldOf(t)
<1>1. c \in Holdings /\ \A y \in AnyItem : c[y] = Hits(s, {y})
  BY Zenon DEF HeldOf
<1>2. CASE Changes(s, t, c, e, {}, k, -1)
  <2>1. /\ t \in Seq(AnyItem) /\ e \in Holdings
        /\ \A y \in AnyItem : e[y] = c[y] + Hits(t, {y}) - Hits(s, {y}) - IF y \in {} THEN 1 ELSE 0
    BY <1>2 DEF Changes
  <2>2. ASSUME NEW y \in AnyItem
        PROVE  e[y] = Hits(t, {y})
    <3> DEFINE p == Hits(s, {y})  q == Hits(t, {y})
    <3>1. p \in Int /\ q \in Int
      BY <2>1, HitsCats
    <3>2. e[y] = p + q - p - 0
      BY <1>1, <2>1, Zenon
    <3> HIDE DEF p, q
    <3>3. e[y] = q
      BY <3>1, <3>2
    <3>4. QED
      BY <3>3 DEF q
  <2>3. QED
    BY <2>1, <2>2, Zenon DEF HeldOf
<1>3. CASE t = s /\ e = c
  BY <1>3
<1>4. QED
  BY <1>2, <1>3 DEF Removal

\* btree_insert keeps the invariant.
LEMMA InsertPreserves ==
    ASSUME TreeInv, NEW item \in Item, BtreeInsert(item)
    PROVE  /\ TreeInv' /\ degree' = degree
           /\ InsertedInto(root, held, item, [node |-> root', held |-> held'])
           /\ Remember(ItemsOf(root'))
<1> DEFINE tree == [node |-> root, held |-> held]  done == Inserted(tree, item)
           s == ItemsOf(root)  t == ItemsOf(root')
<1>1. /\ DegreeOK /\ GoodRoot(root) /\ held \in HeldOf(s)
      /\ count \in Nat /\ count >= Len(s)
  BY DEF TreeInv
<1>2. item \in AnyItem
  BY ItemAssumption DEF AnyItem
<1>3. /\ root' = done.node /\ held' = done.held
      /\ count' = IF root = None THEN 1 ELSE count + 1
      /\ Remember(ItemsOf(done.node)) /\ degree' = degree
  BY DEF BtreeInsert
<1>4. tree.node = root /\ tree.held = held /\ held \in Holdings /\ s \in Seq(AnyItem)
  BY <1>1 DEF HeldOf, GoodRoot
<1> HIDE DEF tree
<1>5. InsertedInto(root, held, item, done)
  BY <1>1, <1>2, <1>4, InsertedKeeps
<1> HIDE DEF done
<1>6. GoodRoot(root') /\ held' \in Holdings
  BY <1>3, <1>5 DEF InsertedInto
<1>7. PICK b \in {0, 1} : Changes(s, t, Counted(held, item, 1), held', {item}, item.key, b)
  BY <1>3, <1>5 DEF InsertedInto
<1>8. InsertedInto(root, held, item, [node |-> root', held |-> held'])
  BY <1>6, <1>7 DEF InsertedInto
<1>9. t \in Seq(AnyItem) /\ Len(t) = Len(s) + b /\ Remember(t)
  BY <1>3, <1>7 DEF Changes
<1>10. root = None => Len(s) = 0
  <2>1. ASSUME root = None
        PROVE  s = <<>>
    <3>1. root.level = 0 /\ root.items = <<>>
      BY <2>1, NodeFields DEF None
    <3>2. Loose(0, root)
      BY <1>1, <3>1 DEF GoodRoot
    <3>3. root \in Tree[0]
      BY <3>2, LooseFields
    <3>4. InOrder[0][root] = root.items
      BY <3>3, InOrderOf
    <3>5. QED
      BY <3>1, <3>4 DEF ItemsOf
  <2>2. QED
    BY <2>1
<1> HIDE DEF s, t
<1>11. held' \in HeldOf(t)
  BY <1>1, <1>2, <1>4, <1>7, HeldAfterInsert
<1>12. count' \in Nat /\ count' >= Len(t)
  <2>1. Len(s) \in Nat
    BY <1>4
  <2>2. QED
    BY <1>1, <1>3, <1>9, <1>10, <2>1
<1>13. doubled' \subseteq Key /\ KeysHeld(t, doubled')
  BY <1>9, Remembered
<1>14. TreeInv'
  <2>1. ItemsOf(root)' = t
    BY DEF t
  <2>2. GoodRoot(root)'
    BY <1>3, <1>6 DEF GoodRoot, Loose, Shaped
  <2>3. DegreeOK'
    BY <1>1, <1>3 DEF DegreeOK
  <2>4. (held \in HeldOf(ItemsOf(root)))' /\ KeysHeld(ItemsOf(root), doubled)'
    BY <1>11, <1>13, <2>1
  <2>5. QED
    BY <1>12, <1>13, <2>1, <2>2, <2>3, <2>4 DEF TreeInv
<1>15. QED
  BY <1>3, <1>8, <1>9, <1>14 DEF t

\* btree_remove, with the root that collapses, keeps the invariant.
LEMMA RemovePreserves ==
    ASSUME TreeInv, NEW k \in Key, BtreeRemove(k)
    PROVE  /\ TreeInv' /\ degree' = degree
           /\ \E found : Removal(ItemsOf(root), ItemsOf(root'), held, held', k, found)
           /\ Remember(ItemsOf(root'))
<1> DEFINE done == RemoveFromNode[root.level][TakeOf(root, held, k)]
           s == ItemsOf(root)  t == ItemsOf(root')
<1>1. /\ DegreeOK /\ GoodRoot(root) /\ held \in HeldOf(s)
      /\ count \in Nat /\ count >= Len(s)
  BY DEF TreeInv
<1>2. /\ root' = Shrunk(done.node) /\ held' = done.held
      /\ count' = CountDown(done.found)
      /\ Remember(ItemsOf(done.node)) /\ degree' = degree
  BY DEF BtreeRemove, TakeOf
<1>3. held \in Holdings /\ s \in Seq(AnyItem)
  BY <1>1 DEF HeldOf, GoodRoot
<1>4. RemovedFrom(root, held, k, done)
  BY <1>1, <1>3, RemovedKeeps
<1> HIDE DEF done
<1>5. /\ GoodRoot(root') /\ ItemsOf(done.node) = t
      /\ Removal(s, t, held, held', k, done.found)
  BY <1>2, <1>4 DEF RemovedFrom
<1>6. t \in Seq(AnyItem)
  BY <1>5 DEF GoodRoot
<1> HIDE DEF s, t
<1>7. held' \in HeldOf(t)
  BY <1>1, <1>3, <1>5, HeldAfterRemoval
<1>8. count' \in Nat /\ count' >= Len(t)
  <2>1. Len(s) \in Nat /\ Len(t) \in Nat
    BY <1>3, <1>6
  <2>2. \/ done.found = TRUE /\ Len(t) = Len(s) + -1
        \/ done.found = FALSE /\ t = s
    BY <1>5 DEF Removal, Changes
  <2>3. CASE done.found = TRUE /\ Len(t) = Len(s) + -1
    BY <1>1, <1>2, <2>1, <2>3 DEF CountDown
  <2>4. CASE done.found = FALSE /\ t = s
    BY <1>1, <1>2, <2>1, <2>4 DEF CountDown
  <2>5. QED
    BY <2>2, <2>3, <2>4, Zenon
<1>9. Remember(t)
  BY <1>2, <1>5
<1>10. doubled' \subseteq Key /\ KeysHeld(t, doubled')
  BY <1>6, <1>9, Remembered
<1>11. TreeInv'
  <2>1. ItemsOf(root)' = t
    BY DEF t
  <2>2. GoodRoot(root)'
    BY <1>2, <1>5 DEF GoodRoot, Loose, Shaped
  <2>3. DegreeOK'
    BY <1>1, <1>2 DEF DegreeOK
  <2>4. (held \in HeldOf(ItemsOf(root)))' /\ KeysHeld(ItemsOf(root), doubled)'
    BY <1>7, <1>10, <2>1
  <2>5. QED
    BY <1>8, <1>10, <2>1, <2>2, <2>3, <2>4 DEF TreeInv
<1>12. QED
  BY <1>2, <1>5, <1>9, <1>11 DEF s, t

-----------------------------------------------------------------------------
(* 23. The initial states *)

\* A tree into which the first n items of a script's start were put.
Started(start, n, t) ==
    /\ GoodRoot(t.node) /\ t.held \in HeldOf(ItemsOf(t.node)) /\ Len(ItemsOf(t.node)) <= n
    /\ \A k \in Key :
          Hits(ItemsOf(t.node), Keyed(k)) <= IF \E m \in 1 .. n : start[m].key = k THEN 1 ELSE 0

\* A map nothing was put in.
EmptyTree == [node |-> None, held |-> [item \in AnyItem |-> 0]]

\* An empty map is a good start.
LEMMA EmptyIsStarted ==
    ASSUME DegreeOK, NEW start
    PROVE  Started(start, 0, EmptyTree)
<1>1. None = Node(0, <<>>, <<>>) /\ None.items = <<>> /\ None.level = 0
  BY NodeFields DEF None
<1>2. <<>> \in Seq(AnyItem) /\ Len(<<>>) = 0
  BY EmptyType
<1> HIDE DEF None
<1>3. Loose(0, None) /\ None \in Tree[0]
  <2> DEFINE items == <<>>  kids == <<>>
  <2>1. items \in Seq(AnyItem) /\ kids = <<>>
    BY <1>2
  <2> HIDE DEF items, kids
  <2>2. Loose(0, Node(0, items, kids))
    BY <2>1, MakeLoose
  <2>3. Loose(0, None)
    BY <1>1, <2>2 DEF items, kids
  <2>4. QED
    BY <2>3, LooseFields
<1>4. InOrder[0][None] = <<>>
  BY <1>1, <1>3, InOrderOf
<1>5. Ordered(<<>>) /\ \A Z : Hits(<<>>, Z) = 0
  BY OrderedCats, HitsCats
<1>6. GoodRoot(None) /\ ItemsOf(None) = <<>>
  <2>1. Len(None.items) <= 2 * degree - 1
    BY <1>1, <1>2 DEF DegreeOK
  <2>2. QED
    BY <1>3, <1>4, <1>5, <2>1, MakeGoodRoot
<1> DEFINE c == [item \in AnyItem |-> 0]
<1>7. c \in Holdings /\ \A y \in AnyItem : c[y] = 0
  BY DEF Holdings
<1>8. EmptyTree.node = None /\ EmptyTree.held = c
  BY DEF EmptyTree
<1> HIDE DEF c
<1>9. c \in HeldOf(<<>>)
  BY <1>5, <1>7 DEF HeldOf
<1>10. QED
  BY <1>2, <1>5, <1>6, <1>8, <1>9 DEF Started

\* A start goes on to be good with each insertion.
LEMMA StartedGoesOn ==
    ASSUME DegreeOK, NEW start \in Starts, NEW n \in 1 .. Len(start), NEW t, Started(start, n - 1, t)
    PROVE  Started(start, n, Inserted(t, start[n]))
<1> DEFINE x == start[n]  done == Inserted(t, x)  s == ItemsOf(t.node)  u == ItemsOf(done.node)
<1>1. /\ start \in Seq(AnyItem) /\ x \in AnyItem
      /\ \A m, j \in 1 .. Len(start) : m # j => start[m].key # start[j].key
  <2>1. start \in Seq(AnyItem)
    BY StartsAssumption
  <2>2. DOMAIN start = 1 .. Len(start)
    BY <2>1
  <2>3. QED
    BY <2>1, <2>2, StartsAssumption, ElementOfSeq
<1>2. /\ GoodRoot(t.node) /\ t.held \in HeldOf(s) /\ Len(s) <= n - 1
      /\ \A k \in Key : Hits(s, Keyed(k)) <= IF \E m \in 1 .. n - 1 : start[m].key = k THEN 1 ELSE 0
  BY DEF Started
<1>3. t.held \in Holdings /\ s \in Seq(AnyItem)
  BY <1>2 DEF HeldOf, GoodRoot
<1>4. Len(start) \in Nat
  BY <1>1
<1> HIDE DEF x
<1>5. InsertedInto(t.node, t.held, x, done)
  BY <1>1, <1>2, <1>3, InsertedKeeps
<1> HIDE DEF done
<1>6. GoodRoot(done.node)
  BY <1>5 DEF InsertedInto
<1>7. PICK b \in {0, 1} : Changes(s, u, Counted(t.held, x, 1), done.held, {x}, x.key, b)
  BY <1>5 DEF InsertedInto
<1> HIDE DEF s, u
<1>8. done.held \in HeldOf(u)
  BY <1>1, <1>2, <1>3, <1>7, HeldAfterInsert
<1>9. /\ u \in Seq(AnyItem) /\ Len(u) = Len(s) + b
      /\ \A k \in Key : Hits(u, Keyed(k)) = Hits(s, Keyed(k)) + IF k = x.key THEN b ELSE 0
  BY <1>7 DEF Changes
<1>10. Len(u) <= n
  <2>1. Len(s) \in Nat
    BY <1>3
  <2>2. QED
    BY <1>2, <1>9, <2>1
<1>11. ASSUME NEW k \in Key
       PROVE  Hits(u, Keyed(k)) <= IF \E m \in 1 .. n : start[m].key = k THEN 1 ELSE 0
  <2>1. /\ Hits(u, Keyed(k)) = Hits(s, Keyed(k)) + IF k = x.key THEN b ELSE 0
        /\ Hits(s, Keyed(k)) \in Int /\ Hits(u, Keyed(k)) \in Int
    BY <1>3, <1>9, HitsCats
  <2>2. Hits(s, Keyed(k)) <= IF \E m \in 1 .. n - 1 : start[m].key = k THEN 1 ELSE 0
    BY <1>2
  <2> DEFINE p == Hits(s, Keyed(k))  q == Hits(u, Keyed(k))
  <2> HIDE DEF p, q
  <2>3. CASE k = x.key
    <3>1. \A m \in 1 .. n - 1 : m \in 1 .. Len(start) /\ m # n
      BY <1>4
    <3>2. ~\E m \in 1 .. n - 1 : start[m].key = k
      BY <1>1, <2>3, <3>1 DEF x
    <3>3. p <= 0 /\ q = p + b /\ p \in Int
      BY <2>1, <2>2, <2>3, <3>2 DEF p, q
    <3>4. q <= 1
      BY <3>3
    <3>5. \E m \in 1 .. n : start[m].key = k
      BY <2>3 DEF x
    <3>6. QED
      BY <3>4, <3>5 DEF q
  <2>4. CASE k # x.key
    <3>1. q = p /\ p \in Int
      BY <2>1, <2>4 DEF p, q
    <3>2. (\E m \in 1 .. n - 1 : start[m].key = k) => \E m \in 1 .. n : start[m].key = k
      <4>1. \A m \in 1 .. n - 1 : m \in 1 .. n
        BY <1>4
      <4>2. QED
        BY <4>1
    <3>3. p <= IF \E m \in 1 .. n : start[m].key = k THEN 1 ELSE 0
      <4>1. p <= IF \E m \in 1 .. n - 1 : start[m].key = k THEN 1 ELSE 0
        BY <2>2 DEF p
      <4> DEFINE now == \E m \in 1 .. n : start[m].key = k  before == \E m \in 1 .. n - 1 : start[m].key = k
      <4>2. (before => now) /\ p <= IF before THEN 1 ELSE 0
        BY <3>2, <4>1
      <4> HIDE DEF now, before
      <4>3. p <= IF now THEN 1 ELSE 0
        BY <3>1, <4>2
      <4>4. QED
        BY <4>3 DEF now
    <3>4. QED
      BY <3>1, <3>3 DEF q
  <2>5. QED
    BY <2>3, <2>4
<1>12. Started(start, n, done)
  BY <1>6, <1>8, <1>10, <1>11 DEF Started, u
<1>13. QED
  BY <1>12 DEF done, x

\* The trees a sequence of insertions goes through.
Trees ==
    {t \in [node : UNION {Tree[h] : h \in Nat}, held : Holdings]
              \cup [node : UNION {Tree[h] : h \in Nat}, held : Holdings, item : AnyItem] :
        GoodRoot(t.node)}

\* The trees a sequence of insertions goes through exist.
LEMMA StartExists ==
    ASSUME DegreeOK, NEW start \in Starts
    PROVE  \E g : g = [n \in 0 .. Len(start) |->
                          IF n = 0 THEN EmptyTree ELSE Inserted(g[n - 1], start[n])]
<1> DEFINE hi == Len(start)  Turn == [i \in 1 .. hi |-> [t \in Trees |-> Inserted(t, start[i])]]
<1>1. start \in Seq(AnyItem)
  BY StartsAssumption
<1>2. hi \in Nat /\ \A i \in 1 .. hi : start[i] \in AnyItem
  BY <1>1, ElementOfSeq
<1>3. EmptyTree \in Trees
  <2>1. Started(start, 0, EmptyTree)
    BY EmptyIsStarted
  <2>2. GoodRoot(EmptyTree.node) /\ EmptyTree.held \in Holdings
    BY <2>1 DEF Started, HeldOf
  <2>3. None \in UNION {Tree[h] : h \in Nat}
    <3>1. GoodRoot(None)
      BY <2>2 DEF EmptyTree
    <3>2. None.level \in Nat /\ Loose(None.level, None)
      BY <3>1 DEF GoodRoot
    <3> HIDE DEF None
    <3>3. None \in Tree[None.level]
      BY <3>2, LooseFields, Zenon
    <3>4. QED
      BY <3>2, <3>3
  <2>4. QED
    BY <2>2, <2>3 DEF EmptyTree, Trees
<1>4. ASSUME NEW t \in Trees, NEW x \in AnyItem
      PROVE  Inserted(t, x) \in Trees
  <2> DEFINE done == Inserted(t, x)  node == done.node  c == done.held
  <2>1. GoodRoot(t.node) /\ t.held \in Holdings
    BY DEF Trees
  <2>2. InsertedInto(t.node, t.held, x, done) /\ done = PutOf(node, c, x)
    BY <2>1, InsertedKeeps
  <2> HIDE DEF done
  <2>3. GoodRoot(node) /\ c \in Holdings
    BY <2>2 DEF InsertedInto
  <2>4. node.level \in Nat /\ node \in Tree[node.level]
    BY <2>3, LooseFields DEF GoodRoot
  <2> HIDE DEF node, c
  <2>5. PutOf(node, c, x) \in [node : UNION {Tree[h] : h \in Nat}, held : Holdings, item : AnyItem]
    BY <2>3, <2>4 DEF PutOf
  <2>6. done \in Trees
    BY <2>2, <2>3, <2>5 DEF Trees, node
  <2>7. QED
    BY <2>6 DEF done
<1>5. Turn \in Turns(hi, Trees)
  BY <1>2, <1>4 DEF Turns
<1>6. PICK g : Follows(g, hi, Trees, EmptyTree, Turn)
  BY <1>2, <1>3, <1>5, RecursionHasSolution, Zenon
<1> HIDE DEF hi
<1>7. /\ \A i \in 1 .. hi : g[i - 1] \in Trees
      /\ g = [i \in 0 .. hi |-> IF i = 0 THEN EmptyTree ELSE Turn[i][g[i - 1]]]
  <2> HIDE DEF Turn
  <2>1. QED
    BY <1>2, <1>6, FollowsSteps
<1>8. \A i \in 0 .. hi : i # 0 => i \in 1 .. hi /\ Turn[i][g[i - 1]] = Inserted(g[i - 1], start[i])
  <2>1. \A i \in 0 .. hi : i # 0 => i \in 1 .. hi
    BY <1>2
  <2>2. QED
    BY <1>7, <2>1, Zenon
<1>9. g = [i \in 0 .. hi |-> IF i = 0 THEN EmptyTree ELSE Inserted(g[i - 1], start[i])]
  <2> HIDE DEF Turn
  <2>1. QED
    BY <1>7, <1>8, Zenon
<1>10. QED
  BY <1>9 DEF hi

\* Every initial state satisfies the invariant.
LEMMA InitEstablishes == BTInit => TreeInv
<1> SUFFICES ASSUME BTInit
             PROVE  TreeInv
  OBVIOUS
<1>1. DegreeOK
  BY KeyAssumption DEF BTInit, DegreeOK
<1>2. PICK start \in Starts :
          LET tree[n \in 0 .. Len(start)] ==
                IF n = 0 THEN [node |-> None, held |-> [item \in AnyItem |-> 0]]
                ELSE Inserted(tree[n - 1], start[n])
          IN  /\ root = tree[Len(start)].node
              /\ held = tree[Len(start)].held
              /\ count = Len(start)
  BY Zenon DEF BTInit
<1> DEFINE tree == CHOOSE g : g = [n \in 0 .. Len(start) |->
                        IF n = 0 THEN EmptyTree ELSE Inserted(g[n - 1], start[n])]
<1>3. root = tree[Len(start)].node /\ held = tree[Len(start)].held /\ count = Len(start)
  BY <1>2, Zenon DEF EmptyTree
<1>4. tree = [n \in 0 .. Len(start) |-> IF n = 0 THEN EmptyTree ELSE Inserted(tree[n - 1], start[n])]
  BY <1>1, StartExists, Zenon
<1> HIDE DEF tree
<1>5. Len(start) \in Nat /\ \A m, n \in 1 .. Len(start) : m # n => start[m].key # start[n].key
  BY StartsAssumption
<1> DEFINE S == {n \in 0 .. Len(start) : Started(start, n, tree[n])}
<1>6. 0 \in S
  <2>1. tree[0] = EmptyTree
    BY <1>4, <1>5
  <2>2. QED
    BY <1>1, <1>5, <2>1, EmptyIsStarted
<1>7. ASSUME NEW n \in 0 .. Len(start) - 1, n \in S
      PROVE  n + 1 \in S
  <2>1. n + 1 \in 0 .. Len(start) /\ n + 1 \in 1 .. Len(start) /\ n + 1 # 0 /\ (n + 1) - 1 = n
    BY <1>5
  <2>2. tree[n + 1] = Inserted(tree[n], start[n + 1])
    BY <1>4, <2>1
  <2>3. Started(start, n, tree[n])
    BY <1>7
  <2>4. Started(start, n + 1, tree[n + 1])
    BY <1>1, <2>1, <2>2, <2>3, StartedGoesOn
  <2>5. QED
    BY <2>1, <2>4
<1> DEFINE hi == Len(start)
<1>8. \A n \in 0 .. Len(start) : n \in S
  <2>1. 0 \in Int /\ hi \in Int /\ 0 <= hi
    BY <1>5
  <2>2. 0 \in S
    BY <1>6
  <2>3. \A n \in 0 .. hi - 1 : n \in S => n + 1 \in S
    BY <1>7
  <2> HIDE DEF S, hi
  <2>4. \A n \in 0 .. hi : n \in S
    BY <2>1, <2>2, <2>3, IntervalInduction
  <2>5. QED
    BY <2>4 DEF hi
<1>9. Started(start, Len(start), tree[Len(start)])
  BY <1>5, <1>8
<1>10. /\ GoodRoot(root) /\ held \in HeldOf(ItemsOf(root)) /\ Len(ItemsOf(root)) <= count
       /\ \A k \in Key : Hits(ItemsOf(root), Keyed(k)) <=
                            IF \E m \in 1 .. count : start[m].key = k THEN 1 ELSE 0
  BY <1>3, <1>9 DEF Started
<1>11. doubled = {}
  BY DEF BTInit
<1>12. ItemsOf(root) \in Seq(AnyItem) /\ count \in Nat
  BY <1>3, <1>5, <1>10 DEF GoodRoot
<1> DEFINE s == ItemsOf(root)
<1> HIDE DEF s
<1>13. KeysHeld(s, doubled)
  <2>1. ASSUME NEW k \in Key
        PROVE  Hits(s, Keyed(k)) <= 1
    <3>1. Hits(s, Keyed(k)) \in Int
      BY <1>12, HitsCats DEF s
    <3>2. Hits(s, Keyed(k)) <= IF \E m \in 1 .. count : start[m].key = k THEN 1 ELSE 0
      BY <1>10 DEF s
    <3>3. QED
      BY <3>1, <3>2
  <2>2. QED
    BY <1>11, <2>1 DEF KeysHeld
<1>14. Len(s) \in Nat
  BY <1>12 DEF s
<1>15. QED
  BY <1>1, <1>10, <1>11, <1>12, <1>13, <1>14 DEF TreeInv, s

-----------------------------------------------------------------------------
(* 24. The nodes at each depth *)

\* A key that is in two places is held twice.
LEMMA TwoPlaces ==
    ASSUME NEW s \in Seq(AnyItem), NEW k, NEW m \in 1 .. Len(s), NEW n \in 1 .. Len(s), m # n,
           s[m].key = k, s[n].key = k
    PROVE  Hits(s, Keyed(k)) >= 2
<1> DEFINE P == {i \in DOMAIN s : s[i] \in Keyed(k)}
<1>1. Len(s) \in Nat /\ DOMAIN s = 1 .. Len(s) /\ s[m] \in AnyItem /\ s[n] \in AnyItem
  BY ElementOfSeq
<1>2. m \in P /\ n \in P /\ P \subseteq 1 .. Len(s)
  BY <1>1 DEF Keyed
<1>3. IsFiniteSet(1 .. Len(s))
  BY <1>1, FS_Interval
<1>4. Hits(s, Keyed(k)) = Cardinality(P)
  BY DEF Hits
<1> HIDE DEF P
<1>5. IsFiniteSet(P)
  BY <1>2, <1>3, FS_Subset, Zenon
<1> DEFINE Q == P \ {m}
<1>6. Cardinality(Q) = Cardinality(P) - 1 /\ IsFiniteSet(Q)
  BY <1>2, <1>5, FS_RemoveElement
<1>7. Q # {}
  BY <1>2
<1> HIDE DEF Q
<1>8. Cardinality(Q) # 0 /\ Cardinality(Q) \in Nat /\ Cardinality(P) \in Nat
  BY <1>5, <1>6, <1>7, FS_EmptySet, FS_CardinalityType
<1>9. QED
  BY <1>4, <1>6, <1>8

\* The children of nodes.
KidsOf(S) == UNION {ToSet(node.kids) : node \in S}

\* The nodes of every level.
AnyNode == UNION {Tree[h] : h \in Nat}

\* The nodes of each depth below a node.
Depths(node) ==
    LET nodes[d \in 0 .. node.level] == IF d = 0 THEN {node} ELSE KidsOf(nodes[d - 1])
    IN  nodes

\* The children of nodes are nodes.
LEMMA KidsAreNodes == \A S \in SUBSET AnyNode : KidsOf(S) \in SUBSET AnyNode
<1>1. ASSUME NEW S \in SUBSET AnyNode, NEW node \in S
      PROVE  ToSet(node.kids) \subseteq AnyNode
  <2>1. PICK h \in Nat : node \in Tree[h]
    BY <1>1 DEF AnyNode
  <2>2. CASE h = 0
    <3>1. node.kids = <<>>
      BY <2>1, <2>2, TreeFields
    <3>2. QED
      BY <3>1, CatSets
  <2>3. CASE h # 0
    <3>1. /\ DOMAIN node.kids = 1 .. Len(node.kids)
          /\ \A n \in 1 .. Len(node.kids) : node.kids[n] \in Tree[h - 1]
      BY <2>1, <2>3, TreeFields
    <3>2. h - 1 \in Nat
      BY <2>3
    <3>3. ToSet(node.kids) \subseteq Tree[h - 1]
      BY <3>1 DEF ToSet
    <3>4. QED
      BY <3>2, <3>3 DEF AnyNode
  <2>4. QED
    BY <2>2, <2>3
<1>2. QED
  BY <1>1 DEF KidsOf

\* The nodes of a tree at each depth, unfolded once.
LEMMA DepthsAre ==
    ASSUME NEW node \in AnyNode, node.level \in Nat
    PROVE  Depths(node) = [d \in 0 .. node.level |->
                              IF d = 0 THEN {node} ELSE KidsOf(Depths(node)[d - 1])]
<1> DEFINE hi == node.level  T == SUBSET AnyNode  start == {node}
           Turn == [i \in 1 .. hi |-> [S \in T |-> KidsOf(S)]]
<1>1. start \in T /\ hi \in Nat
  OBVIOUS
<1>2. Turn \in Turns(hi, T)
  BY KidsAreNodes DEF Turns
<1>3. PICK g : Follows(g, hi, T, start, Turn)
  <2> HIDE DEF T, start, Turn
  <2>1. QED
    BY <1>1, <1>2, RecursionHasSolution
<1>4. /\ \A i \in 1 .. hi : g[i - 1] \in T
      /\ g = [i \in 0 .. hi |-> IF i = 0 THEN start ELSE Turn[i][g[i - 1]]]
  <2> HIDE DEF T, start, Turn
  <2>1. QED
    BY <1>1, <1>2, <1>3, FollowsSteps
<1>5. \A i \in 0 .. hi : i # 0 => i \in 1 .. hi /\ Turn[i][g[i - 1]] = KidsOf(g[i - 1])
  <2>1. \A i \in 0 .. hi : i # 0 => i \in 1 .. hi
    BY <1>1
  <2>2. QED
    BY <1>4, <2>1, Zenon
<1>6. g = [d \in 0 .. hi |-> IF d = 0 THEN start ELSE KidsOf(g[d - 1])]
  BY <1>4, <1>5, Zenon
<1>7. QED
  BY <1>6, Zenon DEF Depths

\* The nodes below the root of a tree have the level of their depth.
LEMMA DepthNodes ==
    ASSUME NEW node, GoodRoot(node)
    PROVE  \A d \in 0 .. node.level :
              Depths(node)[d] \subseteq IF d = 0 THEN {node} ELSE Filled(degree)[node.level - d]
<1> DEFINE l == node.level  D == Depths(node)
           S == {d \in 0 .. l : D[d] \subseteq IF d = 0 THEN {node} ELSE Filled(degree)[l - d]}
<1>1. l \in Nat /\ Loose(l, node) /\ node \in Tree[l] /\ node \in AnyNode
  BY LooseFields DEF GoodRoot, AnyNode
<1>2. D = [d \in 0 .. l |-> IF d = 0 THEN {node} ELSE KidsOf(D[d - 1])]
  BY <1>1, DepthsAre
<1> HIDE DEF D, l
<1>3. 0 \in S
  BY <1>1, <1>2
<1>4. ASSUME NEW d \in 0 .. l - 1, d \in S
      PROVE  d + 1 \in S
  <2> DEFINE h == l - d
  <2>1. d + 1 \in 0 .. l /\ d \in 0 .. l /\ d + 1 # 0 /\ (d + 1) - 1 = d
        /\ h \in Nat /\ h # 0 /\ h > 0 /\ l - (d + 1) = h - 1
    BY <1>1
  <2>2. D[d + 1] = KidsOf(D[d])
    BY <1>2, <2>1, Zenon
  <2>3. D[d] \subseteq IF d = 0 THEN {node} ELSE Filled(degree)[h]
    BY <1>4
  <2>4. ASSUME NEW n \in D[d]
        PROVE  Loose(h, n)
    <3>1. CASE d = 0
      BY <1>1, <2>3, <2>4, <3>1
    <3>2. CASE d # 0
      BY <2>1, <2>3, <2>4, <3>2, FilledNodes
    <3>3. QED
      BY <3>1, <3>2
  <2> HIDE DEF h
  <2>5. ASSUME NEW n \in D[d]
        PROVE  ToSet(n.kids) \subseteq Filled(degree)[h - 1]
    <3>1. n.kids \in Seq(Filled(degree)[h - 1])
      BY <2>1, <2>4, LooseFields
    <3>2. QED
      BY <3>1 DEF ToSet
  <2>6. D[d + 1] \subseteq Filled(degree)[h - 1]
    BY <2>2, <2>5 DEF KidsOf
  <2>7. QED
    BY <2>1, <2>6
<1>5. \A d \in 0 .. l : d \in S
  <2>1. 0 \in Int /\ l \in Int
    BY <1>1
  <2> HIDE DEF S
  <2>2. QED
    BY <1>3, <1>4, <2>1, IntervalInduction
<1>6. QED
  BY <1>5 DEF l, D

-----------------------------------------------------------------------------
(* 25. The properties *)

\* A node at a depth below the root is as a B-tree wants it.
LEMMA NodesAreGood ==
    ASSUME DegreeOK, NEW top, GoodRoot(top), NEW d \in 0 .. top.level, NEW node \in Depths(top)[d]
    PROVE  /\ node.level = top.level - d
           /\ Len(node.items) \in (IF d > 0 THEN degree - 1 ELSE 0) .. 2 * degree - 1
           /\ Len(node.kids) = IF IsLeaf(node) THEN 0 ELSE Len(node.items) + 1
<1> DEFINE l == top.level  h == l - d
<1>1. /\ l \in Nat /\ Loose(l, top) /\ Len(top.items) \in Nat
      /\ Len(top.items) <= 2 * degree - 1
  BY LooseFields DEF GoodRoot
<1>2. Depths(top)[d] \subseteq IF d = 0 THEN {top} ELSE Filled(degree)[h]
  BY DepthNodes
<1> HIDE DEF l
<1>3. h \in Nat
  BY <1>1 DEF l
<1> HIDE DEF h
<1>4. Loose(h, node) /\ Len(node.items) \in (IF d > 0 THEN degree - 1 ELSE 0) .. 2 * degree - 1
  <2>1. CASE d = 0
    <3>1. node = top /\ h = l
      BY <1>1, <1>2, <2>1 DEF h, l
    <3>2. QED
      BY <1>1, <2>1, <3>1 DEF DegreeOK
  <2>2. CASE d # 0
    <3>1. node \in Filled(degree)[h] /\ d > 0
      BY <1>1, <1>2, <2>2 DEF l
    <3>2. QED
      BY <1>3, <3>1, FilledNodes
  <2>3. QED
    BY <2>1, <2>2
<1>5. node.level = h /\ Len(node.kids) = IF h = 0 THEN 0 ELSE Len(node.items) + 1
  BY <1>3, <1>4, LooseFields
<1>6. QED
  BY <1>4, <1>5 DEF IsLeaf, h, l

\* In an ascending sequence two neighbours with one key are copies of a key
\* that was held twice.
LEMMA AscendingItems ==
    ASSUME NEW s \in Seq(AnyItem), Ordered(s), NEW twice, KeysHeld(s, twice), NEW n \in 1 .. Len(s) - 1
    PROVE  \/ s[n].key < s[n + 1].key
           \/ s[n].key = s[n + 1].key /\ s[n].key \in twice
<1> DEFINE m == n + 1  j == s[n].key  k == s[m].key
<1>1. /\ n \in 1 .. Len(s) /\ m \in 1 .. Len(s) /\ n < m /\ n # m /\ DOMAIN s = 1 .. Len(s)
      /\ s[n] \in AnyItem /\ s[m] \in AnyItem
  BY ElementOfSeq
<1> HIDE DEF m
<1>2. j <= k
  BY <1>1 DEF Ordered
<1>3. j \in Key /\ k \in Key /\ j \in Int /\ k \in Int
  BY <1>1, ItemsAreKeyed
<1>4. ASSUME j = k
      PROVE  j \in twice
  <2>1. s[n].key = j /\ s[m].key = j
    BY <1>4
  <2> HIDE DEF j, k
  <2>2. Hits(s, Keyed(j)) >= 2 /\ Hits(s, Keyed(j)) \in Int
    BY <1>1, <2>1, TwoPlaces, HitsCats
  <2>3. ~(Hits(s, Keyed(j)) <= 1)
    BY <2>2
  <2>4. QED
    BY <1>3, <2>3 DEF KeysHeld
<1>5. j < k \/ j = k
  BY <1>2, <1>3
<1>6. QED
  BY <1>4, <1>5 DEF m

\* The invariant makes the tree a B-tree.
LEMMA TreeInvIsBTree == TreeInv => IsBTree
<1> SUFFICES ASSUME TreeInv
             PROVE  IsBTree
  OBVIOUS
<1> DEFINE items == ItemsOf(root)
<1>1. /\ DegreeOK /\ GoodRoot(root) /\ items \in Seq(AnyItem) /\ Ordered(items)
      /\ KeysHeld(items, doubled)
  BY DEF TreeInv, GoodRoot
<1>2. Depths(root) = CHOOSE nodes : nodes = [d \in 0 .. root.level |->
          IF d = 0 THEN {root} ELSE UNION {ToSet(node.kids) : node \in nodes[d - 1]}]
  BY DEF Depths, KidsOf
<1>3. \A n \in 1 .. Len(items) - 1 :
          \/ items[n].key < items[n + 1].key
          \/ items[n].key = items[n + 1].key /\ items[n].key \in doubled
  BY <1>1, AscendingItems
<1>4. \A d \in 0 .. root.level : \A node \in Depths(root)[d] :
          /\ node.level = root.level - d
          /\ Len(node.items) \in (IF d > 0 THEN degree - 1 ELSE 0) .. 2 * degree - 1
          /\ Len(node.kids) = IF IsLeaf(node) THEN 0 ELSE Len(node.items) + 1
  BY <1>1, NodesAreGood
<1>5. ~IsLeaf(root) => root.items # <<>>
  <2>1. SUFFICES ASSUME ~IsLeaf(root), root.items = <<>>
                 PROVE  FALSE
    OBVIOUS
  <2>2. root.level > 0
    BY <1>1, <2>1 DEF GoodRoot, IsLeaf
  <2>3. Len(root.items) >= 1
    BY <1>1, <2>2 DEF GoodRoot
  <2>4. QED
    BY <2>1, <2>3
<1> HIDE DEF items
<1>6. QED
  BY <1>2, <1>3, <1>4, <1>5, Zenon DEF IsBTree, items

\* The invariant counts every reference once.
LEMMA TreeInvHeld == TreeInv => ItemsHeldOnce
<1> SUFFICES ASSUME TreeInv
             PROVE  ItemsHeldOnce
  OBVIOUS
<1> DEFINE items == ItemsOf(root)
<1>1. /\ items \in Seq(AnyItem) /\ held \in Holdings
      /\ \A item \in AnyItem : held[item] = Hits(items, {item})
  BY Zenon DEF TreeInv, GoodRoot, HeldOf
<1>2. \A item \in AnyItem : Hits(items, {item}) = Cardinality({n \in DOMAIN items : items[n] = item})
  <2>1. ASSUME NEW item
        PROVE  {n \in DOMAIN items : items[n] \in {item}} = {n \in DOMAIN items : items[n] = item}
    OBVIOUS
  <2>2. QED
    BY <2>1 DEF Hits
<1> HIDE DEF items
<1>3. held = [item \in AnyItem |-> Cardinality({n \in DOMAIN items : items[n] = item})]
  <2>1. held = [item \in AnyItem |-> held[item]]
    BY <1>1 DEF Holdings
  <2>2. QED
    BY <1>1, <1>2, <2>1, Zenon
<1>4. QED
  BY <1>3 DEF ItemsHeldOnce, items

\* The invariant makes the count cover the keys.
LEMMA TreeInvCounts == TreeInv => CountCovers
BY DEF TreeInv, CountCovers

\* Every step keeps the invariant.
LEMMA StepPreserves == TreeInv /\ [BTNext]_btVars => TreeInv'
<1> SUFFICES ASSUME TreeInv, [BTNext]_btVars
             PROVE  TreeInv'
  OBVIOUS
<1>1. CASE UNCHANGED btVars
  BY <1>1 DEF btVars, TreeInv, DegreeOK, GoodRoot, Loose, Shaped, ItemsOf
<1>2. CASE BTNext
  <2>1. PICK item \in Item : BtreeInsert(item) \/ BtreeRemove(item.key)
    BY <1>2 DEF BTNext
  <2>2. CASE BtreeInsert(item)
    BY <2>2, InsertPreserves
  <2>3. CASE BtreeRemove(item.key)
    <3>1. item.key \in Key
      BY ItemAssumption
    <3>2. QED
      BY <2>3, <3>1, RemovePreserves
  <2>4. QED
    BY <2>1, <2>2, <2>3
<1>3. QED
  BY <1>1, <1>2

\* The inductive invariant holds in every reachable state.
THEOREM TreeInvariance == BTSpec => []TreeInv
<1>1. QED
  BY InitEstablishes, StepPreserves, PTL DEF BTSpec

\* The tree is always a B-tree: filled nodes, leaves at one depth, keys in
\* order (object.cpp, 331-597).
THEOREM AlwaysBTree == BTSpec => []IsBTree
<1>1. QED
  BY TreeInvariance, TreeInvIsBTree, PTL

\* Every reference the map has taken is held by one item of the tree and no
\* reference is dropped twice, through every split, merge, loan and swap.
THEOREM ItemsAlwaysHeldOnce == BTSpec => []ItemsHeldOnce
<1>1. QED
  BY TreeInvariance, TreeInvHeld, PTL

\* The count is never below the number of keys that are held.
THEOREM CountAlwaysCovers == BTSpec => []CountCovers
<1>1. QED
  BY TreeInvariance, TreeInvCounts, PTL

-----------------------------------------------------------------------------
(* 26. The refinement of the map *)

\* What btree_get answers for a key.
Answer(node, k) == SearchNode[node.level][[node |-> node, key |-> k]]

\* v is an answer for key k: a value held under it, or Absent when there is
\* none.
Told(node, k, v) ==
    \/ v = Absent /\ Hits(ItemsOf(node), Keyed(k)) = 0
    \/ \E x \in ToSet(ItemsOf(node)) : x.key = k /\ v = x.value

\* What a search of the whole map answers.
LEMMA Answers ==
    ASSUME NEW node, GoodRoot(node), NEW k \in Key
    PROVE  Told(node, k, Answer(node, k))
<1> DEFINE h == node.level
<1>1. h \in Nat /\ Loose(h, node) /\ Ordered(ItemsOf(node)) /\ ItemsOf(node) = InOrder[h][node]
  BY DEF GoodRoot, ItemsOf
<1>2. Shaped(h, node)
  BY <1>1, LooseFields, Zenon
<1>3. Searches(h)
  BY <1>1, SearchFinds
<1> HIDE DEF h
<1>4. Finds(h, node, k)
  BY <1>1, <1>2, <1>3 DEF Searches
<1>5. QED
  BY <1>1, <1>4 DEF Finds, Told, Answer, h

\* A key that is held once has one item.
LEMMA OnlyOne ==
    ASSUME NEW s \in Seq(AnyItem), NEW k, Hits(s, Keyed(k)) <= 1, NEW x \in ToSet(s),
           NEW y \in ToSet(s), x.key = k, y.key = k
    PROVE  x = y
<1>1. PICK m \in 1 .. Len(s) : x = s[m]
  BY ElementOfSeq DEF ToSet
<1>2. PICK n \in 1 .. Len(s) : y = s[n]
  BY ElementOfSeq DEF ToSet
<1>3. Hits(s, Keyed(k)) \in Int
  BY HitsCats
<1>4. CASE m = n
  BY <1>1, <1>2, <1>4
<1>5. CASE m # n
  <2>1. Hits(s, Keyed(k)) >= 2
    BY <1>1, <1>2, <1>5, TwoPlaces
  <2>2. QED
    BY <1>3, <2>1
<1>6. QED
  BY <1>4, <1>5

\* A key is held when its number of items is not zero.
LEMMA SomeHit ==
    ASSUME NEW s \in Seq(AnyItem), NEW k
    PROVE  /\ (\E x \in ToSet(s) : x.key = k) <=> Hits(s, Keyed(k)) # 0
           /\ Hits(s, Keyed(k)) \in Int /\ Hits(s, Keyed(k)) >= 0
<1>1. ToSet(s) \subseteq AnyItem
  BY CatSets
<1>2. ToSet(s) \cap Keyed(k) = {} <=> ~\E x \in ToSet(s) : x.key = k
  BY <1>1 DEF Keyed
<1>3. QED
  BY <1>2, HitsCats

\* A key that is held once at most, in s and in t, is answered the same when what
\* t holds of it comes from s, and as much.
LEMMA SameAnswer ==
    ASSUME NEW a, NEW b, GoodRoot(a), GoodRoot(b), NEW k \in Key,
           Hits(ItemsOf(a), Keyed(k)) <= 1, Hits(ItemsOf(b), Keyed(k)) = Hits(ItemsOf(a), Keyed(k)),
           \A x \in ToSet(ItemsOf(b)) : x.key = k => x \in ToSet(ItemsOf(a))
    PROVE  Answer(a, k) = Answer(b, k)
<1> DEFINE s == ItemsOf(a)  t == ItemsOf(b)  v == Answer(a, k)  w == Answer(b, k)
<1>1. s \in Seq(AnyItem) /\ t \in Seq(AnyItem)
  BY DEF GoodRoot
<1>2. \/ v = Absent /\ Hits(s, Keyed(k)) = 0
      \/ \E x \in ToSet(s) : x.key = k /\ v = x.value
  BY Answers DEF Told
<1>3. \/ w = Absent /\ Hits(t, Keyed(k)) = 0
      \/ \E x \in ToSet(t) : x.key = k /\ w = x.value
  BY Answers DEF Told
<1>4. /\ Hits(s, Keyed(k)) <= 1 /\ Hits(t, Keyed(k)) = Hits(s, Keyed(k))
      /\ \A x \in ToSet(t) : x.key = k => x \in ToSet(s)
  OBVIOUS
<1> HIDE DEF s, t, v, w
<1>5. CASE Hits(s, Keyed(k)) = 0
  <2>1. v = Absent /\ w = Absent
    BY <1>1, <1>2, <1>3, <1>4, <1>5, SomeHit
  <2>2. QED
    BY <2>1 DEF v, w
<1>6. CASE Hits(s, Keyed(k)) # 0
  <2>1. PICK x \in ToSet(s) : x.key = k /\ v = x.value
    BY <1>2, <1>6
  <2>2. PICK y \in ToSet(t) : y.key = k /\ w = y.value
    BY <1>3, <1>4, <1>6
  <2>3. y \in ToSet(s)
    BY <1>4, <2>2
  <2>4. x = y
    BY <1>1, <1>4, <2>1, <2>2, <2>3, OnlyOne
  <2>5. QED
    BY <2>1, <2>2, <2>4 DEF v, w
<1>7. QED
  BY <1>5, <1>6 DEF v, w

\* An answer is Absent when the key is not held and a value when it is.
LEMMA AnswerType ==
    ASSUME NEW node, GoodRoot(node), NEW k \in Key
    PROVE  /\ Answer(node, k) \in Value \cup {Absent}
           /\ Hits(ItemsOf(node), Keyed(k)) = 0 => Answer(node, k) = Absent
           /\ Hits(ItemsOf(node), Keyed(k)) # 0 => Answer(node, k) \in Value
<1> DEFINE s == ItemsOf(node)  v == Answer(node, k)
<1>1. s \in Seq(AnyItem)
  BY DEF GoodRoot
<1>2. \/ v = Absent /\ Hits(s, Keyed(k)) = 0
      \/ \E x \in ToSet(s) : x.key = k /\ v = x.value
  BY Answers DEF Told
<1> HIDE DEF s, v
<1>3. ToSet(s) \subseteq AnyItem
  BY <1>1, CatSets
<1>4. \A x \in ToSet(s) : x.value \in Value
  BY <1>3, ItemsAreKeyed
<1>5. QED
  BY <1>1, <1>2, <1>4, SomeHit DEF s, v

-----------------------------------------------------------------------------

\* The contents before and after a step, spelled out.
LEMMA ContentsOf ==
    /\ Contents = [k \in Key |-> IF k \in doubled THEN Lost ELSE Answer(root, k)]
    /\ Contents' = [k \in Key |-> IF k \in doubled' THEN Lost ELSE Answer(root', k)]
BY DEF Contents, Answer

\* What a tree holds of a key is left alone, from the items s to the items t.
KeptOf(s, t, k) ==
    /\ Hits(t, Keyed(k)) = Hits(s, Keyed(k))
    /\ \A x \in ToSet(t) : x.key = k => x \in ToSet(s)

\* A key whose items a step leaves alone keeps its answer.
LEMMA ContentsKept ==
    ASSUME TreeInv, GoodRoot(root'), Remember(ItemsOf(root')), NEW k \in Key,
           KeptOf(ItemsOf(root), ItemsOf(root'), k)
    PROVE  Contents'[k] = Contents[k]
<1> DEFINE s == ItemsOf(root)  t == ItemsOf(root')
<1>1. s \in Seq(AnyItem) /\ t \in Seq(AnyItem) /\ GoodRoot(root) /\ KeysHeld(s, doubled)
  BY DEF GoodRoot, TreeInv
<1>2. k \in doubled' <=> Hits(t, Keyed(k)) > IF k \in doubled THEN 0 ELSE 1
  BY <1>1, Remembered
<1>3. /\ Hits(t, Keyed(k)) = Hits(s, Keyed(k)) /\ Hits(s, Keyed(k)) \in Int
      /\ \A x \in ToSet(t) : x.key = k => x \in ToSet(s)
  BY <1>1, SomeHit DEF KeptOf
<1>4. IF k \in doubled THEN Hits(s, Keyed(k)) >= 1 ELSE Hits(s, Keyed(k)) <= 1
  BY <1>1 DEF KeysHeld
<1>5. k \in doubled' <=> k \in doubled
  BY <1>2, <1>3, <1>4
<1>6. k \notin doubled => Answer(root, k) = Answer(root', k)
  BY <1>1, <1>3, <1>4, SameAnswer
<1>7. QED
  BY <1>5, <1>6, ContentsOf

\* What KeyedMap lets happen to a key.
Changed(k) ==
    \/ Contents'[k] = Contents[k]
    \/ Contents'[k] = Absent
    \/ Contents[k] # Lost /\ Contents'[k] \in Value
    \/ Contents[k] \in Value /\ Contents'[k] = Lost

\* A step that changes one key as the abstract map may is a step of the
\* abstract map.
LEMMA ChangeOfOne ==
    ASSUME NEW k \in Key, \A j \in Key : j # k => Contents'[j] = Contents[j], Changed(k)
    PROVE  [KM!Next]_Contents
<1> DEFINE c == Contents  d == Contents'
<1>1. /\ c = [j \in Key |-> c[j]] /\ d = [j \in Key |-> d[j]]
      /\ \A j \in Key : j # k => d[j] = c[j]
      /\ \/ d[k] = c[k]
         \/ d[k] = Absent
         \/ c[k] # Lost /\ d[k] \in Value
         \/ c[k] \in Value /\ d[k] = Lost
  <2>1. c = [j \in Key |-> c[j]] /\ d = [j \in Key |-> d[j]]
    BY ContentsOf
  <2>2. QED
    BY <2>1 DEF Changed
<1> HIDE DEF c, d
<1>2. CASE d[k] = c[k]
  <2>1. d = c
    BY <1>1, <1>2
  <2>2. QED
    BY <2>1 DEF c, d
<1>3. CASE d[k] # c[k]
  <2>1. d = [c EXCEPT ![k] = d[k]]
    BY <1>1
  <2>2. \/ d[k] = Absent
        \/ c[k] # Lost /\ d[k] \in Value
        \/ c[k] \in Value /\ d[k] = Lost
    BY <1>1, <1>3
  <2>3. KM!Change(k)
    BY <1>3, <2>1, <2>2 DEF KM!Change, c, d
  <2>4. QED
    BY <2>3 DEF KM!Next
<1>4. QED
  BY <1>2, <1>3

\* An insertion is a step of the abstract map.
LEMMA InsertChangesOne ==
    ASSUME TreeInv, NEW item \in Item, BtreeInsert(item)
    PROVE  [KM!Next]_Contents
<1> DEFINE s == ItemsOf(root)  t == ItemsOf(root')  k == item.key
<1>1. /\ InsertedInto(root, held, item, [node |-> root', held |-> held'])
      /\ Remember(t)
  BY InsertPreserves
<1>2. GoodRoot(root') /\ GoodRoot(root) /\ KeysHeld(s, doubled)
  BY <1>1 DEF InsertedInto, TreeInv
<1>3. PICK b \in {0, 1} : Changes(s, t, Counted(held, item, 1), held', {item}, k, b)
  BY <1>1 DEF InsertedInto
<1>4. item \in AnyItem /\ k \in Key
  BY ItemAssumption DEF AnyItem
<1>5. s \in Seq(AnyItem) /\ t \in Seq(AnyItem)
  BY <1>2 DEF GoodRoot
<1>6. /\ {item} \subseteq ToSet(t) /\ ToSet(t) \subseteq ToSet(s) \cup {item}
      /\ \A j \in Key : Hits(t, Keyed(j)) = Hits(s, Keyed(j)) + IF j = k THEN b ELSE 0
  BY <1>3 DEF Changes
<1>7. ASSUME NEW j \in Key, j # k
      PROVE  Contents'[j] = Contents[j]
  <2>1. Hits(t, Keyed(j)) = Hits(s, Keyed(j))
    BY <1>5, <1>6, <1>7, HitsCats, SMTT(20)
  <2>2. \A x \in ToSet(t) : x.key = j => x \in ToSet(s)
    BY <1>6, <1>7
  <2>3. KeptOf(s, t, j)
    BY <2>1, <2>2 DEF KeptOf
  <2>4. QED
    BY <1>1, <1>2, <2>3, ContentsKept
<1>8. Changed(k)
  <2> DEFINE p == Hits(s, Keyed(k))  q == Hits(t, Keyed(k))
  <2>1. p \in Int /\ q \in Int /\ q = p + b /\ p >= 0
    BY <1>4, <1>5, <1>6, SomeHit
  <2>2. q # 0
    <3>1. \E x \in ToSet(t) : x.key = k
      BY <1>6
    <3>2. QED
      BY <1>5, <3>1, SomeHit
  <2>3. k \in doubled' <=> q > IF k \in doubled THEN 0 ELSE 1
    BY <1>1, <1>4, <1>5, Remembered
  <2>4. IF k \in doubled THEN p >= 1 ELSE p <= 1
    BY <1>2, <1>4 DEF KeysHeld
  <2>5. /\ Answer(root, k) \in Value \cup {Absent} /\ (p # 0 => Answer(root, k) \in Value)
        /\ Answer(root', k) \in Value
    BY <1>2, <1>4, <2>2, AnswerType
  <2> HIDE DEF p, q, s, t, k
  <2>6. CASE k \in doubled
    <3>1. k \in doubled'
      BY <2>1, <2>2, <2>3, <2>4, <2>6
    <3>2. QED
      BY <1>4, <2>6, <3>1, ContentsOf DEF Changed
  <2>7. CASE k \notin doubled /\ k \notin doubled'
    <3>1. Contents[k] = Answer(root, k) /\ Contents'[k] = Answer(root', k)
      BY <1>4, <2>7, ContentsOf
    <3>2. QED
      BY <2>5, <3>1, AbsentAssumption DEF Changed
  <2>8. CASE k \notin doubled /\ k \in doubled'
    <3>1. Contents[k] = Answer(root, k) /\ Contents'[k] = Lost
      BY <1>4, <2>8, ContentsOf
    <3>2. p # 0
      BY <2>1, <2>3, <2>4, <2>8
    <3>3. QED
      BY <2>5, <3>1, <3>2 DEF Changed
  <2>9. QED
    BY <2>6, <2>7, <2>8
<1>9. QED
  BY <1>4, <1>7, <1>8, ChangeOfOne

\* A removal is a step of the abstract map.
LEMMA RemoveChangesOne ==
    ASSUME TreeInv, NEW k \in Key, BtreeRemove(k)
    PROVE  [KM!Next]_Contents
<1> DEFINE s == ItemsOf(root)  t == ItemsOf(root')
<1>1. /\ TreeInv' /\ degree' = degree /\ Remember(t)
      /\ \E found : Removal(s, t, held, held', k, found)
  BY RemovePreserves
<1>2. GoodRoot(root') /\ GoodRoot(root) /\ KeysHeld(s, doubled)
  <2>1. GoodRoot(root)'
    BY <1>1 DEF TreeInv
  <2>2. QED
    BY <1>1, <2>1 DEF TreeInv, GoodRoot, Loose, Shaped
<1>3. PICK found : Removal(s, t, held, held', k, found)
  BY <1>1
<1>5. s \in Seq(AnyItem) /\ t \in Seq(AnyItem)
  BY <1>2 DEF GoodRoot
<1>6. CASE t = s
  <2>1. \A j \in Key : KeptOf(s, t, j)
    BY <1>6 DEF KeptOf
  <2>2. \A j \in Key : Contents'[j] = Contents[j]
    BY <1>1, <1>2, <2>1, ContentsKept
  <2>3. Changed(k)
    BY <2>2 DEF Changed
  <2>4. QED
    BY <2>2, <2>3, ChangeOfOne
<1>7. CASE Changes(s, t, held, held', {}, k, -1)
  <2>1. /\ ToSet(t) \subseteq ToSet(s)
        /\ \A j \in Key : Hits(t, Keyed(j)) = Hits(s, Keyed(j)) + IF j = k THEN -1 ELSE 0
    BY <1>7 DEF Changes
  <2>2. ASSUME NEW j \in Key, j # k
        PROVE  Contents'[j] = Contents[j]
    <3>1. Hits(t, Keyed(j)) = Hits(s, Keyed(j))
      BY <1>5, <2>1, <2>2, HitsCats
    <3>2. KeptOf(s, t, j)
      BY <2>1, <3>1 DEF KeptOf
    <3>3. QED
      BY <1>1, <1>2, <3>2, ContentsKept
  <2>3. Changed(k)
    <3> DEFINE p == Hits(s, Keyed(k))  q == Hits(t, Keyed(k))
    <3>1. p \in Int /\ q \in Int /\ q = p - 1 /\ q >= 0
      BY <1>5, <2>1, SomeHit
    <3>2. k \in doubled' <=> q > IF k \in doubled THEN 0 ELSE 1
      BY <1>1, <1>5, Remembered
    <3>3. IF k \in doubled THEN p >= 1 ELSE p <= 1
      BY <1>2 DEF KeysHeld
    <3>4. q = 0 => Answer(root', k) = Absent
      BY <1>2, AnswerType
    <3> HIDE DEF p, q, s, t
    <3>5. CASE k \in doubled'
      <4>1. k \in doubled
        BY <3>1, <3>2, <3>3, <3>5
      <4>2. QED
        BY <3>5, <4>1, ContentsOf DEF Changed
    <3>6. CASE k \notin doubled'
      <4>1. q = 0
        BY <3>1, <3>2, <3>3, <3>6
      <4>2. QED
        BY <3>4, <3>6, <4>1, ContentsOf DEF Changed
    <3>7. QED
      BY <3>5, <3>6
  <2>4. QED
    BY <2>2, <2>3, ChangeOfOne
<1>8. QED
  BY <1>3, <1>6, <1>7 DEF Removal

\* Every step is a step of the abstract map or leaves it alone.
LEMMA StepImplementsMap == TreeInv /\ [BTNext]_btVars => [KM!Next]_Contents
<1> SUFFICES ASSUME TreeInv, [BTNext]_btVars
             PROVE  [KM!Next]_Contents
  OBVIOUS
<1>1. CASE UNCHANGED btVars
  <2>1. Contents' = Contents
    BY <1>1, ContentsOf DEF btVars
  <2>2. QED
    BY <2>1
<1>2. CASE BTNext
  <2>1. PICK item \in Item : BtreeInsert(item) \/ BtreeRemove(item.key)
    BY <1>2 DEF BTNext
  <2>2. item.key \in Key
    BY ItemAssumption
  <2>3. QED
    BY <2>1, <2>2, InsertChangesOne, RemoveChangesOne
<1>3. QED
  BY <1>1, <1>2

\* Every initial state is one of the abstract map.
LEMMA InitIsAMap == BTInit => KM!Init
<1> SUFFICES ASSUME BTInit
             PROVE  KM!Init
  OBVIOUS
<1>1. GoodRoot(root) /\ doubled = {}
  BY InitEstablishes, Zenon DEF TreeInv, BTInit
<1>2. Contents = [k \in Key |-> Answer(root, k)]
  BY <1>1, ContentsOf
<1>3. \A k \in Key : Answer(root, k) \in Value \cup {Absent}
  BY <1>1, AnswerType
<1>4. Contents \in [Key -> Value \cup {Absent}]
  BY <1>2, <1>3
<1>5. QED
  BY <1>4 DEF KM!Init

\* The tree implements a map from keys to values: what a search answers
\* changes for one key at a time, by the insertion or the removal of that key
\* alone.
THEOREM TreeImplementsKeyedMap == BTSpec => ImplementsKeyedMap
<1>1. QED
  BY InitIsAMap, StepImplementsMap, TreeInvariance, PTL
     DEF BTSpec, ImplementsKeyedMap, KM!Spec
=============================================================================
