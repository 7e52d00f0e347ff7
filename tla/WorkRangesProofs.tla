-------------------------- MODULE WorkRangesProofs --------------------------
(***************************************************************************)
(* Theorems about WorkRanges for every number of participants, block size  *)
(* and job size.  Each step of workOnJob is first reduced to the way it    *)
(* moves blocks (lemmas ClaimMoves to QuietMoves); that IInv is inductive  *)
(* then follows from sets alone, and the properties and the refinement of  *)
(* ParallelFor follow from IInv.  What comes first, on rounding, shares,   *)
(* blocks and the indices they stand for, is about numbers and sets only.  *)
(***************************************************************************)
EXTENDS WorkRanges, FiniteSetTheorems, TLAPS

(* Integer arithmetic *)

\* Flooring division: the quotient times the divisor is at most the dividend,
\* and less than one divisor below it.
LEMMA DivFacts ==
    ASSUME NEW a \in Int, NEW d \in Nat \ {0}
    PROVE  /\ a \div d \in Int
           /\ d * (a \div d) <= a
           /\ a < d * (a \div d) + d
  OBVIOUS

\* A quotient is at most q exactly when the dividend is below d * (q + 1).
LEMMA DivAtMost ==
    ASSUME NEW a \in Int, NEW d \in Nat \ {0}, NEW q \in Int
    PROVE  a \div d <= q <=> a < d * (q + 1)
  OBVIOUS

\* A quotient is at least q exactly when the dividend is at least d * q.
LEMMA DivAtLeast ==
    ASSUME NEW a \in Int, NEW d \in Nat \ {0}, NEW q \in Int
    PROVE  q <= a \div d <=> d * q <= a
  OBVIOUS

\* Multiplying by d keeps integers that differ at least d apart.
LEMMA TimesStep ==
    ASSUME NEW a \in Int, NEW b \in Int, NEW d \in Nat, a < b
    PROVE  d * a + d <= d * b
<1>1. PICK c \in Nat : b = a + 1 + c
  <2>1. b = a + 1 + (b - a - 1) /\ b - a - 1 \in Nat
    OBVIOUS
  <2> QED
    BY <2>1
<1>2. d * b = d * a + d + d * c
  BY <1>1
<1>3. d * c \in Nat
  BY <1>1
<1> QED
  BY <1>2, <1>3

\* Rounding up in dispatchJob: the blocks of a job cover its indices, and one
\* block fewer would not.
LEMMA BlockCountFacts ==
    ASSUME NEW n \in Nat \ {0}
    PROVE  /\ BlockCount(n) \in Nat \ {0}
           /\ n <= BlockSize * BlockCount(n)
           /\ BlockSize * (BlockCount(n) - 1) < n
<1> DEFINE q == BlockCount(n)
<1>1. /\ q \in Int
      /\ BlockSize * q <= n + BlockSize - 1
      /\ n + BlockSize - 1 < BlockSize * q + BlockSize
  BY DivFacts, BlockSizeAssumption DEF BlockCount
<1>2. BlockSize * q + BlockSize = BlockSize * (q + 1)
  BY <1>1, BlockSizeAssumption
<1>3. 1 <= q
  BY DivAtLeast, BlockSizeAssumption DEF BlockCount
<1>4. BlockSize * (q - 1) = BlockSize * q - BlockSize
  BY <1>1, BlockSizeAssumption
<1> QED
  BY <1>1, <1>3, <1>4, BlockSizeAssumption

\* The shares armJob deals out are ranges of existing blocks, those of different
\* participants do not overlap, and together they hold every block.
LEMMA InitialRangeFacts ==
    ASSUME NEW n \in Nat \ {0}
    PROVE  /\ \A w \in Participants :
                /\ InitialRange(n, w) \in WorkerRange
                /\ InitialRange(n, w).e <= BlockCount(n)
           /\ \A w, v \in Participants :
                w < v => InitialRange(n, w).e <= InitialRange(n, v).b
           /\ \A x \in 0 .. BlockCount(n) - 1 : \E w \in Participants :
                x \in Members(InitialRange(n, w))
<1> DEFINE N == BlockCount(n)
<1>0. N \in Nat \ {0}
  BY BlockCountFacts
<1> HIDE DEF N
<1> DEFINE C(w) == (N * w) \div P
<1>1. \A w \in Nat : C(w) \in Nat /\ N * w \in Nat
  <2> TAKE w \in Nat
  <2>1. N * w \in Nat
    BY <1>0
  <2> QED
    BY <2>1, DivFacts, DivAtLeast, PAssumption
<1>2. \A w, v \in Nat : w <= v => C(w) <= C(v)
  <2> SUFFICES ASSUME NEW w \in Nat, NEW v \in Nat, w <= v PROVE C(w) <= C(v)
    OBVIOUS
  <2>1. N * w <= N * v
    <3>1. CASE w = v
      BY <3>1, <1>1
    <3>2. CASE w < v
      BY <3>2, <1>0, <1>1, TimesStep
    <3> QED
      BY <3>1, <3>2
  <2>2. P * C(w) <= N * w /\ C(w) \in Int /\ N * w \in Int /\ N * v \in Int
    <3>1. \A a \in Int : P * (a \div P) <= a
      BY DivFacts, PAssumption
    <3> QED
      BY <1>1, <3>1
  <2>3. P * C(w) <= N * v
    BY <2>1, <2>2, PAssumption
  <2> QED
    BY <2>2, <2>3, DivAtLeast, PAssumption
<1>3. C(P) = N
  <2>1. N * P = P * N
    BY <1>0, PAssumption
  <2>2. N <= C(P)
    BY <2>1, <1>0, DivAtLeast, PAssumption
  <2>3. P * N < P * (N + 1)
    BY <1>0, PAssumption
  <2>4. C(P) <= N
    BY <2>1, <2>3, <1>0, DivAtMost, PAssumption
  <2> QED
    BY <2>2, <2>4, <1>0, <1>1, PAssumption
<1>4. \A w \in Participants : InitialRange(n, w) = [b |-> C(w), e |-> C(w + 1)]
  BY DEF InitialRange, N
<1>5. \A w \in Participants : w \in Nat /\ w + 1 \in Nat /\ w + 1 <= P
  BY PAssumption DEF Participants
<1>6. ASSUME NEW x \in 0 .. N - 1
      PROVE  \E w \in Participants : C(w) <= x /\ x < C(w + 1)
  <2> DEFINE w == (P * (x + 1) - 1) \div N
  <2>1. P * (x + 1) \in Nat /\ P * (x + 1) >= 1
    BY <1>0, PAssumption
  <2>2. w \in Int /\ 0 <= w
    BY <2>1, <1>0, DivFacts, DivAtLeast
  <2>3. N * w <= P * (x + 1) - 1
    BY <2>1, <1>0, DivFacts
  <2>4. P * (x + 1) - 1 < N * (w + 1)
    <3>1. \A a \in Int : a < N * (a \div N) + N
      BY <1>0, DivFacts
    <3>2. P * (x + 1) - 1 < N * w + N
      BY <3>1, <2>1
    <3> HIDE DEF w
    <3> QED
      BY <3>2, <2>2, <1>0
  <2>5. w <= P - 1
    <3>1. P * (x + 1) <= P * N
      <4>1. CASE x + 1 = N
        BY <4>1, <1>0, PAssumption
      <4>2. CASE x + 1 < N
        BY <4>2, <1>0, PAssumption, TimesStep
      <4> QED
        BY <4>1, <4>2, <1>0
    <3>2. P * N = N * (P - 1 + 1)
      BY <1>0, PAssumption
    <3>3. P * (x + 1) - 1 < N * (P - 1 + 1)
      BY <3>1, <3>2, <2>1, <1>0, PAssumption
    <3> QED
      BY <3>3, <2>1, <1>0, DivAtMost, PAssumption
  <2>6. w \in Participants
    BY <2>2, <2>5, PAssumption DEF Participants
  <2> HIDE DEF w
  <2>7. C(w) <= x
    BY <2>2, <2>3, <2>1, <1>0, <1>1, DivAtMost, PAssumption
  <2>8. x + 1 <= C(w + 1)
    <3>1. P * (x + 1) <= N * (w + 1)
      BY <2>1, <2>2, <2>4, <1>0
    <3>2. N * (w + 1) \in Int
      BY <2>2, <1>0
    <3> QED
      BY <3>1, <3>2, DivAtLeast, PAssumption
  <2>9. C(w + 1) \in Int
    BY <2>2, <1>1
  <2> QED
    BY <2>6, <2>7, <2>8, <2>9
<1> HIDE DEF C
<1>7. ASSUME NEW w \in Participants
      PROVE  InitialRange(n, w) \in WorkerRange /\ InitialRange(n, w).e <= N
  BY <1>0, <1>1, <1>2, <1>3, <1>4, <1>5, PAssumption DEF WorkerRange
<1>8. ASSUME NEW w \in Participants, NEW v \in Participants, w < v
      PROVE  InitialRange(n, w).e <= InitialRange(n, v).b
  BY <1>8, <1>2, <1>4, <1>5
<1>9. ASSUME NEW x \in 0 .. N - 1
      PROVE  \E w \in Participants : x \in Members(InitialRange(n, w))
  <2>1. PICK w \in Participants : C(w) <= x /\ x < C(w + 1)
    BY <1>6
  <2>2. x \in Members(InitialRange(n, w))
    BY <2>1, <1>0, <1>1, <1>4, <1>5 DEF Members
  <2> QED
    BY <2>2
<1> QED
  BY <1>7, <1>8, <1>9 DEF N

(* Blocks and indices *)

\* The indices of a set of blocks.
IndexSet(S) == UNION {Indices(x) : x \in S}

\* A block stands for at least one and at most BlockSize indices of the job,
\* and Span counts them: the last block is shorter, never empty.
LEMMA IndicesFacts ==
    ASSUME total \in Nat \ {0}, NEW x \in Blocks
    PROVE  /\ First(x) \in Nat /\ Last(x) \in Nat
           /\ First(x) < Last(x) /\ Last(x) <= total
           /\ Last(x) <= First(x) + BlockSize
           /\ Span(x) \in Nat \ {0}
           /\ Indices(x) \subseteq 0 .. total - 1
           /\ Indices(x) # {}
           /\ IsFiniteSet(Indices(x))
           /\ Cardinality(Indices(x)) = Span(x)
<1>1. x \in Nat /\ x <= BlockCount(total) - 1 /\ BlockCount(total) \in Nat \ {0}
  BY BlockCountFacts DEF Blocks
<1>2. First(x) \in Nat
  BY <1>1, BlockSizeAssumption DEF First
<1>3. First(x) < total
  <2>1. BlockSize * x <= BlockSize * (BlockCount(total) - 1)
    <3>1. CASE x = BlockCount(total) - 1
      BY <3>1, <1>1, BlockSizeAssumption
    <3>2. CASE x < BlockCount(total) - 1
      BY <3>2, <1>1, TimesStep, BlockSizeAssumption
    <3> QED
      BY <3>1, <3>2, <1>1
  <2>2. BlockSize * (BlockCount(total) - 1) < total
    BY BlockCountFacts
  <2>3. BlockSize * x = First(x)
    BY <1>1, BlockSizeAssumption DEF First
  <2>4. BlockSize * (BlockCount(total) - 1) \in Int
    BY <1>1, BlockSizeAssumption
  <2> QED
    BY <2>1, <2>2, <2>3, <2>4, <1>2
<1>4. /\ Last(x) \in Nat /\ First(x) < Last(x) /\ Last(x) <= total
      /\ Last(x) <= First(x) + BlockSize
  BY <1>2, <1>3, BlockSizeAssumption DEF Last, Lesser
<1>5. Span(x) \in Nat \ {0}
  BY <1>2, <1>4 DEF Span
<1>6. Indices(x) \subseteq 0 .. total - 1 /\ First(x) \in Indices(x)
  BY <1>2, <1>4 DEF Indices
<1>7. IsFiniteSet(Indices(x)) /\ Cardinality(Indices(x)) = Span(x)
  <2>1. \A a, b \in Int : a <= b => /\ IsFiniteSet(a .. b)
                                    /\ Cardinality(a .. b) = b - a + 1
    BY FS_Interval
  <2>2. First(x) \in Int /\ Last(x) - 1 \in Int /\ First(x) <= Last(x) - 1
    BY <1>2, <1>4
  <2>3. Last(x) - 1 - First(x) + 1 = Span(x)
    BY <1>2, <1>4 DEF Span
  <2> QED
    BY <2>1, <2>2, <2>3 DEF Indices
<1> QED
  BY <1>2, <1>4, <1>5, <1>6, <1>7

\* No index belongs to two blocks.
LEMMA IndicesDisjoint ==
    ASSUME total \in Nat \ {0}, NEW x \in Blocks, NEW y \in Blocks, x # y
    PROVE  Indices(x) \cap Indices(y) = {}
<1>1. x \in Nat /\ y \in Nat
  BY DEF Blocks
<1>2. ASSUME NEW a \in Blocks, NEW c \in Blocks, a < c
      PROVE  Last(a) <= First(c)
  <2>1. a \in Nat /\ c \in Nat
    BY DEF Blocks
  <2>2. BlockSize * a + BlockSize <= BlockSize * c
    BY <2>1, <1>2, TimesStep, BlockSizeAssumption
  <2>3. First(a) = BlockSize * a /\ First(c) = BlockSize * c
    BY <2>1, BlockSizeAssumption DEF First
  <2> QED
    BY <2>2, <2>3, IndicesFacts, BlockSizeAssumption
<1>3. CASE x < y
  BY <1>2, <1>3, IndicesFacts DEF Indices
<1>4. CASE y < x
  BY <1>2, <1>4, IndicesFacts DEF Indices
<1> QED
  BY <1>1, <1>3, <1>4

\* Every index of the job belongs to a block.
LEMMA IndicesCover ==
    ASSUME total \in Nat \ {0}
    PROVE  IndexSet(Blocks) = 0 .. total - 1
<1>1. IndexSet(Blocks) \subseteq 0 .. total - 1
  BY IndicesFacts DEF IndexSet
<1>2. ASSUME NEW i \in 0 .. total - 1
      PROVE  i \in IndexSet(Blocks)
  <2> DEFINE x == i \div BlockSize
  <2>1. x \in Int /\ 0 <= x
    BY DivFacts, DivAtLeast, BlockSizeAssumption
  <2>2. BlockSize * x <= i /\ i < BlockSize * x + BlockSize
    BY DivFacts, BlockSizeAssumption
  <2>3. BlockCount(total) \in Nat \ {0} /\ total <= BlockSize * BlockCount(total)
    BY BlockCountFacts
  <2>4. x <= BlockCount(total) - 1
    <3>1. i < BlockSize * (BlockCount(total) - 1 + 1)
      BY <2>3, BlockSizeAssumption
    <3> QED
      BY <3>1, <2>3, DivAtMost, BlockSizeAssumption
  <2>5. x \in Blocks
    BY <2>1, <2>3, <2>4 DEF Blocks
  <2> HIDE DEF x
  <2>6. First(x) = BlockSize * x
    BY <2>1, BlockSizeAssumption DEF First
  <2>7. i \in Indices(x)
    BY <2>1, <2>2, <2>6, BlockSizeAssumption DEF Indices, Last, Lesser
  <2> QED
    BY <2>5, <2>7 DEF IndexSet
<1> QED
  BY <1>1, <1>2

\* A set of blocks has finitely many indices, no more than the job has, and
\* none only if it is empty.
LEMMA IndexSetFacts ==
    ASSUME total \in Nat \ {0}, NEW S \in SUBSET Blocks
    PROVE  /\ IsFiniteSet(IndexSet(S))
           /\ Cardinality(IndexSet(S)) \in 0 .. total
           /\ Cardinality(IndexSet(S)) = 0 => S = {}
<1>1. IndexSet(S) \in SUBSET (0 .. total - 1)
  BY IndicesFacts DEF IndexSet
<1>2. IsFiniteSet(0 .. total - 1) /\ Cardinality(0 .. total - 1) = total
  BY FS_Interval
<1>3. IsFiniteSet(IndexSet(S)) /\ Cardinality(IndexSet(S)) <= total
  BY <1>1, <1>2, FS_Subset
<1>4. Cardinality(IndexSet(S)) \in Nat
  BY <1>3, FS_CardinalityType
<1>5. ASSUME Cardinality(IndexSet(S)) = 0, S # {}
      PROVE  FALSE
  <2>1. IndexSet(S) = {}
    BY <1>3, <1>5, FS_EmptySet
  <2>2. PICK x \in S : TRUE
    BY <1>5
  <2> QED
    BY <2>1, <2>2, IndicesFacts DEF IndexSet
<1> QED
  BY <1>3, <1>4, <1>5

\* Taking one block away takes away exactly the indices that the fetch_sub of
\* workOnJob subtracts from remaining.
LEMMA RemoveBlock ==
    ASSUME total \in Nat \ {0}, NEW S \in SUBSET Blocks, NEW x \in S
    PROVE  Cardinality(IndexSet(S \ {x})) = Cardinality(IndexSet(S)) - Span(x)
<1> DEFINE T == IndexSet(S \ {x})
<1>1. IndexSet(S) = T \cup Indices(x)
  BY DEF IndexSet
<1>2. T \cap Indices(x) = {}
  BY IndicesDisjoint DEF IndexSet
<1>3. IsFiniteSet(T) /\ Cardinality(T) \in Nat
  BY IndexSetFacts
<1>4. IsFiniteSet(Indices(x)) /\ Cardinality(Indices(x)) = Span(x) /\ Span(x) \in Nat
  BY IndicesFacts
<1>5. Cardinality(T \cap Indices(x)) = 0
  BY <1>2, FS_EmptySet
<1> HIDE DEF T
<1>6. Cardinality(IndexSet(S)) = Cardinality(T) + Span(x) - 0
  BY <1>1, <1>3, <1>4, <1>5, FS_Union
<1> QED
  BY <1>3, <1>4, <1>6 DEF T


(* The inductive invariant *)

\* TypeOK without the bounds of the two counters, which follow from the rest.
BaseTypes ==
    /\ packed \in [Participants -> WorkerRange]
    /\ total \in 1 .. MaxTotal
    /\ remaining \in Int
    /\ inFlight \in Int
    /\ failed \in BOOLEAN
    /\ participantCount = P
    /\ ran \subseteq Blocks
    /\ pc \in [Participants -> Labels]
    /\ reg \in [Participants -> WorkerRange]
    /\ k \in [Participants -> 0 .. P]
    /\ victim \in [Participants -> Participants]
    /\ blk \in [Participants -> Blocks \cup {None}]

\* What a participant's place in workOnJob says of its registers and its range:
\* it tries an exchange only on a range worth taking; it is a thief or leaves a
\* healthy job only with an empty range; it retires a block it ran, unless the
\* job has failed.
Shape(p) ==
    /\ pc[p] = "claimCas" => ~IsEmpty(reg[p])
    /\ pc[p] = "stealCas" => CanSteal(reg[p]) /\ k[p] < P
    /\ blk[p] # None <=> pc[p] \in {"run", "retire"}
    /\ pc[p] \in {"steal", "stealCas", "store"} => IsEmpty(packed[p])
    /\ (pc[p] \in {"leave", "out"} /\ ~failed) => IsEmpty(packed[p])
    /\ Slot(p) \cup Carried(p) \subseteq Blocks
    /\ (pc[p] = "retire" /\ ~failed) => blk[p] \in ran

\* Every participant is in shape.
Shapes == \A p \in Participants : Shape(p)

\* As long as nothing failed, every block has run or somebody answers for it.
Covered == ~failed => Blocks \subseteq ran \cup Unretired

\* The inductive invariant of workOnJob.
IInv ==
    /\ BaseTypes
    /\ Shapes
    /\ NoBlockTwice
    /\ Covered
    /\ RemainingIsExact
    /\ InFlightCoversWork
    /\ OwnerKeepsLastBlock

\* The P participants are the numbers below P.
LEMMA ParticipantFacts ==
    /\ 0 \in Participants
    /\ \A p \in Participants : p \in Nat /\ p < P
    /\ IsFiniteSet(Participants)
    /\ Cardinality(Participants) = P
<1>1. 0 \in Participants /\ \A p \in Participants : p \in Nat /\ p < P
  BY PAssumption DEF Participants
<1>2. IsFiniteSet(Participants) /\ Cardinality(Participants) = P
  <2>1. \A a, b \in Int : a <= b => /\ IsFiniteSet(a .. b)
                                    /\ Cardinality(a .. b) = b - a + 1
    BY FS_Interval
  <2>2. 0 \in Int /\ P - 1 \in Int /\ 0 <= P - 1 /\ P - 1 - 0 + 1 = P
    BY PAssumption
  <2> QED
    BY <2>1, <2>2 DEF Participants
<1> QED
  BY <1>1, <1>2

\* The victim index of workOnJob is a participant.
LEMMA RemainderFacts ==
    ASSUME NEW a \in Int
    PROVE  a % P \in Participants
<1>1. a % P \in 0 .. P - 1
  BY PAssumption
<1> QED
  BY <1>1 DEF Participants

\* What claimOwnBlock remembers of its range is well typed.
LEMMA DecideClaimTypes ==
    ASSUME BaseTypes, NEW p \in Participants, NEW r \in WorkerRange, DecideClaim(p, r)
    PROVE  /\ reg' \in [Participants -> WorkerRange]
           /\ k' \in [Participants -> 0 .. P]
           /\ pc' \in [Participants -> Labels]
<1>1. /\ reg \in [Participants -> WorkerRange]
      /\ k \in [Participants -> 0 .. P]
      /\ pc \in [Participants -> Labels]
  BY DEF BaseTypes
<1>2. Empty \in WorkerRange /\ 1 \in 0 .. P /\ "steal" \in Labels /\ "claimCas" \in Labels
  BY PAssumption DEF Empty, WorkerRange, Labels
<1> QED
  BY <1>1, <1>2 DEF DecideClaim, Goto

\* What stealHalf remembers of a victim's range is well typed.
LEMMA DecideStealTypes ==
    ASSUME BaseTypes, NEW p \in Participants, NEW v \in Participants, NEW r \in WorkerRange,
           k[p] < P, DecideSteal(p, v, r)
    PROVE  /\ reg' \in [Participants -> WorkerRange]
           /\ k' \in [Participants -> 0 .. P]
           /\ victim' \in [Participants -> Participants]
           /\ pc' \in [Participants -> Labels]
<1>1. /\ reg \in [Participants -> WorkerRange]
      /\ k \in [Participants -> 0 .. P]
      /\ pc \in [Participants -> Labels]
      /\ victim \in [Participants -> Participants]
  BY DEF BaseTypes
<1>2. k[p] \in 0 .. P
  BY <1>1
<1>3. k[p] + 1 \in 0 .. P
  BY <1>2, PAssumption
<1>4. Empty \in WorkerRange /\ "steal" \in Labels /\ "stealCas" \in Labels /\ 0 \in Participants
  BY ParticipantFacts DEF Empty, WorkerRange, Labels
<1> QED
  BY <1>1, <1>3, <1>4 DEF DecideSteal, Goto
\* No step of workOnJob changes the shape of the job itself.
LEMMA WorkKeepsJob ==
    ASSUME NEW p \in Participants, Work(p)
    PROVE  total' = total /\ participantCount' = participantCount /\ Blocks' = Blocks
<1>1. total' = total /\ participantCount' = participantCount
  BY DEF Work, Enter, CheckFailed, LoadOwn, ClaimCasWins, ClaimCasLoses, KernelDone,
         KernelFail, KernelAbort, Retire, LoadVictim, NothingToSteal, StealCasWins,
         StealCasLoses, StoreStolen, Leave, jobVars
<1> QED
  BY <1>1 DEF Blocks, BlockCount

\* stealHalf splits a range of two blocks or more into two ranges that share no
\* block and lose none, and leaves the victim at least one.
LEMMA HalvesTypes ==
    ASSUME NEW r \in WorkerRange, CanSteal(r)
    PROVE  /\ LowerHalf(r) \in WorkerRange /\ UpperHalf(r) \in WorkerRange
           /\ Members(LowerHalf(r)) \cup Members(UpperHalf(r)) = Members(r)
           /\ Members(LowerHalf(r)) \cap Members(UpperHalf(r)) = {}
           /\ ~IsEmpty(LowerHalf(r))
<1>1. r.b \in Nat /\ r.e \in Nat /\ r.e - r.b >= 2
  BY DEF WorkerRange, CanSteal
<1>2. Mid(r) \in Nat /\ r.b < Mid(r) /\ Mid(r) < r.e
  BY <1>1 DEF Mid
<1>3. LowerHalf(r) = [b |-> r.b, e |-> Mid(r)] /\ UpperHalf(r) = [b |-> Mid(r), e |-> r.e]
  BY DEF LowerHalf, UpperHalf
<1>4. /\ LowerHalf(r).b = r.b /\ LowerHalf(r).e = Mid(r)
      /\ UpperHalf(r).b = Mid(r) /\ UpperHalf(r).e = r.e
  BY <1>3
<1> QED
  BY <1>1, <1>2, <1>3, <1>4 DEF Members, IsEmpty, WorkerRange

\* claimOwnBlock takes exactly the first block out of a range.
LEMMA WithoutFirstTypes ==
    ASSUME NEW r \in WorkerRange, ~IsEmpty(r)
    PROVE  /\ WithoutFirst(r) \in WorkerRange
           /\ r.b \in Members(r)
           /\ Members(WithoutFirst(r)) = Members(r) \ {r.b}
<1>1. r.b \in Nat /\ r.e \in Nat /\ r.b < r.e
  BY DEF WorkerRange, IsEmpty
<1>2. WithoutFirst(r) \in WorkerRange /\ WithoutFirst(r).b = r.b + 1 /\ WithoutFirst(r).e = r.e
  BY <1>1 DEF WithoutFirst, WorkerRange
<1> QED
  BY <1>1, <1>2 DEF Members

\* A range is empty exactly when it has no blocks.
LEMMA EmptyTypes ==
    /\ Empty \in WorkerRange
    /\ \A r \in WorkerRange : IsEmpty(r) <=> Members(r) = {}
<1>1. Empty \in WorkerRange
  BY DEF Empty, WorkerRange
<1>2. ASSUME NEW r \in WorkerRange PROVE IsEmpty(r) <=> Members(r) = {}
  <2>1. r.b \in Nat /\ r.e \in Nat
    BY DEF WorkerRange
  <2> QED
    BY <2>1 DEF IsEmpty, Members
<1> QED
  BY <1>1, <1>2

\* Every step keeps the types.
LEMMA TypesKept ==
    ASSUME BaseTypes, Shapes, NEW p \in Participants, Work(p)
    PROVE  BaseTypes'
<1> SUFFICES /\ packed' \in [Participants -> WorkerRange]
             /\ remaining' \in Int
             /\ inFlight' \in Int
             /\ failed' \in BOOLEAN
             /\ ran' \subseteq Blocks
             /\ pc' \in [Participants -> Labels]
             /\ reg' \in [Participants -> WorkerRange]
             /\ k' \in [Participants -> 0 .. P]
             /\ victim' \in [Participants -> Participants]
             /\ blk' \in [Participants -> Blocks \cup {None}]
  BY WorkKeepsJob DEF BaseTypes
<1> USE DEF BaseTypes
<1>1. Labels = {"ready", "top", "claim", "claimCas", "run", "retire", "steal",
                "stealCas", "store", "leave", "out"}
  BY DEF Labels
<1>2. packed[p] \in WorkerRange /\ reg[p] \in WorkerRange /\ victim[p] \in Participants
  OBVIOUS
<1>3. 0 \in 0 .. P /\ 0 \in Participants
  BY ParticipantFacts, PAssumption
<1>4. CASE Enter(p)
  BY <1>1, <1>4 DEF Enter, Goto
<1>5. CASE CheckFailed(p)
  BY <1>1, <1>5 DEF CheckFailed, Goto, jobVars
<1>6. CASE LoadOwn(p)
  BY <1>2, <1>6, DecideClaimTypes DEF LoadOwn, jobVars
<1>7. CASE ClaimCasWins(p)
  <2>1. ~IsEmpty(reg[p]) /\ Slot(p) \subseteq Blocks /\ packed[p] = reg[p]
    BY <1>7 DEF ClaimCasWins, Shapes, Shape
  <2>2. WithoutFirst(reg[p]) \in WorkerRange /\ reg[p].b \in Blocks
    BY <1>2, <2>1, WithoutFirstTypes DEF Slot
  <2> QED
    BY <1>1, <1>7, <2>2, EmptyTypes DEF ClaimCasWins, Goto
<1>8. CASE ClaimCasLoses(p)
  BY <1>2, <1>8, DecideClaimTypes DEF ClaimCasLoses, jobVars
<1>9. CASE KernelDone(p)
  <2>1. blk[p] \in Blocks
    BY <1>9 DEF KernelDone, Shapes, Shape
  <2> QED
    BY <1>1, <1>9, <2>1 DEF KernelDone, Goto, jobVars
<1>10. CASE KernelFail(p)
  BY <1>1, <1>10 DEF KernelFail, Goto
<1>11. CASE KernelAbort(p)
  BY <1>1, <1>11 DEF KernelAbort, Goto, jobVars
<1>12. CASE Retire(p)
  <2>1. blk[p] \in Blocks /\ total \in Nat \ {0}
    BY <1>12, MaxTotalAssumption DEF Retire, Shapes, Shape
  <2>2. Span(blk[p]) \in Int
    BY <2>1, IndicesFacts
  <2> QED
    BY <1>1, <1>12, <2>2 DEF Retire, Goto
<1>13. CASE LoadVictim(p)
  <2>1. PICK v \in Participants : DecideSteal(p, v, packed[v])
    <3>1. p + k[p] \in Int /\ participantCount = P
      BY ParticipantFacts
    <3>2. (p + k[p]) % participantCount \in Participants
      BY <3>1, RemainderFacts
    <3> QED
      BY <3>2, <1>13 DEF LoadVictim
  <2>2. k[p] < P /\ packed[v] \in WorkerRange
    BY <1>13 DEF LoadVictim
  <2> QED
    BY <1>13, <2>1, <2>2, DecideStealTypes DEF LoadVictim, jobVars
<1>14. CASE NothingToSteal(p)
  BY <1>1, <1>3, <1>14 DEF NothingToSteal, jobVars, Goto
<1>15. CASE StealCasWins(p)
  <2>1. LowerHalf(reg[p]) \in WorkerRange /\ UpperHalf(reg[p]) \in WorkerRange
    BY <1>2, <1>15, HalvesTypes DEF StealCasWins, Shapes, Shape
  <2> QED
    BY <1>1, <1>3, <1>15, <2>1 DEF StealCasWins, Goto
<1>16. CASE StealCasLoses(p)
  <2>1. k[p] < P /\ packed[victim[p]] \in WorkerRange
    BY <1>2, <1>16 DEF StealCasLoses, Shapes, Shape
  <2> QED
    BY <1>2, <1>16, <2>1, DecideStealTypes DEF StealCasLoses, jobVars
<1>17. CASE StoreStolen(p)
  BY <1>1, <1>2, <1>17, EmptyTypes DEF StoreStolen, Goto
<1>18. CASE Leave(p)
  BY <1>1, <1>18 DEF Leave, Goto
<1> QED
  BY <1>4, <1>5, <1>6, <1>7, <1>8, <1>9, <1>10, <1>11, <1>12, <1>13, <1>14, <1>15,
     <1>16, <1>17, <1>18 DEF Work
(* How a step moves blocks between ranges, hands and kernels *)

\* Participant q answers for the same blocks, in the same way, as before.
Stays(q) ==
    Slot(q)' = Slot(q) /\ Carried(q)' = Carried(q) /\ Running(q)' = Running(q)

\* No block changes hands.
NothingMoves == \A q \in Participants : Stays(q)

\* One block moves from the range of p into its kernel.
BlockClaimed(p) ==
    /\ \A q \in Participants \ {p} : Stays(q)
    /\ Carried(p)' = {} /\ Carried(p) = {} /\ Running(p) = {}
    /\ \E x \in Slot(p) : Slot(p)' = Slot(p) \ {x} /\ Running(p)' = {x}

\* Some blocks, not all, move from the range of v into the hands of p.
HalfTaken(p, v) ==
    /\ v \in Participants \ {p}
    /\ \A q \in Participants \ {p, v} : Stays(q)
    /\ Slot(p)' = Slot(p) /\ Carried(p) = {} /\ Running(p) = {} /\ Running(p)' = {}
    /\ Carried(v)' = Carried(v) /\ Running(v)' = Running(v)
    /\ Slot(v)' \cup Carried(p)' = Slot(v)
    /\ Slot(v)' \cap Carried(p)' = {}
    /\ Slot(v)' # {}

\* The blocks in the hands of p move into its empty range.
HalfStored(p) ==
    /\ \A q \in Participants \ {p} : Stays(q)
    /\ Slot(p) = {} /\ Slot(p)' = Carried(p) /\ Carried(p)' = {}
    /\ Running(p)' = Running(p)

\* The block p was running is answered for no more.
BlockRetired(p) ==
    /\ \A q \in Participants \ {p} : Stays(q)
    /\ Slot(p)' = Slot(p) /\ Carried(p)' = Carried(p)
    /\ Running(p) = {blk[p]} /\ Running(p)' = {}

\* A participant whose range, place, registers and block are left alone stays.
LEMMA OthersStay ==
    ASSUME BaseTypes, NEW p \in Participants, NEW q \in Participants,
           packed'[q] = packed[q], pc'[q] = pc[q], reg'[q] = reg[q], blk'[q] = blk[q]
    PROVE  Stays(q)
  BY DEF Stays, Slot, Carried, Running

\* The compare-exchange that claims a block moves it from range to kernel.
LEMMA ClaimMoves ==
    ASSUME BaseTypes, Shapes, NEW p \in Participants, ClaimCasWins(p)
    PROVE  BlockClaimed(p) /\ ran' = ran
<1> USE DEF ClaimCasWins, Goto
<1>1. packed[p] = reg[p] /\ ~IsEmpty(reg[p]) /\ reg[p] \in WorkerRange
  BY DEF BaseTypes, Shapes, Shape
<1>2. /\ packed'[p] = WithoutFirst(packed[p]) /\ pc'[p] = "run" /\ blk'[p] = packed[p].b
      /\ \A q \in Participants \ {p} :
            packed'[q] = packed[q] /\ pc'[q] = pc[q] /\ reg'[q] = reg[q] /\ blk'[q] = blk[q]
  BY <1>1 DEF BaseTypes
<1>3. \A q \in Participants \ {p} : Stays(q)
  BY <1>2, OthersStay
<1>4. Slot(p)' = Slot(p) \ {packed[p].b} /\ packed[p].b \in Slot(p)
  BY <1>1, <1>2, WithoutFirstTypes DEF Slot
<1>5. Running(p)' = {packed[p].b} /\ Running(p) = {} /\ Carried(p) = {} /\ Carried(p)' = {}
  BY <1>2 DEF Running, Carried
<1> QED
  BY <1>3, <1>4, <1>5 DEF BlockClaimed

\* The compare-exchange of stealHalf moves the upper half of another
\* participant's range into the thief's hands.
LEMMA StealMoves ==
    ASSUME BaseTypes, Shapes, NEW p \in Participants, StealCasWins(p)
    PROVE  (\E v \in Participants : HalfTaken(p, v)) /\ ran' = ran
<1> USE DEF StealCasWins, Goto
<1>0. PICK v \in Participants : v = victim[p]
  BY DEF BaseTypes
<1>1. /\ packed[v] = reg[p] /\ reg[p] \in WorkerRange
      /\ CanSteal(reg[p]) /\ IsEmpty(packed[p]) /\ pc[p] = "stealCas"
  BY <1>0 DEF BaseTypes, Shapes, Shape
<1>2. v # p
  BY <1>1 DEF IsEmpty, CanSteal, WorkerRange
<1>3. /\ packed'[v] = LowerHalf(packed[v]) /\ packed'[p] = packed[p]
      /\ reg'[p] = UpperHalf(packed[v]) /\ pc'[p] = "store" /\ blk'[p] = blk[p]
      /\ pc'[v] = pc[v] /\ reg'[v] = reg[v] /\ blk'[v] = blk[v]
      /\ \A q \in Participants \ {p, v} :
            packed'[q] = packed[q] /\ pc'[q] = pc[q] /\ reg'[q] = reg[q] /\ blk'[q] = blk[q]
  BY <1>0, <1>1, <1>2 DEF BaseTypes
<1>4. \A q \in Participants \ {p, v} : Stays(q)
  BY <1>3, OthersStay
<1>5. /\ Slot(v)' \cup Carried(p)' = Slot(v)
      /\ Slot(v)' \cap Carried(p)' = {}
      /\ Slot(v)' # {}
  <2>1. Slot(v)' = Members(LowerHalf(packed[v])) /\ Carried(p)' = Members(UpperHalf(packed[v]))
    BY <1>3 DEF Slot, Carried
  <2>2. packed[v] \in WorkerRange /\ CanSteal(packed[v])
    BY <1>1
  <2>3. Members(LowerHalf(packed[v])) # {}
    BY <2>2, HalvesTypes, EmptyTypes
  <2> QED
    BY <2>1, <2>2, <2>3, HalvesTypes DEF Slot
<1>6. /\ Slot(p)' = Slot(p) /\ Carried(p) = {} /\ Running(p) = {} /\ Running(p)' = {}
      /\ Carried(v)' = Carried(v) /\ Running(v)' = Running(v)
  BY <1>1, <1>3 DEF Slot, Carried, Running
<1> QED
  BY <1>1, <1>2, <1>4, <1>5, <1>6 DEF HalfTaken

\* The store that follows stealHalf moves the stolen half into an empty range.
LEMMA StoreMoves ==
    ASSUME BaseTypes, Shapes, NEW p \in Participants, StoreStolen(p)
    PROVE  HalfStored(p) /\ ran' = ran
<1> USE DEF StoreStolen, Goto
<1>1. pc[p] = "store" /\ IsEmpty(packed[p]) /\ packed[p] \in WorkerRange
  BY DEF BaseTypes, Shapes, Shape
<1>2. /\ packed'[p] = reg[p] /\ pc'[p] = "top" /\ blk'[p] = blk[p]
      /\ \A q \in Participants \ {p} :
            packed'[q] = packed[q] /\ pc'[q] = pc[q] /\ reg'[q] = reg[q] /\ blk'[q] = blk[q]
  BY DEF BaseTypes
<1>3. \A q \in Participants \ {p} : Stays(q)
  BY <1>2, OthersStay
<1>4. Slot(p) = {}
  BY <1>1, EmptyTypes DEF Slot
<1>5. Slot(p)' = Carried(p) /\ Carried(p)' = {} /\ Running(p)' = Running(p)
  BY <1>1, <1>2 DEF Slot, Carried, Running
<1> QED
  BY <1>3, <1>4, <1>5 DEF HalfStored

\* Counting a block down ends its kernel and touches nothing else.
LEMMA RetireMoves ==
    ASSUME BaseTypes, Shapes, NEW p \in Participants, Retire(p)
    PROVE  BlockRetired(p) /\ ran' = ran
<1> USE DEF Retire, Goto
<1>1. /\ packed' = packed /\ pc[p] = "retire" /\ pc'[p] = "top" /\ reg' = reg
      /\ \A q \in Participants \ {p} : pc'[q] = pc[q] /\ blk'[q] = blk[q]
  BY DEF BaseTypes
<1>2. \A q \in Participants \ {p} : Stays(q)
  BY <1>1, OthersStay
<1>3. /\ Slot(p)' = Slot(p) /\ Carried(p)' = Carried(p)
      /\ Running(p) = {blk[p]} /\ Running(p)' = {}
  BY <1>1 DEF Slot, Carried, Running
<1> QED
  BY <1>2, <1>3 DEF BlockRetired

\* The steps that look, decide, run a kernel, enter or leave.
QuietStep(p) ==
    \/ Enter(p) \/ CheckFailed(p) \/ LoadOwn(p) \/ ClaimCasLoses(p)
    \/ KernelDone(p) \/ KernelFail(p) \/ KernelAbort(p) \/ LoadVictim(p)
    \/ NothingToSteal(p) \/ StealCasLoses(p) \/ Leave(p)

\* Loads, lost exchanges, kernels, entering and leaving move no block; only a
\* kernel that ran to its end adds its block to ran.
LEMMA QuietMoves ==
    ASSUME BaseTypes, NEW p \in Participants, QuietStep(p)
    PROVE  /\ NothingMoves
           /\ packed' = packed /\ blk' = blk
           /\ ran' = ran \/ (KernelDone(p) /\ ran' = ran \cup Running(p))
<1>1. packed' = packed /\ blk' = blk
  BY DEF QuietStep, Enter, CheckFailed, LoadOwn, ClaimCasLoses, KernelDone, KernelFail,
         KernelAbort, LoadVictim, NothingToSteal, StealCasLoses, Leave, jobVars
<1>2. \A q \in Participants \ {p} : pc'[q] = pc[q] /\ reg'[q] = reg[q]
  BY DEF BaseTypes, QuietStep, Enter, CheckFailed, LoadOwn, ClaimCasLoses, KernelDone,
         KernelFail, KernelAbort, LoadVictim, NothingToSteal, StealCasLoses, Leave,
         DecideClaim, DecideSteal, Goto
<1>3. /\ pc[p] \in {"run", "retire"} <=> pc'[p] \in {"run", "retire"}
      /\ pc[p] # "store" /\ pc'[p] # "store"
  BY DEF BaseTypes, QuietStep, Enter, CheckFailed, LoadOwn, ClaimCasLoses, KernelDone,
         KernelFail, KernelAbort, LoadVictim, NothingToSteal, StealCasLoses, Leave,
         DecideClaim, DecideSteal, Goto
<1>4. \A q \in Participants \ {p} : Stays(q)
  BY <1>1, <1>2, OthersStay
<1>5. Stays(p)
  BY <1>1, <1>3 DEF Stays, Slot, Carried, Running
<1>6. ran' = ran \/ (KernelDone(p) /\ ran' = ran \cup Running(p))
  BY DEF QuietStep, Enter, CheckFailed, LoadOwn, ClaimCasLoses, KernelDone, KernelFail,
         KernelAbort, LoadVictim, NothingToSteal, StealCasLoses, Leave, Running
<1> QED
  BY <1>1, <1>4, <1>5, <1>6 DEF NothingMoves

\* A step of workOnJob is quiet or one of the four that move blocks.
LEMMA FiveKindsOfStep ==
    ASSUME NEW p \in Participants, Work(p)
    PROVE  \/ QuietStep(p) \/ ClaimCasWins(p) \/ StealCasWins(p)
           \/ StoreStolen(p) \/ Retire(p)
  BY DEF Work, QuietStep
(* The invariant is kept *)

\* Every step keeps NoBlockTwice: the compare-exchanges move a block from one
\* holder to one other.
LEMMA NoBlockTwiceKept ==
    ASSUME BaseTypes, Shapes, NoBlockTwice, NEW p \in Participants, Work(p)
    PROVE  NoBlockTwice'
<1>1. CASE QuietStep(p)
  <2>1. \A q \in Participants : Stays(q)
    BY <1>1, QuietMoves DEF NothingMoves
  <2>2. ran' \subseteq ran \cup Running(p)
    BY <1>1, QuietMoves
  <2>3. \A q \in Participants : (Slot(q) \cup Carried(q)) \cap Running(p) = {}
    BY DEF NoBlockTwice, Held
  <2> QED
    BY <2>1, <2>2, <2>3 DEF NoBlockTwice, Held, Stays
<1>2. CASE ClaimCasWins(p)
  <2>1. BlockClaimed(p) /\ ran' = ran
    BY <1>2, ClaimMoves
  <2>2. \A q \in Participants : q # p => Held(p)' \cap Held(q)' = {}
    BY <2>1 DEF BlockClaimed, NoBlockTwice, Held, Stays
  <2> QED
    BY <2>1, <2>2 DEF BlockClaimed, NoBlockTwice, Held, Stays
<1>3. CASE StealCasWins(p)
  <2>1. PICK v \in Participants : HalfTaken(p, v)
    BY <1>3, StealMoves
  <2>2. ran' = ran
    BY <1>3, StealMoves
  <2>3. /\ Held(p)' \subseteq Held(p) \cup Slot(v)
        /\ Held(v)' \subseteq Held(v)
        /\ Held(p)' \cap Held(v)' = {}
        /\ \A q \in Participants \ {p, v} : Held(q)' = Held(q)
    BY <2>1 DEF HalfTaken, NoBlockTwice, Held, Stays
  <2>4. \A q, r \in Participants : q # r => Held(q)' \cap Held(r)' = {}
    BY <2>3 DEF NoBlockTwice, Held
  <2>5. ASSUME NEW q \in Participants
        PROVE  /\ Slot(q)' \cap Carried(q)' = {}
               /\ (Slot(q)' \cup Carried(q)') \cap Running(q)' = {}
               /\ (Slot(q)' \cup Carried(q)') \cap ran = {}
    <3>1. CASE q = p
      BY <2>1, <3>1 DEF HalfTaken, NoBlockTwice, Held
    <3>2. CASE q = v
      BY <2>1, <3>2 DEF HalfTaken, NoBlockTwice, Held
    <3>3. CASE q \notin {p, v}
      BY <2>1, <3>3 DEF HalfTaken, NoBlockTwice, Held, Stays
    <3> QED
      BY <3>1, <3>2, <3>3
  <2> QED
    BY <2>2, <2>4, <2>5 DEF NoBlockTwice
<1>4. CASE StoreStolen(p)
  <2>1. HalfStored(p) /\ ran' = ran
    BY <1>4, StoreMoves
  <2>2. \A q \in Participants : Held(q)' = Held(q)
    BY <2>1 DEF HalfStored, Held, Stays
  <2> QED
    BY <2>1, <2>2 DEF HalfStored, NoBlockTwice, Stays
<1>5. CASE Retire(p)
  <2>1. BlockRetired(p) /\ ran' = ran
    BY <1>5, RetireMoves
  <2>2. \A q \in Participants : Held(q)' \subseteq Held(q)
    BY <2>1 DEF BlockRetired, Held, Stays
  <2> QED
    BY <2>1, <2>2 DEF BlockRetired, NoBlockTwice, Stays
<1> QED
  BY <1>1, <1>2, <1>3, <1>4, <1>5, FiveKindsOfStep

\* No step but the countdown changes the set of blocks somebody answers for.
LEMMA UnretiredKept ==
    ASSUME BaseTypes, Shapes, NEW p \in Participants, Work(p), ~Retire(p)
    PROVE  Unretired' = Unretired
<1>1. CASE QuietStep(p)
  <2>1. \A q \in Participants : Held(q)' = Held(q)
    BY <1>1, QuietMoves DEF NothingMoves, Held, Stays
  <2> QED
    BY <2>1 DEF Unretired
<1>2. CASE ClaimCasWins(p)
  <2>1. \A q \in Participants : Held(q)' = Held(q)
    BY <1>2, ClaimMoves DEF BlockClaimed, Held, Stays
  <2> QED
    BY <2>1 DEF Unretired
<1>3. CASE StealCasWins(p)
  <2>1. PICK v \in Participants : HalfTaken(p, v)
    BY <1>3, StealMoves
  <2>2. /\ Held(p)' \cup Held(v)' = Held(p) \cup Held(v)
        /\ \A q \in Participants \ {p, v} : Held(q)' = Held(q)
    BY <2>1 DEF HalfTaken, Held, Stays
  <2>3. v \in Participants
    OBVIOUS
  <2>4. \A x : (\E q \in Participants : x \in Held(q)') <=> (\E q \in Participants : x \in Held(q))
    BY <2>2, <2>3
  <2> QED
    BY <2>4 DEF Unretired
<1>4. CASE StoreStolen(p)
  <2>1. \A q \in Participants : Held(q)' = Held(q)
    BY <1>4, StoreMoves DEF HalfStored, Held, Stays
  <2> QED
    BY <2>1 DEF Unretired
<1> QED
  BY <1>1, <1>2, <1>3, <1>4, FiveKindsOfStep

\* The countdown takes exactly the finished block out of that set.
LEMMA UnretiredAfterRetire ==
    ASSUME BaseTypes, Shapes, NoBlockTwice, NEW p \in Participants, Retire(p)
    PROVE  Unretired' = Unretired \ {blk[p]} /\ blk[p] \in Unretired
<1>1. BlockRetired(p)
  BY RetireMoves
<1>2. /\ blk[p] \in Held(p) /\ Held(p)' = Held(p) \ {blk[p]}
      /\ \A q \in Participants \ {p} : Held(q)' = Held(q) /\ blk[p] \notin Held(q)
  BY <1>1 DEF BlockRetired, NoBlockTwice, Held, Stays
<1>3. \A x : (\E q \in Participants : x \in Held(q)')
                <=> ((\E q \in Participants : x \in Held(q)) /\ x # blk[p])
  BY <1>2
<1> QED
  BY <1>2, <1>3 DEF Unretired

\* Participants answer for blocks of this job only.
LEMMA UnretiredAreBlocks ==
    ASSUME BaseTypes, Shapes
    PROVE  Unretired \in SUBSET Blocks
<1>1. ASSUME NEW p \in Participants PROVE Held(p) \subseteq Blocks
  <2>1. Running(p) \subseteq Blocks
    BY DEF Running, BaseTypes, Shapes, Shape
  <2> QED
    BY <2>1 DEF Held, Shapes, Shape
<1> QED
  BY <1>1 DEF Unretired
\* A participant stays in shape while another one acts: a thief robs only
\* ranges of two blocks or more, so an empty range stays empty.
LEMMA BystanderShape ==
    ASSUME BaseTypes, Shapes, NEW p \in Participants, Work(p),
           NEW q \in Participants \ {p}
    PROVE  Shape(q)'
<1>1. /\ pc'[q] = pc[q] /\ reg'[q] = reg[q] /\ k'[q] = k[q] /\ blk'[q] = blk[q]
      /\ (failed => failed') /\ ran \subseteq ran'
  BY DEF BaseTypes, Work, Enter, CheckFailed, LoadOwn, ClaimCasWins, ClaimCasLoses,
         KernelDone, KernelFail, KernelAbort, Retire, LoadVictim, NothingToSteal,
         StealCasWins, StealCasLoses, StoreStolen, Leave, DecideClaim, DecideSteal,
         Goto, jobVars
<1>2. IsEmpty(packed[q]) => packed'[q] = packed[q]
  <2>1. CASE QuietStep(p)
    BY <2>1, QuietMoves
  <2>2. CASE ClaimCasWins(p)
    BY <2>2 DEF ClaimCasWins, BaseTypes
  <2>3. CASE StealCasWins(p)
    <3>1. CanSteal(packed[victim[p]]) /\ packed[victim[p]] \in WorkerRange
      BY <2>3 DEF StealCasWins, Shapes, Shape, BaseTypes
    <3>2. ~IsEmpty(packed[victim[p]])
      BY <3>1 DEF CanSteal, IsEmpty, WorkerRange
    <3> QED
      BY <2>3, <3>2 DEF StealCasWins, BaseTypes
  <2>4. CASE StoreStolen(p)
    BY <2>4 DEF StoreStolen, BaseTypes
  <2>5. CASE Retire(p)
    BY <2>5 DEF Retire
  <2> QED
    BY <2>1, <2>2, <2>3, <2>4, <2>5, FiveKindsOfStep
<1>3. Slot(q)' \cup Carried(q)' \subseteq Slot(q) \cup Carried(q)
  <2>1. CASE QuietStep(p)
    BY <2>1, QuietMoves DEF NothingMoves, Stays
  <2>2. CASE ClaimCasWins(p)
    BY <2>2, ClaimMoves DEF BlockClaimed, Stays
  <2>3. CASE StealCasWins(p)
    BY <2>3, StealMoves DEF HalfTaken, Stays
  <2>4. CASE StoreStolen(p)
    BY <2>4, StoreMoves DEF HalfStored, Stays
  <2>5. CASE Retire(p)
    BY <2>5, RetireMoves DEF BlockRetired, Stays
  <2> QED
    BY <2>1, <2>2, <2>3, <2>4, <2>5, FiveKindsOfStep
<1>4. Shape(q) /\ Blocks' = Blocks
  BY WorkKeepsJob DEF Shapes
<1> QED
  BY <1>1, <1>2, <1>3, <1>4 DEF Shape

\* After its own step a participant holds blocks of this job only.
LEMMA ActorBlocks ==
    ASSUME BaseTypes, Shapes, NEW p \in Participants, Work(p)
    PROVE  Slot(p)' \cup Carried(p)' \subseteq Blocks'
<1>0. Blocks' = Blocks /\ \A q \in Participants : Slot(q) \cup Carried(q) \subseteq Blocks
  BY WorkKeepsJob DEF Shapes, Shape
<1>1. CASE QuietStep(p)
  BY <1>0, <1>1, QuietMoves DEF NothingMoves, Stays
<1>2. CASE ClaimCasWins(p)
  BY <1>0, <1>2, ClaimMoves DEF BlockClaimed
<1>3. CASE StealCasWins(p)
  BY <1>0, <1>3, StealMoves DEF HalfTaken
<1>4. CASE StoreStolen(p)
  BY <1>0, <1>4, StoreMoves DEF HalfStored
<1>5. CASE Retire(p)
  BY <1>0, <1>5, RetireMoves DEF BlockRetired
<1> QED
  BY <1>1, <1>2, <1>3, <1>4, <1>5, FiveKindsOfStep

\* What Shape says of a participant's control and registers.
Posture(p) ==
    /\ pc[p] = "claimCas" => ~IsEmpty(reg[p])
    /\ pc[p] = "stealCas" => CanSteal(reg[p]) /\ k[p] < P
    /\ blk[p] # None <=> pc[p] \in {"run", "retire"}
    /\ pc[p] \in {"steal", "stealCas", "store"} => IsEmpty(packed[p])
    /\ (pc[p] \in {"leave", "out"} /\ ~failed) => IsEmpty(packed[p])
    /\ (pc[p] = "retire" /\ ~failed) => blk[p] \in ran

\* After its own step a participant is where Shape allows it to be.
LEMMA ActorPosture ==
    ASSUME BaseTypes, Shapes, NEW p \in Participants, Work(p)
    PROVE  Posture(p)'
<1> USE DEF Posture, Goto
<1>0. Shape(p)
  BY DEF Shapes
<1>1. CASE Enter(p) \/ CheckFailed(p)
  BY <1>0, <1>1 DEF BaseTypes, Shape, Enter, CheckFailed, jobVars
<1>2. CASE LoadOwn(p)
  BY <1>0, <1>2 DEF BaseTypes, Shape, LoadOwn, DecideClaim, jobVars
<1>3. CASE ClaimCasWins(p)
  <2>1. reg[p].b # None
    BY DEF BaseTypes, WorkerRange, None
  <2> QED
    BY <1>0, <1>3, <2>1 DEF BaseTypes, Shape, ClaimCasWins
<1>4. CASE ClaimCasLoses(p)
  BY <1>0, <1>4 DEF BaseTypes, Shape, ClaimCasLoses, DecideClaim, jobVars
<1>5. CASE KernelDone(p) \/ KernelFail(p) \/ KernelAbort(p)
  BY <1>0, <1>5 DEF BaseTypes, Shape, KernelDone, KernelFail, KernelAbort, jobVars
<1>6. CASE Retire(p)
  BY <1>0, <1>6 DEF BaseTypes, Shape, Retire
<1>7. CASE LoadVictim(p)
  <2>1. PICK v \in Participants : DecideSteal(p, v, packed[v])
    <3>1. p + k[p] \in Int /\ participantCount = P
      BY ParticipantFacts DEF BaseTypes
    <3>2. (p + k[p]) % participantCount \in Participants
      BY <3>1, RemainderFacts
    <3> QED
      BY <3>2, <1>7 DEF LoadVictim
  <2>2. pc[p] = "steal" /\ k[p] < P /\ UNCHANGED <<jobVars, ran, blk>>
    BY <1>7 DEF LoadVictim, BaseTypes
  <2> QED
    BY <1>0, <2>1, <2>2 DEF BaseTypes, Shape, DecideSteal, jobVars
<1>8. CASE NothingToSteal(p)
  BY <1>0, <1>8 DEF BaseTypes, Shape, NothingToSteal, jobVars
<1>9. CASE StealCasWins(p)
  <2>1. victim[p] # p
    BY <1>0, <1>9 DEF StealCasWins, BaseTypes, Shape, CanSteal, IsEmpty, WorkerRange
  <2> QED
    BY <1>0, <1>9, <2>1 DEF BaseTypes, Shape, StealCasWins
<1>10. CASE StealCasLoses(p)
  BY <1>0, <1>10 DEF BaseTypes, Shape, StealCasLoses, DecideSteal, jobVars
<1>11. CASE StoreStolen(p) \/ Leave(p)
  BY <1>0, <1>11 DEF BaseTypes, Shape, StoreStolen, Leave
<1> QED
  BY <1>1, <1>2, <1>3, <1>4, <1>5, <1>6, <1>7, <1>8, <1>9, <1>10, <1>11 DEF Work

\* Every step keeps the participants in shape.
LEMMA ShapesKept ==
    ASSUME BaseTypes, Shapes, NEW p \in Participants, Work(p)
    PROVE  Shapes'
<1>1. Shape(p)'
  BY ActorBlocks, ActorPosture DEF Shape, Posture
<1> QED
  BY <1>1, BystanderShape DEF Shapes

\* Every step keeps Covered: without a failure a block is retired only after it ran.
LEMMA CoveredKept ==
    ASSUME BaseTypes, Shapes, NoBlockTwice, Covered, NEW p \in Participants, Work(p)
    PROVE  Covered'
<1>0. Blocks' = Blocks
  BY WorkKeepsJob
<1>1. ran \subseteq ran' /\ (failed => failed')
  BY DEF BaseTypes, Work, Enter, CheckFailed, LoadOwn, ClaimCasWins, ClaimCasLoses,
         KernelDone, KernelFail, KernelAbort, Retire, LoadVictim, NothingToSteal,
         StealCasWins, StealCasLoses, StoreStolen, Leave, jobVars
<1>2. CASE Retire(p)
  <2>1. Unretired' = Unretired \ {blk[p]}
    BY <1>2, UnretiredAfterRetire
  <2>2. ~failed => blk[p] \in ran
    BY <1>2 DEF Retire, Shapes, Shape
  <2> QED
    BY <1>0, <1>1, <2>1, <2>2 DEF Covered
<1>3. CASE ~Retire(p)
  BY <1>0, <1>1, <1>3, UnretiredKept DEF Covered
<1> QED
  BY <1>2, <1>3

\* Every step keeps RemainingIsExact: the fetch_sub subtracts the span of the
\* one block that is answered for no more.
LEMMA RemainingKept ==
    ASSUME BaseTypes, Shapes, NoBlockTwice, RemainingIsExact, NEW p \in Participants, Work(p)
    PROVE  RemainingIsExact'
<1>0. RemainingIsExact <=> remaining = Cardinality(IndexSet(Unretired))
  BY DEF RemainingIsExact, IndexSet
<1>1. \A x : Indices(x)' = Indices(x)
  BY WorkKeepsJob DEF Indices, First, Last, Lesser
<1>2. RemainingIsExact' <=> remaining' = Cardinality(IndexSet(Unretired'))
  BY <1>1 DEF RemainingIsExact, IndexSet
<1>3. CASE Retire(p)
  <2>1. Unretired' = Unretired \ {blk[p]} /\ blk[p] \in Unretired
    BY <1>3, UnretiredAfterRetire
  <2>2. remaining' = remaining - Span(blk[p])
    BY <1>3 DEF Retire
  <2>3. total \in Nat \ {0}
    BY MaxTotalAssumption DEF BaseTypes
  <2>4. Cardinality(IndexSet(Unretired \ {blk[p]}))
            = Cardinality(IndexSet(Unretired)) - Span(blk[p])
    BY <2>1, <2>3, RemoveBlock, UnretiredAreBlocks
  <2> QED
    BY <1>0, <1>2, <2>1, <2>2, <2>4
<1>4. CASE ~Retire(p)
  <2>1. remaining' = remaining
    BY <1>4 DEF Work, Enter, CheckFailed, LoadOwn, ClaimCasWins, ClaimCasLoses,
           KernelDone, KernelFail, KernelAbort, LoadVictim, NothingToSteal,
           StealCasWins, StealCasLoses, StoreStolen, Leave, jobVars
  <2> QED
    BY <1>0, <1>2, <1>4, <2>1, UnretiredKept
<1> QED
  BY <1>3, <1>4

\* Every step keeps InFlightCoversWork: entering and leaving are the only steps
\* that count.
LEMMA InFlightKept ==
    ASSUME BaseTypes, InFlightCoversWork, NEW p \in Participants, Work(p)
    PROVE  InFlightCoversWork'
<1> DEFINE S == {q \in Participants : InsideWork(q)}
<1>1. IsFiniteSet(S) /\ Cardinality(S) = inFlight
  <2>1. S \subseteq Participants
    OBVIOUS
  <2>2. IsFiniteSet(S)
    BY <2>1, ParticipantFacts, FS_Subset
  <2> QED
    BY <2>2 DEF InFlightCoversWork
<1>2. \A q \in Participants \ {p} : pc'[q] = pc[q]
  BY DEF BaseTypes, Work, Enter, CheckFailed, LoadOwn, ClaimCasWins, ClaimCasLoses,
         KernelDone, KernelFail, KernelAbort, Retire, LoadVictim, NothingToSteal,
         StealCasWins, StealCasLoses, StoreStolen, Leave, DecideClaim, DecideSteal, Goto
<1>3. CASE Enter(p)
  <2>1. S' = S \cup {p} /\ p \notin S /\ inFlight' = inFlight + 1
    BY <1>2, <1>3 DEF Enter, Goto, InsideWork, BaseTypes
  <2>2. Cardinality(S \cup {p}) = Cardinality(S) + 1
    BY <1>1, <2>1, FS_AddElement
  <2> QED
    BY <1>1, <2>1, <2>2 DEF InFlightCoversWork
<1>4. CASE Leave(p)
  <2>1. S' = S \ {p} /\ p \in S /\ inFlight' = inFlight - 1
    BY <1>2, <1>4 DEF Leave, Goto, InsideWork, BaseTypes
  <2>2. Cardinality(S \ {p}) = Cardinality(S) - 1
    BY <1>1, <2>1, FS_RemoveElement
  <2> QED
    BY <1>1, <2>1, <2>2 DEF InFlightCoversWork
<1>5. CASE ~Enter(p) /\ ~Leave(p)
  <2>1. InsideWork(p) /\ InsideWork(p)' /\ inFlight' = inFlight
    BY <1>5 DEF BaseTypes, Work, CheckFailed, LoadOwn, ClaimCasWins, ClaimCasLoses,
           KernelDone, KernelFail, KernelAbort, Retire, LoadVictim, NothingToSteal,
           StealCasWins, StealCasLoses, StoreStolen, DecideClaim, DecideSteal, Goto,
           InsideWork, jobVars
  <2>2. S' = S
    BY <1>2, <2>1 DEF InsideWork
  <2> QED
    BY <1>1, <2>1, <2>2 DEF InFlightCoversWork
<1> QED
  BY <1>3, <1>4, <1>5
\* Every step keeps OwnerKeepsLastBlock: stealHalf leaves its victim a block.
LEMMA OwnerKept ==
    ASSUME BaseTypes, Shapes, OwnerKeepsLastBlock, NEW p \in Participants, Work(p)
    PROVE  OwnerKeepsLastBlock'
<1> SUFFICES ASSUME NEW q \in Participants, pc'[q] = "ready",
                    ~IsEmpty(InitialRange(total', q))
             PROVE  ~IsEmpty(packed'[q])
  BY DEF OwnerKeepsLastBlock, IsEmpty, InitialRange, BlockCount
<1>1. q # p /\ pc[q] = "ready"
  BY DEF BaseTypes, Work, Enter, CheckFailed, LoadOwn, ClaimCasWins, ClaimCasLoses,
         KernelDone, KernelFail, KernelAbort, Retire, LoadVictim, NothingToSteal,
         StealCasWins, StealCasLoses, StoreStolen, Leave, DecideClaim, DecideSteal, Goto
<1>2. ~IsEmpty(packed[q])
  BY <1>1, WorkKeepsJob DEF OwnerKeepsLastBlock
<1>3. CASE QuietStep(p)
  BY <1>2, <1>3, QuietMoves
<1>4. CASE ClaimCasWins(p)
  BY <1>1, <1>2, <1>4 DEF ClaimCasWins, BaseTypes
<1>5. CASE StealCasWins(p)
  <2>1. CASE q = victim[p]
    <3>1. packed'[q] = LowerHalf(reg[p])
      BY <1>5, <2>1 DEF StealCasWins, BaseTypes
    <3>2. ~IsEmpty(LowerHalf(reg[p]))
      BY <1>5, HalvesTypes DEF StealCasWins, BaseTypes, Shapes, Shape
    <3> QED
      BY <3>1, <3>2
  <2>2. CASE q # victim[p]
    BY <1>2, <1>5, <2>2 DEF StealCasWins, BaseTypes
  <2> QED
    BY <2>1, <2>2
<1>6. CASE StoreStolen(p)
  BY <1>1, <1>2, <1>6 DEF StoreStolen, BaseTypes
<1>7. CASE Retire(p)
  BY <1>2, <1>7 DEF Retire
<1> QED
  BY <1>3, <1>4, <1>5, <1>6, <1>7, FiveKindsOfStep

\* armJob establishes the invariant.
LEMMA IInvInit ==
    ASSUME WRInit
    PROVE  IInv
<1> USE DEF WRInit
<1>0. total \in Nat \ {0} /\ Blocks = 0 .. BlockCount(total) - 1
  BY MaxTotalAssumption DEF Blocks
<1>1. \A p \in Participants :
        /\ packed[p] = InitialRange(total, p) /\ packed[p] \in WorkerRange
        /\ pc[p] = "ready" /\ reg[p] = Empty /\ k[p] = 0 /\ victim[p] = 0 /\ blk[p] = None
  BY <1>0, InitialRangeFacts
<1>2. BaseTypes
  <2>1. packed \in [Participants -> WorkerRange]
    BY <1>1
  <2>2. /\ remaining \in Int /\ inFlight \in Int /\ failed \in BOOLEAN /\ ran \subseteq Blocks
        /\ total \in 1 .. MaxTotal /\ participantCount = P
    <3>1. remaining = total /\ inFlight = 0 /\ failed = FALSE /\ ran = {}
      OBVIOUS
    <3>2. FALSE \in BOOLEAN /\ 0 \in Int /\ total \in Int /\ {} \subseteq Blocks
      BY <1>0
    <3> QED
      BY <3>1, <3>2
  <2>3. pc \in [Participants -> Labels] /\ reg \in [Participants -> WorkerRange]
    BY EmptyTypes DEF Labels
  <2>4. k \in [Participants -> 0 .. P] /\ victim \in [Participants -> Participants]
    BY ParticipantFacts, PAssumption
  <2> QED
    BY <2>1, <2>2, <2>3, <2>4 DEF BaseTypes
<1>3. \A p \in Participants :
        Slot(p) = Members(InitialRange(total, p)) /\ Carried(p) = {} /\ Running(p) = {}
  BY <1>1 DEF Slot, Carried, Running
<1>4. \A p \in Participants : Slot(p) \subseteq Blocks
  <2> SUFFICES ASSUME NEW p \in Participants
               PROVE  Slot(p) \subseteq Blocks
    OBVIOUS
  <2>1. InitialRange(total, p) \in WorkerRange /\ InitialRange(total, p).e <= BlockCount(total)
    BY <1>0, InitialRangeFacts
  <2>2. BlockCount(total) \in Nat
    BY <1>0, BlockCountFacts
  <2>3. Members(InitialRange(total, p)) \subseteq 0 .. BlockCount(total) - 1
    <3>1. /\ InitialRange(total, p).b \in Nat
          /\ InitialRange(total, p).e \in Nat
      BY <2>1 DEF WorkerRange
    <3> QED
      BY <2>1, <2>2, <3>1 DEF Members
  <2> QED
    BY <1>0, <1>3, <2>3
<1>5. Shapes
  BY <1>1, <1>3, <1>4 DEF Shapes, Shape
<1>6. \A p, q \in Participants : p # q => Slot(p) \cap Slot(q) = {}
  <2>1. ASSUME NEW p \in Participants, NEW q \in Participants, p < q
        PROVE  Slot(p) \cap Slot(q) = {}
    <3>1. InitialRange(total, p).e <= InitialRange(total, q).b
      BY <1>0, <2>1, InitialRangeFacts
    <3>2. InitialRange(total, p) \in WorkerRange /\ InitialRange(total, q) \in WorkerRange
      BY <1>0, InitialRangeFacts
    <3> QED
      BY <1>3, <3>1, <3>2 DEF Members, WorkerRange
  <2> QED
    BY <2>1, ParticipantFacts
<1>7. NoBlockTwice
  BY <1>3, <1>6 DEF NoBlockTwice, Held
<1>8. Unretired = Blocks
  <2>1. \A p \in Participants : Held(p) = Slot(p)
    BY <1>3 DEF Held
  <2>2. \A x \in Blocks : \E p \in Participants : x \in Slot(p)
    BY <1>0, <1>3, InitialRangeFacts
  <2> QED
    BY <1>4, <2>1, <2>2 DEF Unretired
<1>9. RemainingIsExact
  <2>1. IndexSet(Unretired) = 0 .. total - 1
    BY <1>0, <1>8, IndicesCover
  <2>2. Cardinality(0 .. total - 1) = total
    <3>1. \A a, b \in Int : a <= b => Cardinality(a .. b) = b - a + 1
      BY FS_Interval
    <3>2. 0 \in Int /\ total - 1 \in Int /\ 0 <= total - 1 /\ total - 1 - 0 + 1 = total
      BY <1>0
    <3> QED
      BY <3>1, <3>2
  <2> QED
    BY <2>1, <2>2 DEF RemainingIsExact, IndexSet
<1>10. InFlightCoversWork
  <2>1. {p \in Participants : InsideWork(p)} = {}
    BY <1>1 DEF InsideWork
  <2> QED
    BY <2>1, FS_EmptySet DEF InFlightCoversWork
<1>11. OwnerKeepsLastBlock
  BY <1>1 DEF OwnerKeepsLastBlock
<1> QED
  BY <1>2, <1>5, <1>7, <1>8, <1>9, <1>10, <1>11 DEF IInv, Covered

\* Every step of the specification keeps the invariant.
LEMMA IInvStep ==
    ASSUME IInv, [WRNext]_wrVars
    PROVE  IInv'
<1>1. CASE \E p \in Participants : Work(p)
  <2> PICK p \in Participants : Work(p)
    BY <1>1
  <2>1. BaseTypes' /\ Shapes' /\ NoBlockTwice' /\ Covered'
    BY TypesKept, ShapesKept, NoBlockTwiceKept, CoveredKept DEF IInv
  <2>2. RemainingIsExact' /\ InFlightCoversWork' /\ OwnerKeepsLastBlock'
    BY RemainingKept, InFlightKept, OwnerKept DEF IInv
  <2> QED
    BY <2>1, <2>2 DEF IInv
<1>2. CASE UNCHANGED wrVars
  <2> USE DEF wrVars, jobVars, localVars
  <2>0. /\ Blocks' = Blocks
        /\ \A p : Slot(p)' = Slot(p) /\ Carried(p)' = Carried(p) /\ Running(p)' = Running(p)
    BY <1>2 DEF Blocks, Slot, Carried, Running
  <2>1. BaseTypes' /\ Shapes'
    BY <1>2, <2>0 DEF IInv, BaseTypes, Shapes, Shape
  <2>2. NoBlockTwice' /\ Unretired' = Unretired
    BY <1>2, <2>0 DEF IInv, NoBlockTwice, Unretired, Held
  <2>3. Covered' /\ InFlightCoversWork' /\ OwnerKeepsLastBlock'
    BY <1>2, <2>0, <2>2
       DEF IInv, Covered, InFlightCoversWork, InsideWork, OwnerKeepsLastBlock
  <2>4. RemainingIsExact'
    BY <1>2, <2>2 DEF IInv, RemainingIsExact, Indices, First, Last, Lesser
  <2> QED
    BY <2>1, <2>2, <2>3, <2>4 DEF IInv
<1> QED
  BY <1>1, <1>2 DEF WRNext, Finished

\* When remaining is 0 nobody has a range, and nobody runs or retires a block.
LEMMA NothingLeft ==
    ASSUME IInv, remaining = 0
    PROVE  /\ Unretired = {}
           /\ \A p \in Participants : IsEmpty(packed[p]) /\ pc[p] \notin {"run", "retire"}
<1>1. total \in Nat \ {0}
  BY MaxTotalAssumption DEF IInv, BaseTypes
<1>2. Cardinality(IndexSet(Unretired)) = 0
  BY DEF IInv, RemainingIsExact, IndexSet
<1>3. Unretired = {}
  BY <1>1, <1>2, IndexSetFacts, UnretiredAreBlocks DEF IInv
<1>4. ASSUME NEW p \in Participants PROVE IsEmpty(packed[p]) /\ pc[p] \notin {"run", "retire"}
  <2>1. Slot(p) = {} /\ Running(p) = {}
    BY <1>3 DEF Unretired, Held
  <2>2. packed[p] \in WorkerRange
    BY DEF IInv, BaseTypes
  <2> QED
    BY <2>1, <2>2, EmptyTypes DEF Slot, Running
<1> QED
  BY <1>3, <1>4

\* When inFlight is 0 nobody is between the two fetch_adds of workOnJob.
LEMMA NobodyInside ==
    ASSUME IInv, inFlight = 0
    PROVE  \A p \in Participants : pc[p] \in {"ready", "out"}
<1> DEFINE S == {p \in Participants : InsideWork(p)}
<1>1. IsFiniteSet(S) /\ Cardinality(S) = 0
  <2>1. S \subseteq Participants
    OBVIOUS
  <2> QED
    BY <2>1, ParticipantFacts, FS_Subset DEF IInv, InFlightCoversWork
<1>2. S = {}
  BY <1>1, FS_EmptySet
<1> QED
  BY <1>2 DEF InsideWork

\* A participant that wins the exchange gets a block nobody has run or runs.
LEMMA ClaimsFreshBlock ==
    ASSUME IInv, NEW p \in Participants, pc[p] = "claimCas", packed[p] = reg[p]
    PROVE  reg[p].b \in Blocks \ ran /\ \A q \in Participants : blk[q] # reg[p].b
<1>1. reg[p].b \in Slot(p)
  BY WithoutFirstTypes DEF IInv, BaseTypes, Shapes, Shape, Slot
<1>2. reg[p].b \in Blocks \ ran
  BY <1>1 DEF IInv, Shapes, Shape, NoBlockTwice
<1>3. ASSUME NEW q \in Participants, blk[q] = reg[p].b PROVE FALSE
  <2>1. reg[p].b # None
    BY <1>2 DEF Blocks, None
  <2>2. blk[q] \in Running(q)
    BY <1>3, <2>1 DEF IInv, Shapes, Shape, Running
  <2> QED
    BY <1>1, <1>3, <2>2 DEF IInv, NoBlockTwice, Held
<1> QED
  BY <1>2, <1>3

\* A job that is finished stays so.
LEMMA FinishedStays ==
    ASSUME IInv, NEW p \in Participants, Work(p), JobFinished
    PROVE  JobFinished'
<1>1. CASE failed
  <2>1. failed'
    BY <1>1 DEF Work, Enter, CheckFailed, LoadOwn, ClaimCasWins, ClaimCasLoses, KernelDone,
           KernelFail, KernelAbort, Retire, LoadVictim, NothingToSteal, StealCasWins,
           StealCasLoses, StoreStolen, Leave, jobVars
  <2> QED
    BY <2>1 DEF JobFinished
<1>2. CASE remaining = 0
  <2>1. ~Retire(p)
    BY <1>2, NothingLeft DEF Retire
  <2>2. remaining' = 0
    BY <1>2, <2>1 DEF Work, Enter, CheckFailed, LoadOwn, ClaimCasWins, ClaimCasLoses, KernelDone,
           KernelFail, KernelAbort, LoadVictim, NothingToSteal, StealCasWins,
           StealCasLoses, StoreStolen, Leave, jobVars
  <2> QED
    BY <2>2 DEF JobFinished
<1> QED
  BY <1>1, <1>2 DEF JobFinished

\* The invariant holds for every number of workers, block size and job size.
THEOREM Invariance == WRSpec => []IInv
  BY IInvInit, IInvStep, PTL DEF WRSpec
\* The variables of workOnJob have their types; remaining never drops below zero
\* and inFlight never exceeds the number of participants.
THEOREM TypeCorrect == WRSpec => []TypeOK
<1>1. IInv => TypeOK
  <2> SUFFICES ASSUME IInv PROVE TypeOK
    OBVIOUS
  <2>1. total \in Nat \ {0}
    BY MaxTotalAssumption DEF IInv, BaseTypes
  <2>2. remaining \in 0 .. total
    <3>1. remaining = Cardinality(IndexSet(Unretired))
      BY DEF IInv, RemainingIsExact, IndexSet
    <3> QED
      BY <2>1, <3>1, IndexSetFacts, UnretiredAreBlocks DEF IInv
  <2>3. inFlight \in 0 .. P
    <3> DEFINE S == {p \in Participants : InsideWork(p)}
    <3>1. S \subseteq Participants
      OBVIOUS
    <3>2. Cardinality(S) <= P /\ IsFiniteSet(S)
      BY <3>1, ParticipantFacts, FS_Subset
    <3>3. Cardinality(S) \in Nat
      BY <3>2, FS_CardinalityType
    <3>4. inFlight = Cardinality(S)
      BY DEF IInv, InFlightCoversWork
    <3> QED
      BY <3>2, <3>3, <3>4, PAssumption
  <2> QED
    BY <2>2, <2>3 DEF IInv, BaseTypes, TypeOK
<1> QED
  BY <1>1, Invariance, PTL

\* Two compare-exchanges never hand the same block to two participants, and a
\* block that ran is never handed out again.
THEOREM EachBlockOnce == WRSpec => []NoBlockTwice
  BY Invariance, PTL DEF IInv

\* remaining counts exactly the indices somebody still answers for, however
\* blocks are stolen, stored and given up.
THEOREM CountdownIsExact == WRSpec => []RemainingIsExact
  BY Invariance, PTL DEF IInv

\* inFlight, which the host waits on before it frees the job's lanes, counts
\* exactly the participants between the two fetch_adds of workOnJob.
THEOREM HostWaitsForEveryone == WRSpec => []InFlightCoversWork
  BY Invariance, PTL DEF IInv

\* Nobody takes the last block of a participant that has not entered the job.
THEOREM OwnerClaimsLast == WRSpec => []OwnerKeepsLastBlock
  BY Invariance, PTL DEF IInv

\* When remaining reaches 0 and nothing failed, every block has run and nobody
\* holds one: the host may read the partial results.
THEOREM ZeroMeansDone == WRSpec => []FinishedMeansAllRan
<1>1. IInv => FinishedMeansAllRan
  <2> SUFFICES ASSUME IInv, remaining = 0, ~failed
               PROVE  ran = Blocks /\ Unretired = {}
    BY DEF FinishedMeansAllRan
  <2>1. Unretired = {}
    BY NothingLeft
  <2> QED
    BY <2>1 DEF IInv, Covered, BaseTypes
<1> QED
  BY <1>1, Invariance, PTL

\* A participant that leaves a job without a failure leaves no block in its range.
THEOREM LeaversLeaveNothing == WRSpec => []NoOrphanedRange
<1>1. IInv => NoOrphanedRange
  <2> SUFFICES ASSUME IInv, NEW p \in Participants, pc[p] \in {"leave", "out"}, ~failed
               PROVE  Slot(p) = {}
    BY DEF NoOrphanedRange
  <2>1. IsEmpty(packed[p]) /\ packed[p] \in WorkerRange
    BY DEF IInv, Shapes, Shape, BaseTypes
  <2> QED
    BY <2>1, EmptyTypes DEF Slot
<1> QED
  BY <1>1, Invariance, PTL

\* The unchecked store of a stolen range never overwrites a block.
THEOREM StoreIsSafe == WRSpec => StoreOverwritesNothing
<1>1. IInv => \A p \in Participants : StoreStolen(p) => Slot(p) = {}
  BY StoreMoves DEF IInv, HalfStored
<1> QED
  BY <1>1, Invariance, PTL DEF StoreOverwritesNothing

\* An armed job is a ParallelFor with every block still to do.
LEMMA AbstractInit ==
    ASSUME WRInit
    PROVE  PF!Init
<1>1. \A p \in Participants : Slot(p) \cup Carried(p) \subseteq Nat
  <2>1. Shapes
    BY IInvInit DEF IInv
  <2> QED
    BY <2>1 DEF Shapes, Shape, Blocks
<1>2. \A p \in Participants : pc[p] # "run"
  BY DEF WRInit
<1> QED
  BY <1>1, <1>2 DEF WRInit, PF!Init, PF!Idle, None

\* Claiming a block is Start, the end of its kernel Complete, Fail or Abandon;
\* every other step of workOnJob is invisible to ParallelFor.
LEMMA AbstractStep ==
    ASSUME IInv, [WRNext]_wrVars
    PROVE  [PF!Next]_PF!pfVars
<1> DEFINE todo == UNION {Slot(q) \cup Carried(q) : q \in Participants}
           busy == [q \in Participants |-> IF pc[q] = "run" THEN blk[q] ELSE None]
<1>0. BaseTypes /\ Shapes /\ NoBlockTwice
  BY DEF IInv
<1>1. ASSUME NEW p \in Participants, Work(p)
      PROVE  \/ UNCHANGED PF!pfVars
             \/ PF!Start(p) \/ PF!Complete(p) \/ PF!Fail(p) \/ PF!Abandon(p)
  <2>1. ASSUME \A q \in Participants : Slot(q)' \cup Carried(q)' = Slot(q) \cup Carried(q)
        PROVE  todo' = todo
    BY <2>1
  <2>2. CASE Enter(p) \/ CheckFailed(p) \/ LoadOwn(p) \/ ClaimCasLoses(p) \/ LoadVictim(p)
             \/ NothingToSteal(p) \/ StealCasLoses(p) \/ Leave(p)
    <3>1. todo' = todo
      BY <1>0, <2>1, <2>2, QuietMoves DEF QuietStep, NothingMoves, Stays
    <3>2. /\ \A q \in Participants : pc[q] = "run" <=> pc'[q] = "run"
          /\ blk' = blk /\ ran' = ran /\ failed' = failed
      BY <1>0, <2>2 DEF BaseTypes, Enter, CheckFailed, LoadOwn, ClaimCasLoses, LoadVictim,
             NothingToSteal, StealCasLoses, Leave, DecideClaim, DecideSteal, Goto, jobVars
    <3> QED
      BY <3>1, <3>2 DEF PF!pfVars
  <2>3. CASE KernelDone(p) \/ KernelFail(p) \/ KernelAbort(p)
    <3>1. todo' = todo
      BY <1>0, <2>1, <2>3, QuietMoves DEF QuietStep, NothingMoves, Stays
    <3>2. /\ pc[p] = "run" /\ pc' = [pc EXCEPT ![p] = "retire"] /\ blk' = blk
          /\ blk[p] # None
      BY <1>0, <2>3 DEF KernelDone, KernelFail, KernelAbort, Goto, Shapes, Shape
    <3>3. busy[p] = blk[p] /\ busy' = [busy EXCEPT ![p] = None]
      BY <1>0, <3>2 DEF BaseTypes
    <3>4. KernelDone(p) => PF!Complete(p)
      BY <3>1, <3>2, <3>3 DEF KernelDone, PF!Complete, PF!Idle, None, jobVars
    <3>5. KernelFail(p) => PF!Fail(p)
      BY <3>1, <3>2, <3>3 DEF KernelFail, PF!Fail, PF!Idle, None
    <3>6. KernelAbort(p) => PF!Abandon(p)
      BY <3>1, <3>2, <3>3 DEF KernelAbort, PF!Abandon, PF!Idle, None, jobVars
    <3> QED
      BY <2>3, <3>4, <3>5, <3>6
  <2>4. CASE ClaimCasWins(p)
    <3>1. BlockClaimed(p)
      BY <1>0, <2>4, ClaimMoves
    <3>2. PICK x \in Slot(p) : Slot(p)' = Slot(p) \ {x} /\ Running(p)' = {x}
      BY <3>1 DEF BlockClaimed
    <3>3. todo' = todo \ {x} /\ x \in todo
      <4>1. \A q \in Participants \ {p} : x \notin Slot(q) \cup Carried(q)
        BY <1>0 DEF NoBlockTwice, Held
      <4>2. \A y : (\E q \in Participants : y \in Slot(q)' \cup Carried(q)')
                     <=> ((\E q \in Participants : y \in Slot(q) \cup Carried(q)) /\ y # x)
        BY <3>1, <3>2, <4>1 DEF BlockClaimed, Stays
      <4> QED
        BY <4>2
    <3>4. /\ pc[p] = "claimCas" /\ pc' = [pc EXCEPT ![p] = "run"]
          /\ blk' = [blk EXCEPT ![p] = x] /\ ran' = ran /\ failed' = failed
      <4>1. /\ pc[p] = "claimCas" /\ pc' = [pc EXCEPT ![p] = "run"]
            /\ blk' = [blk EXCEPT ![p] = reg[p].b] /\ ran' = ran /\ failed' = failed
        BY <2>4 DEF ClaimCasWins, Goto
      <4>2. reg[p].b = x
        BY <1>0, <3>2, <4>1 DEF Running, BaseTypes
      <4> QED
        BY <4>1, <4>2
    <3>5. busy[p] = None /\ busy' = [busy EXCEPT ![p] = x]
      BY <1>0, <3>4 DEF BaseTypes
    <3> QED
      BY <3>3, <3>4, <3>5 DEF PF!Start, PF!Idle, None
  <2>5. CASE StealCasWins(p)
    <3>1. PICK v \in Participants : HalfTaken(p, v)
      BY <1>0, <2>5, StealMoves
    <3>2. todo' = todo
      <4>1. \A y : (\E q \in Participants : y \in Slot(q)' \cup Carried(q)')
                     <=> (\E q \in Participants : y \in Slot(q) \cup Carried(q))
        BY <3>1 DEF HalfTaken, Stays
      <4> QED
        BY <4>1
    <3>3. /\ \A q \in Participants : pc[q] = "run" <=> pc'[q] = "run"
          /\ blk' = blk /\ ran' = ran /\ failed' = failed
      BY <1>0, <2>5 DEF BaseTypes, StealCasWins, Goto
    <3> QED
      BY <3>2, <3>3 DEF PF!pfVars
  <2>6. CASE StoreStolen(p)
    <3>1. todo' = todo
      BY <1>0, <2>1, <2>6, StoreMoves DEF HalfStored, Stays
    <3>2. /\ \A q \in Participants : pc[q] = "run" <=> pc'[q] = "run"
          /\ blk' = blk /\ ran' = ran /\ failed' = failed
      BY <1>0, <2>6 DEF BaseTypes, StoreStolen, Goto
    <3> QED
      BY <3>1, <3>2 DEF PF!pfVars
  <2>7. CASE Retire(p)
    <3>1. todo' = todo
      BY <1>0, <2>1, <2>7, RetireMoves DEF BlockRetired, Stays
    <3>2. /\ \A q \in Participants : pc[q] = "run" <=> pc'[q] = "run"
          /\ \A q \in Participants : pc[q] = "run" => blk'[q] = blk[q]
          /\ ran' = ran /\ failed' = failed
      BY <1>0, <2>7 DEF BaseTypes, Retire, Goto
    <3> QED
      BY <3>1, <3>2 DEF PF!pfVars
  <2> QED
    BY <1>1, <2>2, <2>3, <2>4, <2>5, <2>6, <2>7 DEF Work
<1>2. CASE UNCHANGED wrVars
  BY <1>2 DEF wrVars, jobVars, localVars, PF!pfVars, Slot, Carried
<1> QED
  BY <1>1, <1>2 DEF WRNext, Finished, PF!Next

\* The work-stealing loop implements ParallelFor.
THEOREM Refinement == WRSpec => ImplementsParallelFor
  BY AbstractInit, AbstractStep, Invariance, PTL
     DEF WRSpec, ImplementsParallelFor, PF!Spec
=============================================================================
