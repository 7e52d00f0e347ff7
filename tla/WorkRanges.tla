----------------------------- MODULE WorkRanges -----------------------------
(***************************************************************************)
(* workOnJob of vm.cpp: the participants of one armed job claim blocks     *)
(* from their own range, steal the upper half of a victim's range when     *)
(* theirs is empty, run the kernel and count the finished indices down.    *)
(*                                                                         *)
(* One action per access to shared memory: loads, compare-exchanges,       *)
(* stores and fetch_adds of different participants interleave freely.  A   *)
(* compare_exchange_weak that fails for no reason reloads the same value,  *)
(* a stuttering step, so only real failures are modelled.  The calls of    *)
(* cv_simt_done.notify_all are left out: the host waits on it with a 200us *)
(* timeout and never depends on them.  The kernel itself runs to its end,  *)
(* fails, or gives the block up after it saw failed.                       *)
(*                                                                         *)
(* A definition named Slip... is the definition below it with a plausible  *)
(* programming slip; no specification uses one, they only show which slip  *)
(* which property would catch.                                             *)
(***************************************************************************)
EXTENDS Integers, FiniteSets

CONSTANTS
    P,            \* participants: the workers 0 .. P-2 and the host P-1
    BlockSize,    \* indices per block (256 in dispatchJob)
    MaxTotal      \* bound on the number of indices of a job

ASSUME PAssumption == P \in Nat \ {0}
ASSUME BlockSizeAssumption == BlockSize \in Nat \ {0}
ASSUME MaxTotalAssumption == MaxTotal \in Nat \ {0}

VARIABLES
    packed,             \* job.ranges[p].packed, the pair (begin, end)
    remaining,          \* job.remaining, in indices
    inFlight,           \* job.inFlight
    failed,             \* job.failed
    total,              \* job.total
    participantCount,   \* job.participantCount
    ran,                \* ghost: blocks whose kernel ran for every index
    pc,                 \* where each participant is in workOnJob
    reg,                \* the range it has loaded, or stolen and not stored yet
    k,                  \* its loop variable over the victims
    victim,             \* the participant it is robbing
    blk                 \* the block it is running, or None

jobVars == <<packed, remaining, inFlight, failed, total, participantCount>>
localVars == <<pc, reg, k, victim, blk>>
wrVars == <<jobVars, ran, localVars>>

Participants == 0 .. P - 1
None == -1
Lesser(a, b) == IF a < b THEN a ELSE b

WorkerRange == [b : Nat, e : Nat]
Empty == [b |-> 0, e |-> 0]
IsEmpty(r) == r.b >= r.e
Members(r) == r.b .. r.e - 1

-----------------------------------------------------------------------------
(* Blocks and their indices                                                *)

BlockCount(n) == (n + BlockSize - 1) \div BlockSize
Blocks == 0 .. BlockCount(total) - 1

\* The indices b .. e - 1 that block x stands for; the last block may be short.
First(x) == x * BlockSize
Last(x) == Lesser(First(x) + BlockSize, total)
Indices(x) == First(x) .. Last(x) - 1
Span(x) == Last(x) - First(x)

\* The share of participant w when blocks are dealt out.
SlipInitialRange(n, w) == [b |-> (BlockCount(n) * w) \div P,         \* ends rounded up
                           e |-> (BlockCount(n) * (w + 1) + P - 1) \div P]
InitialRange(n, w) == [b |-> (BlockCount(n) * w) \div P,
                       e |-> (BlockCount(n) * (w + 1)) \div P]

\* claimOwnBlock takes the first block, stealHalf the upper half.
WithoutFirst(r) == [b |-> r.b + 1, e |-> r.e]
SlipStealOne(r) == r.e - r.b >= 1        \* a single block is stolen too
SlipStealThree(r) == r.e - r.b > 2       \* a range of two is left alone
CanSteal(r) == r.e - r.b >= 2
Mid(r) == r.b + (r.e - r.b) \div 2
SlipLowerHalf(r) == [b |-> r.b, e |-> Mid(r) + 1]   \* both keep the middle block
LowerHalf(r) == [b |-> r.b, e |-> Mid(r)]
SlipUpperHalf(r) == [b |-> Mid(r) + 1, e |-> r.e]   \* nobody keeps the middle block
UpperHalf(r) == [b |-> Mid(r), e |-> r.e]

-----------------------------------------------------------------------------
WRInit ==
    /\ total \in 1 .. MaxTotal
    /\ packed = [p \in Participants |-> InitialRange(total, p)]
    /\ remaining = total
    /\ inFlight = 0
    /\ failed = FALSE
    /\ participantCount = P
    /\ ran = {}
    /\ pc = [p \in Participants |-> "ready"]
    /\ reg = [p \in Participants |-> Empty]
    /\ k = [p \in Participants |-> 0]
    /\ victim = [p \in Participants |-> 0]
    /\ blk = [p \in Participants |-> None]

Goto(p, l) == pc' = [pc EXCEPT ![p] = l]

Enter(p) ==
    /\ pc[p] = "ready"
    /\ inFlight' = inFlight + 1
    /\ Goto(p, "top")
    /\ UNCHANGED <<packed, remaining, failed, total, participantCount, ran, reg, k, victim, blk>>

\* Slip: an early return that skips inFlight.fetch_sub.
SlipCheckFailed(p) ==
    /\ pc[p] = "top"
    /\ Goto(p, IF failed THEN "out" ELSE "claim")
    /\ UNCHANGED <<jobVars, ran, reg, k, victim, blk>>

CheckFailed(p) ==
    /\ pc[p] = "top"
    /\ Goto(p, IF failed THEN "leave" ELSE "claim")
    /\ UNCHANGED <<jobVars, ran, reg, k, victim, blk>>

\* What claimOwnBlock does with a value of its own range it has just read.
DecideClaim(p, r) ==
    \/ /\ IsEmpty(r)
       /\ reg' = [reg EXCEPT ![p] = Empty]
       /\ k' = [k EXCEPT ![p] = 1]
       /\ Goto(p, "steal")
    \/ /\ ~IsEmpty(r)
       /\ reg' = [reg EXCEPT ![p] = r]
       /\ Goto(p, "claimCas")
       /\ UNCHANGED k

LoadOwn(p) ==
    /\ pc[p] = "claim"
    /\ DecideClaim(p, packed[p])
    /\ UNCHANGED <<jobVars, ran, victim, blk>>

ClaimCasWins(p) ==
    /\ pc[p] = "claimCas"
    /\ packed[p] = reg[p]
    /\ packed' = [packed EXCEPT ![p] = WithoutFirst(reg[p])]
    /\ blk' = [blk EXCEPT ![p] = reg[p].b]
    /\ reg' = [reg EXCEPT ![p] = Empty]
    /\ Goto(p, "run")
    /\ UNCHANGED <<remaining, inFlight, failed, total, participantCount, ran, k, victim>>

\* Slip: a lost exchange is taken for an empty range.
SlipClaimCasLoses(p) ==
    /\ pc[p] = "claimCas"
    /\ packed[p] # reg[p]
    /\ DecideClaim(p, Empty)
    /\ UNCHANGED <<jobVars, ran, victim, blk>>

ClaimCasLoses(p) ==
    /\ pc[p] = "claimCas"
    /\ packed[p] # reg[p]
    /\ DecideClaim(p, packed[p])
    /\ UNCHANGED <<jobVars, ran, victim, blk>>

KernelDone(p) ==
    /\ pc[p] = "run"
    /\ ran' = ran \cup {blk[p]}
    /\ Goto(p, "retire")
    /\ UNCHANGED <<jobVars, reg, k, victim, blk>>

\* An index of the block fails: runKernelRange or isliMarkJobFailed sets failed.
KernelFail(p) ==
    /\ pc[p] = "run"
    /\ failed' = TRUE
    /\ Goto(p, "retire")
    /\ UNCHANGED <<packed, remaining, inFlight, total, participantCount, ran, reg, k, victim, blk>>

\* Slip: the index loop ends early although nothing has failed.
SlipKernelAbort(p) ==
    /\ pc[p] = "run"
    /\ Goto(p, "retire")
    /\ UNCHANGED <<jobVars, ran, reg, k, victim, blk>>

\* The index loop saw that another participant's kernel failed.
KernelAbort(p) ==
    /\ pc[p] = "run"
    /\ failed
    /\ Goto(p, "retire")
    /\ UNCHANGED <<jobVars, ran, reg, k, victim, blk>>

\* The whole block is counted down, also when its kernel stopped half way.
Retire(p) ==
    /\ pc[p] = "retire"
    /\ remaining' = remaining - Span(blk[p])
    /\ blk' = [blk EXCEPT ![p] = None]
    /\ Goto(p, "top")
    /\ UNCHANGED <<packed, inFlight, failed, total, participantCount, ran, reg, k, victim>>

\* What stealHalf does with a value r of the range of v it has just read.
DecideSteal(p, v, r) ==
    \/ /\ ~CanSteal(r)
       /\ reg' = [reg EXCEPT ![p] = Empty]
       /\ k' = [k EXCEPT ![p] = @ + 1]
       /\ victim' = [victim EXCEPT ![p] = 0]
       /\ Goto(p, "steal")
    \/ /\ CanSteal(r)
       /\ reg' = [reg EXCEPT ![p] = r]
       /\ victim' = [victim EXCEPT ![p] = v]
       /\ Goto(p, "stealCas")
       /\ UNCHANGED k

LoadVictim(p) ==
    /\ pc[p] = "steal"
    /\ k[p] < participantCount
    /\ LET v == (p + k[p]) % participantCount IN DecideSteal(p, v, packed[v])
    /\ UNCHANGED <<jobVars, ran, blk>>

NothingToSteal(p) ==
    /\ pc[p] = "steal"
    /\ k[p] >= participantCount
    /\ k' = [k EXCEPT ![p] = 0]
    /\ Goto(p, "leave")
    /\ UNCHANGED <<jobVars, ran, reg, victim, blk>>

StealCasWins(p) ==
    /\ pc[p] = "stealCas"
    /\ packed[victim[p]] = reg[p]
    /\ packed' = [packed EXCEPT ![victim[p]] = LowerHalf(reg[p])]
    /\ reg' = [reg EXCEPT ![p] = UpperHalf(reg[p])]
    /\ k' = [k EXCEPT ![p] = 0]
    /\ victim' = [victim EXCEPT ![p] = 0]
    /\ Goto(p, "store")
    /\ UNCHANGED <<remaining, inFlight, failed, total, participantCount, ran, blk>>

StealCasLoses(p) ==
    /\ pc[p] = "stealCas"
    /\ packed[victim[p]] # reg[p]
    /\ DecideSteal(p, victim[p], packed[victim[p]])
    /\ UNCHANGED <<jobVars, ran, blk>>

\* A plain store: nobody checks that the own range is still empty.
StoreStolen(p) ==
    /\ pc[p] = "store"
    /\ packed' = [packed EXCEPT ![p] = reg[p]]
    /\ reg' = [reg EXCEPT ![p] = Empty]
    /\ Goto(p, "top")
    /\ UNCHANGED <<remaining, inFlight, failed, total, participantCount, ran, k, victim, blk>>

Leave(p) ==
    /\ pc[p] = "leave"
    /\ inFlight' = inFlight - 1
    /\ Goto(p, "out")
    /\ UNCHANGED <<packed, remaining, failed, total, participantCount, ran, reg, k, victim, blk>>

Work(p) ==
    \/ Enter(p)
    \/ CheckFailed(p)
    \/ LoadOwn(p)
    \/ ClaimCasWins(p)
    \/ ClaimCasLoses(p)
    \/ KernelDone(p)
    \/ KernelFail(p)
    \/ KernelAbort(p)
    \/ Retire(p)
    \/ LoadVictim(p)
    \/ NothingToSteal(p)
    \/ StealCasWins(p)
    \/ StealCasLoses(p)
    \/ StoreStolen(p)
    \/ Leave(p)

AllOut == \A p \in Participants : pc[p] = "out"
Finished == AllOut /\ UNCHANGED wrVars

WRNext == (\E p \in Participants : Work(p)) \/ Finished

WRSpec == WRInit /\ [][WRNext]_wrVars

\* A thread of the pool is never descheduled for ever, except perhaps one: the
\* worker that wakes up late.
Late == 0
WRFairSpec == WRSpec /\ \A p \in Participants \ {Late} : WF_wrVars(Work(p))

-----------------------------------------------------------------------------
(* Who answers for which blocks                                            *)

Labels == {"ready", "top", "claim", "claimCas", "run", "retire", "steal",
           "stealCas", "store", "leave", "out"}

Slot(p) == Members(packed[p])
Carried(p) == IF pc[p] = "store" THEN Members(reg[p]) ELSE {}
Running(p) == IF pc[p] \in {"run", "retire"} THEN {blk[p]} ELSE {}
Held(p) == Slot(p) \cup Carried(p) \cup Running(p)
Unretired == UNION {Held(p) : p \in Participants}
JobFinished == failed \/ remaining = 0
InsideWork(p) == pc[p] \notin {"ready", "out"}

TypeOK ==
    /\ packed \in [Participants -> WorkerRange]
    /\ total \in 1 .. MaxTotal
    /\ remaining \in 0 .. total
    /\ inFlight \in 0 .. P
    /\ failed \in BOOLEAN
    /\ participantCount = P
    /\ ran \subseteq Blocks
    /\ pc \in [Participants -> Labels]
    /\ reg \in [Participants -> WorkerRange]
    /\ k \in [Participants -> 0 .. P]
    /\ victim \in [Participants -> Participants]
    /\ blk \in [Participants -> Blocks \cup {None}]

\* A block is in one range, in one thief's hands or run by one participant,
\* never in two of these; a block that ran is gone from every range.
NoBlockTwice ==
    /\ \A p, q \in Participants : p # q => Held(p) \cap Held(q) = {}
    /\ \A p \in Participants :
        /\ Slot(p) \cap Carried(p) = {}
        /\ (Slot(p) \cup Carried(p)) \cap Running(p) = {}
        /\ (Slot(p) \cup Carried(p)) \cap ran = {}

\* remaining counts exactly the indices of the blocks somebody still answers
\* for: stealing and storing never lose or invent any.
RemainingIsExact ==
    remaining = Cardinality(UNION {Indices(x) : x \in Unretired})

\* The host's test to stop waiting: when nothing failed and remaining is 0,
\* every block has run, and no participant runs or holds one any more, so the
\* partial results may be read.
FinishedMeansAllRan ==
    (remaining = 0 /\ ~failed) => (ran = Blocks /\ Unretired = {})

\* A participant that leaves a job that has not failed leaves no block behind.
NoOrphanedRange ==
    \A p \in Participants :
        (pc[p] \in {"leave", "out"} /\ ~failed) => Slot(p) = {}

\* The plain store of a stolen range overwrites an empty range only.
StoreOverwritesNothing ==
    [][\A p \in Participants : StoreStolen(p) => Slot(p) = {}]_wrVars

\* The host's second wait: once inFlight is 0 nobody who has entered the job
\* is still touching it.
InFlightCoversWork ==
    inFlight = Cardinality({p \in Participants : InsideWork(p)})

\* Nobody takes the last block of a range but its owner: a worker that never
\* enters the job keeps a block the job cannot finish without.
OwnerKeepsLastBlock ==
    \A p \in Participants :
        (pc[p] = "ready" /\ ~IsEmpty(InitialRange(total, p))) => ~IsEmpty(packed[p])

\* When the late worker runs too, every participant gets out of workOnJob for
\* good, and then the host's wait condition holds: stealing does not pass the
\* same blocks around for ever.
JobGetsFinished == WF_wrVars(Work(Late)) => <>[](AllOut /\ JobFinished)

\* When one worker never gets to run, the others still take over its share,
\* all but the one block it alone may claim.
OthersTakeTheRest ==
    [](pc[Late] = "ready") => <>[](failed \/ Cardinality(Slot(Late)) <= 1)

PF == INSTANCE ParallelFor WITH
        todo <- UNION {Slot(p) \cup Carried(p) : p \in Participants},
        busy <- [p \in Participants |-> IF pc[p] = "run" THEN blk[p] ELSE None]

\* The work-stealing loop hands out blocks the way ParallelFor promises.
ImplementsParallelFor == PF!Spec
=============================================================================
