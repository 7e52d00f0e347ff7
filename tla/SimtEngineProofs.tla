--------------------------- MODULE SimtEngineProofs ---------------------------
(***************************************************************************)
(* Proofs about SimtEngine, for any number of participants, any block size *)
(* and any number of dispatches: kernels run only while their job is live, *)
(* a worker joins an armed job only, and a block is started once.          *)
(*                                                                         *)
(* From the moment the epoch is counted up, a dispatch is an execution of  *)
(* WorkRanges in which a worker that has not taken the job yet is "ready". *)
(* So the invariant of WorkRanges is used, not proved again: W is          *)
(* WorkRangesProofs with pc seen that way.  What is new here is that every *)
(* worker takes every job once, which the host counts with seen, and that  *)
(* nobody finds anything to do after the host's wait for inFlight.         *)
(***************************************************************************)
EXTENDS SimtEngine, WorkRangesProofs

-----------------------------------------------------------------------------
(* 1. The inductive invariant *)

FillPlaces == {"fillFailed", "fillRemaining", "fillInFlight", "fillSeen", "fillParticipants",
               "setParticipants", "deal", "rearm", "bumpEpoch"}
LivePlaces == {"publish", "notify", "finished", "inFlight", "seen"}
RestPlaces == {"clear", "reduce", "idle", "join", "stopped"}

Filling == hpc \in FillPlaces
Live == hpc \in LivePlaces                       \* the job's epoch is out, not all took it
Over == hpc \in RestPlaces \cup {"seen"}         \* after the wait for inFlight

WorkerPlaces == {"poll", "pollEpoch", "see", "lock", "pred", "predEpoch", "blocking", "asleep",
                 "check", "checkEpoch", "exited"}

\* The worker has not been counted in seen for the present epoch.
Untaken(w) == lastEpoch[w] # jobEpoch \/ wpc[w] = "see"

\* Where each participant is in the present dispatch.
NotEntered(p) == IF p = Host THEN hpc \in {"publish", "notify"} ELSE Untaken(p)
place == [p \in Participants |-> IF NotEntered(p) THEN "ready" ELSE pc[p]]

W == INSTANCE WorkRangesProofs WITH pc <- place

Types ==
    /\ packed \in [Participants -> WorkerRange] /\ reg \in [Participants -> WorkerRange]
    /\ k \in [Participants -> Int] /\ victim \in [Participants -> Int]
    /\ blk \in [Participants -> Int] /\ pc \in [Participants -> Labels]
    /\ total \in 0 .. MaxTotal /\ jobEpoch \in Nat
    /\ wpc \in [Workers -> WorkerPlaces] /\ lastEpoch \in [Workers -> Nat]
    /\ hpc \in FillPlaces \cup LivePlaces \cup RestPlaces /\ dealt \in Participants

\* A participant has registers only where it needs them.
Tidy(p) ==
    /\ pc[p] \notin {"claimCas", "stealCas", "store"} => reg[p] = Empty
    /\ pc[p] \notin {"steal", "stealCas"} => k[p] = 0
    /\ pc[p] # "stealCas" => victim[p] = 0
    /\ pc[p] \notin {"run", "retire"} => blk[p] = None

\* Every worker takes every job once.
EpochInv ==
    /\ \A w \in Workers : wpc[w] = "see" => lastEpoch[w] = jobEpoch
    /\ Live => seen = Cardinality({w \in Workers : ~Untaken(w)})
    /\ ~Live => \A w \in Workers : ~Untaken(w)
    /\ hpc \in {"fillParticipants", "setParticipants", "deal", "rearm", "bumpEpoch"} => seen = 0

\* Who can be inside workOnJob.
PlaceInv ==
    /\ hpc # "finished" => pc[Host] = "out"
    /\ \A w \in Workers : Untaken(w) => pc[w] = "out"
    /\ Filling \/ total = 0 => \A p \in Participants : pc[p] = "out"

\* How far the job is filled.
FillInv ==
    /\ total = 0 => hpc \in {"idle", "join", "stopped"}
    /\ Filling => ran = {}
    /\ Filling /\ hpc # "fillFailed" => failed = FALSE
    /\ hpc = "bumpEpoch" => remaining = total
    /\ hpc \in {"fillSeen", "fillParticipants", "setParticipants", "deal", "rearm", "bumpEpoch"}
          => inFlight = 0
    /\ hpc \in {"deal", "rearm", "bumpEpoch"} => participantCount = P
    /\ hpc = "deal" => \A p \in Participants : p < dealt => packed[p] = InitialRange(total, p)
    /\ hpc \in {"rearm", "bumpEpoch"} =>
          \A p \in Participants : packed[p] = InitialRange(total, p)
    /\ hpc # "deal" => dealt = 0

\* A filled job is a run of WorkRanges.
JobInv == ~Filling /\ total # 0 => W!IInv

\* Where a participant can be that finds the job finished.
Harmless(p) ==
    pc[p] \in {"ready", "top", "leave", "out"} \cup (IF failed THEN {} ELSE {"claim", "steal"})

\* Nothing is left to do, and after the wait for inFlight nobody is at it.
OverInv ==
    /\ Over \/ hpc = "inFlight" => failed \/ remaining = 0
    /\ Over => \A p \in Participants : Harmless(p)

EngineInv ==
    /\ Types /\ (\A p \in Participants : Tidy(p))
    /\ EpochInv /\ PlaceInv /\ FillInv /\ JobInv /\ OverInv

\* Nothing is claimed once a straggler got into the next dispatch.
SEInv == ~overlap => EngineInv

-----------------------------------------------------------------------------
(* 2. Participants, and what W makes of them *)

LEMMA Threads ==
    /\ Host \in Participants /\ Workers = Participants \ {Host}
    /\ IsFiniteSet(Workers) /\ Cardinality(Workers) = WorkerCount /\ WorkerCount \in Nat
    /\ \A p \in Participants : p \in Nat /\ p < P
<1>1. /\ Host \in Participants /\ Workers = Participants \ {Host} /\ WorkerCount \in Nat
      /\ \A p \in Participants : p \in Nat /\ p < P
  BY PAssumption DEF Host, Participants, Workers, WorkerCount
<1>2. IsFiniteSet(Workers) /\ Cardinality(Workers) = WorkerCount
  <2>1. \A a, b \in Int : /\ IsFiniteSet(a .. b)
                          /\ Cardinality(a .. b) = IF a > b THEN 0 ELSE b - a + 1
    BY FS_Interval
  <2>2. 0 \in Int /\ P - 2 \in Int /\ P - 1 = IF 0 > P - 2 THEN 0 ELSE P - 2 - 0 + 1
    BY PAssumption
  <2>3. QED
    BY <2>1, <2>2 DEF Workers, WorkerCount
<1>3. QED
  BY <1>1, <1>2

LEMMA SameNames ==
    /\ W!Participants = Participants /\ W!WorkerRange = WorkerRange /\ W!None = None
    /\ W!Blocks = Blocks /\ (\A r : W!IsEmpty(r) = IsEmpty(r))
BY DEF W!Participants, Participants, W!WorkerRange, WorkerRange, W!None, None, W!Blocks, Blocks,
       W!BlockCount, BlockCount, W!IsEmpty, IsEmpty

\* Only who is inside workOnJob takes a step of it, and goes to another place.
LEMMA WorkGoes ==
    ASSUME NEW p \in Participants, Work(p)
    PROVE  pc[p] # "out" /\ \E l \in Labels \ {"ready"} : Goto(p, l)
BY DEF Work, Enter, CheckFailed, LoadOwn, ClaimCasWins, ClaimCasLoses, DecideClaim, KernelDone,
       KernelFail, KernelAbort, Retire, LoadVictim, NothingToSteal, DecideSteal, StealCasWins,
       StealCasLoses, StoreStolen, Leave, Labels

\* What is true of an armed job is true in the next state, too.
LEMMA ArmedJob == W!WRInit => W!IInv
BY W!IInvInit, PAssumption, BlockSizeAssumption, MaxTotalAssumption

LEMMA ArmedJobPrimed == W!WRInit' => W!IInv'
BY ArmedJob, PTL

\* A step of workOnJob is one of W when its participant has entered.
LEMMA SameWork ==
    ASSUME pc \in [Participants -> Labels], NEW p \in Participants, ~NotEntered(p),
           Work(p), UNCHANGED engineVars
    PROVE  W!Work(p)
<1>1. place[p] = pc[p]
  BY DEF place
<1>2. ASSUME NEW l, Goto(p, l) PROVE W!Goto(p, l)
  <2>1. \A q \in Participants : NotEntered(q)' = NotEntered(q)
    BY DEF NotEntered, Untaken, engineVars, hostVars, workerVars, schedVars
  <2>2. pc' = [pc EXCEPT ![p] = l]
    BY <1>2 DEF Goto
  <2>3. place' = [q \in Participants |-> IF NotEntered(q) THEN "ready" ELSE pc'[q]]
    BY <2>1 DEF place
  <2>4. place' = [place EXCEPT ![p] = l]
    BY <2>2, <2>3 DEF place
  <2>5. QED
    BY <2>4 DEF W!Goto
<1>3. /\ W!jobVars = jobVars /\ W!jobVars' = jobVars' /\ W!Empty = Empty /\ W!None = None
      /\ \A r : /\ W!IsEmpty(r) = IsEmpty(r) /\ W!CanSteal(r) = CanSteal(r)
               /\ W!WithoutFirst(r) = WithoutFirst(r) /\ W!UpperHalf(r) = UpperHalf(r)
               /\ W!LowerHalf(r) = LowerHalf(r)
      /\ \A x : W!Span(x) = Span(x)
  BY DEF W!jobVars, jobVars, W!Empty, Empty, W!None, None, W!IsEmpty, IsEmpty, W!CanSteal, CanSteal,
         W!WithoutFirst, WithoutFirst, W!UpperHalf, UpperHalf, W!LowerHalf, LowerHalf, W!Mid, Mid,
         W!Span, Span, W!Last, Last, W!First, First, W!Lesser, Lesser
<1>4. \A r : DecideClaim(p, r) => W!DecideClaim(p, r)
  BY <1>2, <1>3 DEF DecideClaim, W!DecideClaim
<1>5. \A v, r : DecideSteal(p, v, r) => W!DecideSteal(p, v, r)
  BY <1>2, <1>3 DEF DecideSteal, W!DecideSteal
<1>6. CASE Enter(p) \/ CheckFailed(p)
  <2>1. Enter(p) => W!Enter(p)
    BY <1>1, <1>2 DEF Enter, W!Enter
  <2>2. CheckFailed(p) => W!CheckFailed(p)
    BY <1>1, <1>2, <1>3 DEF CheckFailed, W!CheckFailed
  <2>3. QED
    BY <1>6, <2>1, <2>2 DEF W!Work
<1>7. CASE LoadOwn(p) \/ ClaimCasWins(p) \/ ClaimCasLoses(p)
  <2>1. LoadOwn(p) => W!LoadOwn(p)
    BY <1>1, <1>3, <1>4 DEF LoadOwn, W!LoadOwn
  <2>2. ClaimCasWins(p) => W!ClaimCasWins(p)
    BY <1>1, <1>2, <1>3 DEF ClaimCasWins, W!ClaimCasWins
  <2>3. ClaimCasLoses(p) => W!ClaimCasLoses(p)
    BY <1>1, <1>3, <1>4 DEF ClaimCasLoses, W!ClaimCasLoses
  <2>4. QED
    BY <1>7, <2>1, <2>2, <2>3 DEF W!Work
<1>8. CASE KernelDone(p) \/ KernelFail(p) \/ KernelAbort(p) \/ Retire(p)
  <2>1. KernelDone(p) => W!KernelDone(p)
    BY <1>1, <1>2, <1>3 DEF KernelDone, W!KernelDone
  <2>2. KernelFail(p) => W!KernelFail(p)
    BY <1>1, <1>2 DEF KernelFail, W!KernelFail
  <2>3. KernelAbort(p) => W!KernelAbort(p)
    BY <1>1, <1>2, <1>3 DEF KernelAbort, W!KernelAbort
  <2>4. Retire(p) => W!Retire(p)
    BY <1>1, <1>2, <1>3 DEF Retire, W!Retire
  <2>5. QED
    BY <1>8, <2>1, <2>2, <2>3, <2>4 DEF W!Work
<1>9. CASE LoadVictim(p) \/ NothingToSteal(p) \/ StealCasWins(p) \/ StealCasLoses(p)
  <2>1. LoadVictim(p) => W!LoadVictim(p)
    BY <1>1, <1>3, <1>5 DEF LoadVictim, W!LoadVictim
  <2>2. NothingToSteal(p) => W!NothingToSteal(p)
    BY <1>1, <1>2, <1>3 DEF NothingToSteal, W!NothingToSteal
  <2>3. StealCasWins(p) => W!StealCasWins(p)
    BY <1>1, <1>2, <1>3 DEF StealCasWins, W!StealCasWins
  <2>4. StealCasLoses(p) => W!StealCasLoses(p)
    BY <1>1, <1>3, <1>5 DEF StealCasLoses, W!StealCasLoses
  <2>5. QED
    BY <1>9, <2>1, <2>2, <2>3, <2>4 DEF W!Work
<1>10. CASE StoreStolen(p) \/ Leave(p)
  <2>1. StoreStolen(p) => W!StoreStolen(p)
    BY <1>1, <1>2, <1>3 DEF StoreStolen, W!StoreStolen
  <2>2. Leave(p) => W!Leave(p)
    BY <1>1, <1>2 DEF Leave, W!Leave
  <2>3. QED
    BY <1>10, <2>1, <2>2 DEF W!Work
<1>11. QED
  BY <1>6, <1>7, <1>8, <1>9, <1>10 DEF Work

-----------------------------------------------------------------------------
(* 3. Steps inside workOnJob *)

\* Registers are empty again where they are not needed.
LEMMA TidyKept ==
    ASSUME Types, \A p \in Participants : Tidy(p), NEW p \in Participants, Work(p)
    PROVE  \A q \in Participants : Tidy(q)'
<1>1. /\ reg \in [Participants -> WorkerRange] /\ k \in [Participants -> Int]
      /\ victim \in [Participants -> Int] /\ blk \in [Participants -> Int]
      /\ pc \in [Participants -> Labels]
  BY DEF Types
<1>2. ASSUME NEW q \in Participants \ {p} PROVE Tidy(q)'
  <2>1. /\ pc'[q] = pc[q] /\ reg'[q] = reg[q] /\ k'[q] = k[q]
        /\ victim'[q] = victim[q] /\ blk'[q] = blk[q]
    BY <1>1 DEF Work, Enter, CheckFailed, LoadOwn, ClaimCasWins, ClaimCasLoses, DecideClaim,
           KernelDone, KernelFail, KernelAbort, Retire, LoadVictim, NothingToSteal, DecideSteal,
           StealCasWins, StealCasLoses, StoreStolen, Leave, Goto
  <2>2. QED
    BY <2>1 DEF Tidy
<1>3. Tidy(p)'
  <2> USE <1>1 DEF Tidy, Goto
  <2>1. CASE Enter(p) \/ CheckFailed(p) \/ Leave(p)
    BY <2>1 DEF Enter, CheckFailed, Leave
  <2>2. CASE LoadOwn(p) \/ ClaimCasLoses(p)
    BY <2>2 DEF LoadOwn, ClaimCasLoses, DecideClaim
  <2>3. CASE ClaimCasWins(p)
    BY <2>3 DEF ClaimCasWins
  <2>4. CASE KernelDone(p) \/ KernelFail(p) \/ KernelAbort(p) \/ Retire(p)
    BY <2>4 DEF KernelDone, KernelFail, KernelAbort, Retire, jobVars
  <2>5. CASE LoadVictim(p) \/ StealCasLoses(p)
    <3>1. \E v, r : DecideSteal(p, v, r)
      BY <2>5 DEF LoadVictim, StealCasLoses
    <3>2. blk' = blk /\ pc[p] \in {"steal", "stealCas"}
      BY <2>5 DEF LoadVictim, StealCasLoses
    <3>3. QED
      BY <3>1, <3>2 DEF DecideSteal
  <2>6. CASE NothingToSteal(p) \/ StealCasWins(p) \/ StoreStolen(p)
    BY <2>6 DEF NothingToSteal, StealCasWins, StoreStolen
  <2>7. QED
    BY <2>1, <2>2, <2>3, <2>4, <2>5, <2>6 DEF Work
<1>4. QED
  BY <1>2, <1>3

\* Who comes late finds the job failed, or nothing to take.
LEMMA LateFindsNothing ==
    ASSUME pc \in [Participants -> Labels], NEW p \in Participants, Work(p),
           \A q \in Participants : Harmless(q), participantCount = P, k[p] \in Int,
           ~failed => \A q \in Participants : IsEmpty(packed[q]),
           packed \in [Participants -> WorkerRange]
    PROVE  \A q \in Participants : Harmless(q)'
<1>1. /\ pc[p] \in {"ready", "top", "leave", "out", "claim", "steal"}
      /\ failed => pc[p] \notin {"claim", "steal"}
  BY DEF Harmless
<1>2. failed' = failed
  BY <1>1 DEF Work, Enter, CheckFailed, LoadOwn, ClaimCasWins, ClaimCasLoses, KernelDone,
         KernelFail, KernelAbort, Retire, LoadVictim, NothingToSteal, StealCasWins,
         StealCasLoses, StoreStolen, Leave, jobVars
<1>3. ASSUME NEW q \in Participants \ {p} PROVE Harmless(q)'
  <2>1. pc'[q] = pc[q]
    BY WorkGoes DEF Goto
  <2>2. QED
    BY <1>2, <2>1 DEF Harmless
<1>4. Harmless(p)'
  <2>1. CASE Enter(p) \/ CheckFailed(p) \/ Leave(p) \/ NothingToSteal(p)
    BY <1>2, <2>1 DEF Enter, CheckFailed, Leave, NothingToSteal, Goto, Harmless
  <2>2. CASE LoadOwn(p)
    <3>1. IsEmpty(packed[p]) /\ ~failed
      BY <1>1, <2>2 DEF LoadOwn
    <3>2. QED
      BY <1>2, <2>2, <3>1 DEF LoadOwn, DecideClaim, Goto, Harmless
  <2>3. CASE LoadVictim(p)
    <3> DEFINE v == (p + k[p]) % participantCount
    <3>1. v \in Participants
      <4>1. p + k[p] \in Int
        BY Threads
      <4>2. QED
        BY <4>1, PAssumption DEF Participants
    <3>2. IsEmpty(packed[v]) /\ ~failed /\ packed[v] \in WorkerRange
      BY <1>1, <2>3, <3>1 DEF LoadVictim
    <3>3. ~CanSteal(packed[v])
      BY <3>2 DEF CanSteal, IsEmpty, WorkerRange
    <3>4. DecideSteal(p, v, packed[v])
      BY <2>3 DEF LoadVictim
    <3>5. pc' = [pc EXCEPT ![p] = "steal"]
      BY <3>3, <3>4 DEF DecideSteal, Goto
    <3>6. QED
      BY <1>2, <3>2, <3>5 DEF Harmless
  <2>4. QED
    BY <1>1, <2>1, <2>2, <2>3 DEF Work, ClaimCasWins, ClaimCasLoses, KernelDone, KernelFail,
       KernelAbort, Retire, StealCasWins, StealCasLoses, StoreStolen
<1>5. QED
  BY <1>3, <1>4

LEMMA WorkKeeps ==
    ASSUME EngineInv, NEW p \in Participants, InsideJob(p)
    PROVE  EngineInv'
<1>1. Work(p) /\ UNCHANGED engineVars /\ pc[p] # "out"
  BY WorkGoes DEF InsideJob
<1>2. ~Filling /\ total # 0 /\ ~NotEntered(p) /\ (p = Host => hpc = "finished")
  BY <1>1, Threads DEF EngineInv, PlaceInv, NotEntered
<1>3. /\ UNCHANGED <<jobEpoch, seen, wpc, lastEpoch, hpc, dealt>>
      /\ total' = total /\ participantCount' = participantCount
  <2>1. UNCHANGED <<jobEpoch, seen, wpc, lastEpoch, hpc, dealt>>
    BY <1>1 DEF engineVars, schedVars, workerVars, hostVars
  <2>2. total' = total /\ participantCount' = participantCount
    BY <1>1 DEF Work, Enter, CheckFailed, LoadOwn, ClaimCasWins, ClaimCasLoses, KernelDone,
           KernelFail, KernelAbort, Retire, LoadVictim, NothingToSteal, StealCasWins,
           StealCasLoses, StoreStolen, Leave, jobVars
  <2>3. QED
    BY <2>1, <2>2
<1>4. W!IInv /\ W!Work(p) /\ Types
  BY <1>1, <1>2, SameWork DEF EngineInv, JobInv, Types
<1>5. W!IInv'
  <2>1. [W!WRNext]_W!wrVars
    BY <1>4, SameNames DEF W!WRNext
  <2>2. QED
    BY <1>4, <2>1, W!IInvStep, PAssumption, BlockSizeAssumption, MaxTotalAssumption
<1>6. Types'
  <2>1. /\ packed' \in [Participants -> WorkerRange] /\ reg' \in [Participants -> WorkerRange]
        /\ k' \in [Participants -> 0 .. P] /\ victim' \in [Participants -> Participants]
        /\ blk' \in [Participants -> Blocks' \cup {None}]
    <3>1. W!Blocks' = Blocks' /\ W!None = None
      BY DEF W!Blocks, Blocks, W!BlockCount, BlockCount, W!None, None
    <3>2. QED
      BY <1>5, <3>1, SameNames DEF W!IInv, W!BaseTypes
  <2>2. Participants \subseteq Int /\ 0 .. P \subseteq Int /\ Blocks' \cup {None} \subseteq Int
    BY DEF Participants, Blocks, None
  <2>3. /\ k' \in [Participants -> Int] /\ victim' \in [Participants -> Int]
        /\ blk' \in [Participants -> Int]
    BY <2>1, <2>2
  <2>4. pc' \in [Participants -> Labels]
    BY <1>1, <1>4, WorkGoes DEF Types, Goto
  <2>5. QED
    BY <1>3, <1>4, <2>1, <2>3, <2>4 DEF Types
<1>7. \A q \in Participants : Tidy(q)'
  BY <1>1, <1>4, TidyKept DEF EngineInv
<1>8. EpochInv'
  BY <1>3 DEF EngineInv, EpochInv, Live, Untaken
<1>9. PlaceInv'
  <2>1. \A q \in Participants \ {p} : pc'[q] = pc[q]
    BY <1>1, <1>4, WorkGoes DEF Types, Goto
  <2>2. QED
    BY <1>2, <1>3, <2>1, Threads DEF EngineInv, PlaceInv, Filling, Untaken, NotEntered
<1>10. FillInv'
  BY <1>2, <1>3 DEF EngineInv, FillInv, Filling, FillPlaces
<1>11. JobInv'
  BY <1>5 DEF JobInv
<1>12. OverInv'
  <2>1. ASSUME Over \/ hpc = "inFlight" PROVE failed' \/ remaining' = 0
    <3>1. W!JobFinished
      BY <2>1 DEF EngineInv, OverInv, W!JobFinished
    <3>2. W!JobFinished'
      BY <1>4, <3>1, SameNames, W!FinishedStays, PAssumption, BlockSizeAssumption,
         MaxTotalAssumption
    <3>3. QED
      BY <3>2 DEF W!JobFinished
  <2>2. ASSUME Over PROVE \A q \in Participants : Harmless(q)'
    <3>1. ~failed => \A q \in Participants : IsEmpty(packed[q])
      BY <1>4, <2>2, SameNames, W!NothingLeft, PAssumption, BlockSizeAssumption, MaxTotalAssumption
         DEF EngineInv, OverInv
    <3>2. participantCount = P /\ k[p] \in Int
      BY <1>4 DEF W!IInv, W!BaseTypes, Types
    <3>3. QED
      BY <1>1, <1>4, <2>2, <3>1, <3>2, LateFindsNothing DEF EngineInv, OverInv, Types
  <2>3. QED
    BY <1>3, <2>1, <2>2 DEF OverInv, Over
<1>13. QED
  BY <1>6, <1>7, <1>8, <1>9, <1>10, <1>11, <1>12 DEF EngineInv

-----------------------------------------------------------------------------
(* 4. Steps of the worker's loop *)

\* A step that nobody in workOnJob notices keeps what W says.
LEMMA JobStays ==
    ASSUME W!IInv, UNCHANGED <<jobVars, ran, reg, k, victim, blk, place>>
    PROVE  W!IInv'
<1>1. UNCHANGED W!wrVars
  BY DEF W!wrVars, W!jobVars, W!localVars, jobVars
<1>2. QED
  BY <1>1, W!IInvStep, PAssumption, BlockSizeAssumption, MaxTotalAssumption

\* A step after which the same workers have not taken the job.
LEMMA LoopKeeps ==
    ASSUME EngineInv,
           UNCHANGED <<jobVars, ran, pc, reg, k, victim, blk, jobEpoch, seen, hpc, dealt>>,
           wpc' \in [Workers -> WorkerPlaces], lastEpoch' \in [Workers -> Nat],
           \A w \in Workers : /\ Untaken(w)' = Untaken(w)
                              /\ wpc'[w] = "see" => lastEpoch'[w] = jobEpoch
    PROVE  EngineInv'
<1>1. UNCHANGED <<packed, remaining, inFlight, failed, total, participantCount>>
  BY DEF jobVars
<1>2. Types'
  BY <1>1 DEF EngineInv, Types
<1>3. \A p \in Participants : Tidy(p)'
  BY DEF EngineInv, Tidy
<1>4. EpochInv'
  <2>1. {w \in Workers : ~Untaken(w)}' = {w \in Workers : ~Untaken(w)}
    OBVIOUS
  <2>2. QED
    BY <2>1 DEF EngineInv, EpochInv, Live
<1>5. PlaceInv'
  BY <1>1 DEF EngineInv, PlaceInv, Filling
<1>6. FillInv'
  BY <1>1 DEF EngineInv, FillInv, Filling
<1>7. JobInv'
  <2>1. place' = place
    BY Threads DEF place, NotEntered
  <2>2. QED
    BY <1>1, <2>1, JobStays DEF EngineInv, JobInv, Filling
<1>8. OverInv'
  BY <1>1 DEF EngineInv, OverInv, Over, Harmless
<1>9. QED
  BY <1>2, <1>3, <1>4, <1>5, <1>6, <1>7, <1>8 DEF EngineInv

\* The worker goes elsewhere in its loop, without having taken a job.
LEMMA LoopGoes ==
    ASSUME EngineInv, NEW w \in Workers, wpc[w] # "see", NEW l \in WorkerPlaces \ {"see"},
           WGoto(w, l), LoopUnchanged, UNCHANGED <<pc, lastEpoch, seen>>
    PROVE  EngineInv'
<1>1. UNCHANGED <<jobVars, ran, pc, reg, k, victim, blk, jobEpoch, seen, hpc, dealt>>
  BY DEF LoopUnchanged, schedVars, hostVars
<1>2. wpc \in [Workers -> WorkerPlaces] /\ lastEpoch' \in [Workers -> Nat]
  BY DEF EngineInv, Types
<1>3. wpc' = [wpc EXCEPT ![w] = l] /\ wpc' \in [Workers -> WorkerPlaces]
  BY <1>2 DEF WGoto
<1>4. \A v \in Workers : wpc'[v] = "see" <=> wpc[v] = "see"
  BY <1>2, <1>3
<1>5. \A v \in Workers : Untaken(v)' = Untaken(v) /\ (wpc'[v] = "see" => lastEpoch'[v] = jobEpoch)
  BY <1>1, <1>4 DEF Untaken, EngineInv, EpochInv
<1>6. QED
  BY <1>1, <1>2, <1>3, <1>5, LoopKeeps

\* The worker takes the job of the present epoch.
LEMMA LoopTakes ==
    ASSUME EngineInv, NEW w \in Workers, wpc[w] # "see", NEW l \in WorkerPlaces \ {"see"},
           TakeOrElse(w, l), LoopUnchanged, UNCHANGED <<pc, seen>>
    PROVE  EngineInv'
<1>1. CASE WGoto(w, l) /\ UNCHANGED lastEpoch
  BY <1>1, LoopGoes
<1>2. CASE NewJob(w) /\ WGoto(w, "see") /\ lastEpoch' = [lastEpoch EXCEPT ![w] = jobEpoch]
  <2>1. UNCHANGED <<jobVars, ran, pc, reg, k, victim, blk, jobEpoch, seen, hpc, dealt>>
    BY DEF LoopUnchanged, schedVars, hostVars
  <2>2. /\ wpc \in [Workers -> WorkerPlaces] /\ lastEpoch \in [Workers -> Nat] /\ jobEpoch \in Nat
    BY DEF EngineInv, Types
  <2>3. wpc' = [wpc EXCEPT ![w] = "see"] /\ "see" \in WorkerPlaces
    BY <1>2 DEF WGoto, WorkerPlaces
  <2>4. wpc' \in [Workers -> WorkerPlaces] /\ lastEpoch' \in [Workers -> Nat]
    BY <1>2, <2>2, <2>3
  <2>5. ASSUME NEW v \in Workers
        PROVE  Untaken(v)' = Untaken(v) /\ (wpc'[v] = "see" => lastEpoch'[v] = jobEpoch)
    <3>1. CASE v = w
      <4>1. Untaken(v) /\ Untaken(v)'
        BY <1>2, <2>2, <2>3, <3>1 DEF Untaken, NewJob
      <4>2. lastEpoch'[v] = jobEpoch
        BY <1>2, <2>2, <3>1
      <4>3. QED
        BY <4>1, <4>2
    <3>2. CASE v # w
      <4>1. wpc'[v] = wpc[v] /\ lastEpoch'[v] = lastEpoch[v]
        BY <1>2, <2>2, <2>3, <3>2
      <4>2. QED
        BY <2>1, <4>1 DEF Untaken, EngineInv, EpochInv
    <3>3. QED
      BY <3>1, <3>2
  <2>6. QED
    BY <2>1, <2>4, <2>5, LoopKeeps
<1>3. QED
  BY <1>1, <1>2 DEF TakeOrElse

\* The worker counts itself in seen and goes into workOnJob.
LEMMA SeeKeeps ==
    ASSUME EngineInv, NEW w \in Workers, See(w)
    PROVE  EngineInv'
<1>1. /\ UNCHANGED <<packed, remaining, inFlight, failed, total, participantCount, ran>>
      /\ UNCHANGED <<reg, k, victim, blk, jobEpoch, lastEpoch, hpc, dealt>>
  BY DEF See, LoopUnchanged, jobVars, schedVars, hostVars
<1>2. /\ wpc[w] = "see" /\ pc[w] = "out" /\ seen' = seen + 1
      /\ wpc' = [wpc EXCEPT ![w] = "poll"] /\ pc' = [pc EXCEPT ![w] = "ready"]
  BY DEF See, At, WGoto, Goto
<1>3. Untaken(w) /\ ~Untaken(w)' /\ \A v \in Workers \ {w} : Untaken(v)' = Untaken(v)
  BY <1>1, <1>2 DEF Untaken, EngineInv, EpochInv, Types
<1>4. Live /\ ~Filling /\ total # 0
  <2>1. Live
    BY <1>3 DEF EngineInv, EpochInv
  <2>2. QED
    BY <2>1 DEF Live, Filling, LivePlaces, FillPlaces, EngineInv, FillInv
<1>5. Types'
  BY <1>1, <1>2 DEF EngineInv, Types, Labels, WorkerPlaces
<1>6. \A p \in Participants : Tidy(p)'
  BY <1>1, <1>2 DEF EngineInv, Types, Tidy
<1>7. EpochInv'
  <2> DEFINE S == {v \in Workers : ~Untaken(v)}
  <2>1. seen = Cardinality(S) /\ IsFiniteSet(S) /\ w \notin S
    <3>1. S \subseteq Workers
      OBVIOUS
    <3>2. QED
      BY <1>3, <1>4, <3>1, Threads, FS_Subset DEF EngineInv, EpochInv
  <2>2. S' = S \cup {w}
    BY <1>3
  <2>3. Cardinality(S \cup {w}) = seen + 1
    BY <2>1, FS_AddElement
  <2>4. seen' = Cardinality(S')
    BY <1>2, <2>2, <2>3
  <2>5. \A v \in Workers : wpc'[v] = "see" => lastEpoch'[v] = jobEpoch'
    BY <1>1, <1>2 DEF EngineInv, EpochInv, Types
  <2>6. Live' /\ hpc' \in LivePlaces
    BY <1>1, <1>4 DEF Live
  <2>7. QED
    BY <2>4, <2>5, <2>6 DEF EpochInv, LivePlaces
<1>8. PlaceInv'
  <2>1. w # Host /\ \A p \in Participants \ {w} : pc'[p] = pc[p]
    BY <1>2, Threads DEF EngineInv, Types
  <2>2. QED
    BY <1>1, <1>3, <1>4, <2>1, Threads DEF EngineInv, PlaceInv, Filling
<1>9. FillInv'
  BY <1>1, <1>4 DEF EngineInv, FillInv, Filling, FillPlaces
<1>10. JobInv'
  <2>1. w # Host /\ w \in Participants /\ \A p \in Participants \ {w} : pc'[p] = pc[p]
    BY <1>2, Threads DEF EngineInv, Types
  <2>2. pc'[w] = "ready"
    BY <1>2, <2>1 DEF EngineInv, Types
  <2>3. \A p \in Participants : place'[p] = place[p]
    BY <1>1, <1>3, <2>1, <2>2, Threads DEF place, NotEntered
  <2>4. place' = place
    BY <2>3 DEF place
  <2>5. QED
    BY <1>1, <1>4, <2>4, JobStays DEF EngineInv, JobInv, jobVars
<1>11. OverInv'
  BY <1>1, <1>2 DEF EngineInv, OverInv, Over, Harmless, Types
<1>12. QED
  BY <1>5, <1>6, <1>7, <1>8, <1>9, <1>10, <1>11 DEF EngineInv

LEMMA WorkerLoopKeeps ==
    ASSUME EngineInv, NEW w \in Workers, WorkerLoop(w) \/ SpuriousWake(w)
    PROVE  EngineInv'
<1> USE DEF At
<1>1. \A l \in {"poll", "pollEpoch", "lock", "pred", "predEpoch", "blocking", "asleep", "check",
                "checkEpoch", "exited"} : l \in WorkerPlaces \ {"see"}
  BY DEF WorkerPlaces
<1>2. CASE PollJob(w) \/ PredJob(w) \/ CheckJob(w)
  <2>1. PICK from \in {"poll", "pred", "check"}, to \in {"pollEpoch", "predEpoch", "checkEpoch"} :
           LoadJob(w, from, to)
    BY <1>2 DEF PollJob, PredJob, CheckJob
  <2>2. QED
    BY <1>1, <2>1, LoopGoes DEF LoadJob
<1>3. CASE PollEpoch(w)
  BY <1>1, <1>3, LoopTakes DEF PollEpoch
<1>4. CASE CheckEpoch(w)
  BY <1>1, <1>4, LoopTakes DEF CheckEpoch
<1>5. CASE See(w)
  BY <1>5, SeeKeeps
<1>6. CASE Lock(w)
  BY <1>1, <1>6, LoopGoes DEF Lock
<1>7. CASE PredStopped(w)
  BY <1>1, <1>7, LoopGoes DEF PredStopped
<1>8. CASE PredEpoch(w)
  <2>1. WGoto(w, "check") \/ WGoto(w, "blocking")
    BY <1>8 DEF PredEpoch
  <2>2. QED
    BY <1>1, <1>8, <2>1, LoopGoes DEF PredEpoch
<1>9. CASE Block(w)
  BY <1>1, <1>9, LoopGoes DEF Block
<1>10. CASE SpuriousWake(w)
  BY <1>1, <1>10, LoopGoes DEF SpuriousWake
<1>11. CASE Exit(w)
  BY <1>1, <1>11, LoopGoes DEF Exit
<1>12. QED
  BY <1>2, <1>3, <1>4, <1>5, <1>6, <1>7, <1>8, <1>9, <1>10, <1>11 DEF WorkerLoop

-----------------------------------------------------------------------------
(* 5. Steps of the host *)

\* The host fills the job: nobody is inside, nobody can come in.
LEMMA FillKeeps ==
    ASSUME EngineInv, Filling, hpc' \in FillPlaces, FillInv',
           UNCHANGED <<pc, reg, k, victim, blk, wpc, lastEpoch, jobEpoch, total>>,
           packed' \in [Participants -> WorkerRange], dealt' \in Participants,
           hpc' \in {"fillParticipants", "setParticipants", "deal", "rearm", "bumpEpoch"}
              => seen' = 0
    PROVE  EngineInv'
<1>1. Types' /\ \A p \in Participants : Tidy(p)'
  BY DEF EngineInv, Types, Tidy
<1>2. EpochInv'
  <2>1. ~Live /\ ~Live'
    BY DEF Filling, Live, FillPlaces, LivePlaces
  <2>2. QED
    BY <2>1 DEF EngineInv, EpochInv, Untaken
<1>3. PlaceInv'
  BY DEF EngineInv, PlaceInv, Filling, FillPlaces, Untaken
<1>4. JobInv' /\ OverInv'
  BY DEF JobInv, OverInv, Filling, Over, FillPlaces, RestPlaces
<1>5. QED
  BY <1>1, <1>2, <1>3, <1>4 DEF EngineInv

LEMMA FillStepsKeep ==
    ASSUME EngineInv,
           \/ FillFailed \/ FillRemaining \/ FillInFlight \/ FillSeen \/ FillParticipants
           \/ SetParticipants \/ Rearm
    PROVE  EngineInv'
<1> USE DEF FillFailed, FillRemaining, FillInFlight, FillSeen, FillParticipants, SetParticipants,
            Rearm, HostStep, jobVars, WorkersUnchanged, FillPlaces
<1>1. /\ Filling /\ hpc' \in FillPlaces
      /\ UNCHANGED <<pc, reg, k, victim, blk, wpc, lastEpoch, jobEpoch, total, packed, dealt>>
  BY DEF Filling
<1>2. packed' \in [Participants -> WorkerRange] /\ dealt' \in Participants
  BY <1>1 DEF EngineInv, Types
<1>3. hpc' \in {"fillParticipants", "setParticipants", "deal", "rearm", "bumpEpoch"} => seen' = 0
  BY DEF EngineInv, EpochInv
<1>4. P = WorkerCount + 1
  BY PAssumption DEF WorkerCount
<1>5. FillInv'
  <2>1. total' # 0 /\ ran' = {} /\ Filling'
    BY <1>1 DEF EngineInv, FillInv, Filling
  <2>2. hpc' # "fillFailed" => failed' = FALSE
    BY DEF EngineInv, FillInv, Filling
  <2>3. hpc' = "bumpEpoch" => remaining' = total'
    BY DEF EngineInv, FillInv
  <2>4. hpc' \in {"fillSeen", "fillParticipants", "setParticipants", "deal", "rearm", "bumpEpoch"}
          => inFlight' = 0
    BY DEF EngineInv, FillInv
  <2>5. hpc' \in {"deal", "rearm", "bumpEpoch"} => participantCount' = P
    BY <1>4 DEF EngineInv, FillInv
  <2>6. dealt' = 0 /\ hpc' # "rearm"
    BY <1>1 DEF EngineInv, FillInv
  <2>7. hpc' \in {"rearm", "bumpEpoch"} =>
          \A p \in Participants : packed'[p] = InitialRange(total', p)
    <3>1. hpc' = "bumpEpoch" => \A p \in Participants : packed[p] = InitialRange(total, p)
      BY DEF EngineInv, FillInv
    <3>2. \A p : InitialRange(total', p) = InitialRange(total, p)
      BY <1>1
    <3>3. QED
      BY <1>1, <2>6, <3>1, <3>2
  <2>8. \A p \in Participants : ~(p < dealt')
    BY <2>6, Threads
  <2>9. QED
    BY <2>1, <2>2, <2>3, <2>4, <2>5, <2>6, <2>7, <2>8 DEF FillInv
<1>6. QED
  BY <1>1, <1>2, <1>3, <1>5, FillKeeps

\* Ranges are dealt one after the other.
LEMMA DealKeeps == ASSUME EngineInv, DealRange PROVE EngineInv'
<1> USE DEF DealRange, schedVars, WorkersUnchanged
<1>1. /\ Filling /\ hpc' \in FillPlaces /\ hpc' \in {"rearm", "deal"} /\ hpc = "deal"
      /\ UNCHANGED <<pc, reg, k, victim, blk, wpc, lastEpoch, jobEpoch, total, seen>>
      /\ UNCHANGED <<failed, inFlight, participantCount, ran>>
  BY DEF Filling, FillPlaces
<1>2. dealt \in Participants /\ total \in Nat \ {0} /\ packed \in [Participants -> WorkerRange]
  BY <1>1, MaxTotalAssumption DEF EngineInv, Types, FillInv
<1>3. InitialRange(total, dealt) \in WorkerRange
  BY <1>2, InitialRangeFacts
<1>4. dealt \in Nat /\ dealt < P /\ Host = P - 1 /\ P \in Nat
  BY <1>2, Threads, PAssumption DEF Host
<1>5. IF dealt = Host THEN dealt' = 0 ELSE dealt' = dealt + 1
  BY <1>4
<1>6. dealt' \in Participants
  BY <1>4, <1>5 DEF Participants
<1>7. packed' \in [Participants -> WorkerRange]
  BY <1>2, <1>3
<1>8. \A p \in Participants : p <= dealt => packed'[p] = InitialRange(total, p)
  <2>1. \A p \in Participants : p < dealt => packed[p] = InitialRange(total, p)
    BY <1>1 DEF EngineInv, FillInv
  <2>2. \A p \in Participants : p <= dealt => p < dealt \/ p = dealt
    BY <1>4, Threads
  <2>3. packed' = [packed EXCEPT ![dealt] = InitialRange(total, dealt)]
    OBVIOUS
  <2>4. ASSUME NEW p \in Participants, p <= dealt PROVE packed'[p] = InitialRange(total, p)
    <3>1. CASE p = dealt
      BY <1>2, <2>3, <3>1
    <3>2. CASE p # dealt
      BY <1>2, <2>1, <2>2, <2>3, <2>4, <3>2
    <3>3. QED
      BY <3>1, <3>2
  <2>5. QED
    BY <2>4
<1>9. FillInv'
  <2>1. \A p : InitialRange(total', p) = InitialRange(total, p)
    BY <1>1
  <2>2. total' # 0 /\ ran' = {} /\ failed' = FALSE /\ inFlight' = 0 /\ participantCount' = P
    BY <1>1, <1>2 DEF EngineInv, FillInv
  <2>3. hpc' = "deal" => \A p \in Participants : p < dealt' => packed'[p] = InitialRange(total, p)
    BY <1>4, <1>5, <1>8, Threads
  <2>4. hpc' = "rearm" => /\ dealt' = 0
                          /\ \A p \in Participants : packed'[p] = InitialRange(total, p)
    BY <1>4, <1>5, <1>8, Threads
  <2>5. QED
    BY <1>1, <2>1, <2>2, <2>3, <2>4 DEF FillInv
<1>10. hpc' \in {"fillParticipants", "setParticipants", "deal", "rearm", "bumpEpoch"} => seen' = 0
  BY <1>1 DEF EngineInv, EpochInv
<1>11. QED
  BY <1>1, <1>6, <1>7, <1>9, <1>10, FillKeeps

\* A dispatch begins to fill the job after everybody came out of the last one.
LEMMA FillTotalKeeps == ASSUME EngineInv, FillTotal, ~overlap' PROVE EngineInv'
<1> USE DEF FillTotal, WorkersUnchanged, schedVars, Nested
<1>1. /\ hpc = "idle" /\ hpc' = "fillFailed" /\ ran' = {} /\ total' \in 1 .. MaxTotal
      /\ UNCHANGED <<packed, pc, reg, k, victim, blk, wpc, lastEpoch, jobEpoch, seen, dealt>>
  OBVIOUS
<1>2. \A p \in Participants : pc[p] = "out"
  BY <1>1, Threads DEF EngineInv, PlaceInv
<1>3. Types' /\ \A p \in Participants : Tidy(p)'
  BY <1>1 DEF EngineInv, Types, Tidy, FillPlaces
<1>4. EpochInv'
  BY <1>1 DEF EngineInv, EpochInv, Live, LivePlaces, Untaken
<1>5. PlaceInv'
  BY <1>1, <1>2, Threads DEF PlaceInv
<1>6. FillInv'
  <2>1. total' # 0 /\ dealt' = 0
    BY <1>1 DEF EngineInv, FillInv
  <2>2. QED
    BY <1>1, <2>1 DEF FillInv
<1>7. JobInv' /\ OverInv'
  BY <1>1 DEF JobInv, OverInv, Filling, Over, FillPlaces, RestPlaces
<1>8. QED
  BY <1>3, <1>4, <1>5, <1>6, <1>7 DEF EngineInv

\* With the new epoch every participant is about to enter the job: W starts.
LEMMA BumpEpochKeeps == ASSUME EngineInv, BumpEpoch PROVE EngineInv'
<1> USE DEF BumpEpoch, HostStep, WorkersUnchanged
<1>1. /\ hpc = "bumpEpoch" /\ hpc' = "publish" /\ jobEpoch' = jobEpoch + 1
      /\ UNCHANGED <<packed, remaining, inFlight, failed, total, participantCount, ran>>
      /\ UNCHANGED <<pc, reg, k, victim, blk, wpc, lastEpoch, seen, dealt>>
  BY DEF jobVars
<1>2. Filling /\ ~Live /\ Live' /\ ~Filling' /\ ~Over'
  BY <1>1 DEF Filling, Live, Over, FillPlaces, LivePlaces, RestPlaces
<1>3. \A p \in Participants : pc[p] = "out"
  BY <1>2 DEF EngineInv, PlaceInv
<1>4. \A w \in Workers : Untaken(w)' /\ wpc'[w] # "see"
  BY <1>1, <1>2 DEF EngineInv, EpochInv, Untaken, Types
<1>5. Types' /\ \A p \in Participants : Tidy(p)'
  BY <1>1 DEF EngineInv, Types, Tidy, LivePlaces
<1>6. EpochInv'
  <2>1. {w \in Workers : ~Untaken(w)}' = {}
    BY <1>4
  <2>2. seen' = 0
    BY <1>1 DEF EngineInv, EpochInv
  <2>3. seen' = Cardinality({w \in Workers : ~Untaken(w)}')
    BY <2>1, <2>2, FS_EmptySet
  <2>4. QED
    BY <1>1, <1>2, <1>4, <2>3 DEF EpochInv
<1>7. PlaceInv'
  BY <1>1, <1>3, Threads DEF PlaceInv
<1>8. FillInv'
  BY <1>1, <1>2 DEF EngineInv, FillInv
<1>9. JobInv'
  <2>1. place' = [p \in Participants |-> "ready"]
    <3>1. \A p \in Participants : NotEntered(p)'
      BY <1>1, <1>4, Threads DEF NotEntered
    <3>2. QED
      BY <3>1 DEF place
  <2>2. /\ reg = [p \in Participants |-> Empty] /\ k = [p \in Participants |-> 0]
        /\ victim = [p \in Participants |-> 0] /\ blk = [p \in Participants |-> None]
    BY <1>3 DEF EngineInv, Types, Tidy
  <2>3. packed = [p \in Participants |-> InitialRange(total, p)]
    BY <1>1 DEF EngineInv, Types, FillInv
  <2>4. /\ total \in 1 .. MaxTotal /\ remaining = total /\ inFlight = 0 /\ failed = FALSE
        /\ participantCount = P /\ ran = {}
    BY <1>1, <1>2 DEF EngineInv, Types, FillInv
  <2>5. W!WRInit'
    <3>1. \A n, p : W!InitialRange(n, p)' = InitialRange(n, p)
      BY DEF W!InitialRange, InitialRange, W!BlockCount, BlockCount
    <3>2. W!Empty = Empty
      BY DEF W!Empty, Empty
    <3>3. packed' = [p \in Participants |-> W!InitialRange(total', p)]
      BY <1>1, <2>3, <3>1
    <3>4. QED
      BY <1>1, <2>1, <2>2, <2>4, <3>2, <3>3, SameNames DEF W!WRInit
  <2>6. QED
    BY <2>5, ArmedJobPrimed DEF JobInv
<1>10. OverInv'
  BY <1>1, <1>2 DEF OverInv
<1>11. QED
  BY <1>5, <1>6, <1>7, <1>8, <1>9, <1>10 DEF EngineInv

\* After that the host goes from place to place; the job changes under it only
\* by what the participants do.
LEMMA HostMoves ==
    ASSUME EngineInv, ~Filling, hpc' \in LivePlaces \cup RestPlaces,
           UNCHANGED <<jobVars, ran, reg, k, victim, blk, jobEpoch, lastEpoch, seen, dealt>>,
           pc' \in [Participants -> Labels], place' = place, \A p \in Participants : Tidy(p)',
           wpc' \in [Workers -> WorkerPlaces],
           \A w \in Workers : wpc'[w] = "see" <=> wpc[w] = "see",
           total = 0 => hpc' \in {"idle", "join", "stopped"},
           Live' => Live, Live /\ ~Live' => \A w \in Workers : ~Untaken(w),
           PlaceInv', OverInv'
    PROVE  EngineInv'
<1>1. UNCHANGED <<packed, remaining, inFlight, failed, total, participantCount>>
  BY DEF jobVars
<1>2. ~Filling' /\ hpc' \notin FillPlaces
  BY DEF Filling, FillPlaces, LivePlaces, RestPlaces
<1>3. Types'
  BY <1>1 DEF EngineInv, Types
<1>4. \A w \in Workers : Untaken(w)' = Untaken(w)
  BY DEF Untaken
<1>5. EpochInv'
  <2>1. {w \in Workers : ~Untaken(w)}' = {w \in Workers : ~Untaken(w)}
    BY <1>4
  <2>2. \A w \in Workers : wpc'[w] = "see" => lastEpoch'[w] = jobEpoch'
    BY DEF EngineInv, EpochInv
  <2>3. Live' => seen' = Cardinality({w \in Workers : ~Untaken(w)}')
    BY <2>1 DEF EngineInv, EpochInv
  <2>4. ~Live' => \A w \in Workers : ~Untaken(w)'
    BY <1>4 DEF EngineInv, EpochInv
  <2>5. QED
    BY <1>2, <2>2, <2>3, <2>4 DEF EpochInv, FillPlaces
<1>6. FillInv'
  <2>1. dealt = 0
    BY DEF EngineInv, FillInv, Filling, FillPlaces
  <2>2. QED
    BY <1>1, <1>2, <2>1 DEF FillInv, FillPlaces
<1>7. JobInv'
  BY <1>1, JobStays DEF EngineInv, JobInv
<1>8. QED
  BY <1>3, <1>5, <1>6, <1>7 DEF EngineInv

\* It does so without going into workOnJob.
LEMMA HostGoes ==
    ASSUME EngineInv, ~Filling, hpc' \in LivePlaces \cup RestPlaces,
           UNCHANGED <<jobVars, ran, pc, reg, k, victim, blk, jobEpoch, lastEpoch, seen, dealt>>,
           pc[Host] = "out", hpc' \in {"publish", "notify"} <=> hpc \in {"publish", "notify"},
           wpc' \in [Workers -> WorkerPlaces],
           \A w \in Workers : wpc'[w] = "see" <=> wpc[w] = "see",
           total = 0 => hpc' \in {"idle", "join", "stopped"},
           Live' => Live, Live /\ ~Live' => \A w \in Workers : ~Untaken(w), OverInv'
    PROVE  EngineInv'
<1>1. \A w \in Workers : Untaken(w)' = Untaken(w)
  BY DEF Untaken
<1>2. place' = place
  BY <1>1, Threads DEF place, NotEntered
<1>3. PlaceInv'
  <2>1. ~Filling' /\ total' = total
    BY DEF Filling, FillPlaces, LivePlaces, RestPlaces, jobVars
  <2>2. QED
    BY <1>1, <2>1 DEF EngineInv, PlaceInv
<1>4. \A p \in Participants : Tidy(p)'
  BY DEF EngineInv, Tidy
<1>5. pc' \in [Participants -> Labels]
  BY DEF EngineInv, Types
<1>6. QED
  BY <1>2, <1>3, <1>4, <1>5, HostMoves

\* notify_all leaves nobody asleep, and disturbs nobody who is not.
LEMMA NotifyAllWakes ==
    ASSUME Types, NotifyAll
    PROVE  /\ wpc' \in [Workers -> WorkerPlaces]
           /\ \A w \in Workers : wpc'[w] = "see" <=> wpc[w] = "see"
BY DEF Types, NotifyAll, WorkerPlaces

LEMMA NotifyKeeps == ASSUME EngineInv, Notify PROVE EngineInv'
<1> USE DEF Notify, HostStep, WorkersUnchanged
<1>1. /\ hpc = "notify" /\ hpc' = "finished" /\ pc' = [pc EXCEPT ![Host] = "ready"]
      /\ UNCHANGED <<jobVars, ran, reg, k, victim, blk, jobEpoch, lastEpoch, seen, dealt>>
  BY DEF Goto
<1>2. wpc' \in [Workers -> WorkerPlaces] /\ \A w \in Workers : wpc'[w] = "see" <=> wpc[w] = "see"
  BY NotifyAllWakes DEF EngineInv
<1>3. /\ ~Filling /\ Live /\ Live' /\ ~Filling' /\ ~Over' /\ total # 0 /\ total' = total
      /\ hpc' \in LivePlaces
  BY <1>1 DEF Filling, Live, Over, FillPlaces, LivePlaces, RestPlaces, EngineInv, FillInv, jobVars
<1>4. pc[Host] = "out" /\ pc \in [Participants -> Labels] /\ "ready" \in Labels
  BY <1>1 DEF EngineInv, PlaceInv, Types, Labels
<1>5. /\ pc' \in [Participants -> Labels] /\ pc'[Host] = "ready"
      /\ \A w \in Workers : pc'[w] = pc[w] /\ Untaken(w)' = Untaken(w)
  BY <1>1, <1>2, <1>4, Threads DEF Untaken
<1>6. place' = place
  BY <1>1, <1>5, Threads DEF place, NotEntered
<1>7. \A p \in Participants : Tidy(p)'
  BY <1>1, <1>4, <1>5, Threads DEF EngineInv, Tidy
<1>8. PlaceInv'
  BY <1>1, <1>3, <1>5 DEF EngineInv, PlaceInv
<1>9. OverInv'
  BY <1>1, <1>3 DEF OverInv
<1>10. QED
  BY <1>1, <1>2, <1>3, <1>5, <1>6, <1>7, <1>8, <1>9, HostMoves

\* After the wait for inFlight nobody is at work any more.
LEMMA AwaitInFlightKeeps == ASSUME EngineInv, AwaitInFlight PROVE EngineInv'
<1> USE DEF AwaitInFlight, Await, Awaited, HostStep, WorkersUnchanged
<1>1. /\ hpc = "inFlight" /\ hpc' = "seen" /\ inFlight = 0 /\ pc[Host] = "out"
      /\ UNCHANGED <<jobVars, ran, pc, reg, k, victim, blk, jobEpoch, lastEpoch, seen, dealt, wpc>>
  OBVIOUS
<1>2. ~Filling /\ Live /\ Live' /\ total # 0 /\ hpc' \in LivePlaces
  BY <1>1 DEF Filling, Live, FillPlaces, LivePlaces, EngineInv, FillInv
<1>3. \A p \in Participants : place[p] \in {"ready", "out"}
  BY <1>1, <1>2, SameNames, W!NobodyInside, PAssumption, BlockSizeAssumption, MaxTotalAssumption
     DEF EngineInv, JobInv
<1>4. \A p \in Participants : pc[p] \in {"ready", "out"}
  BY <1>1, <1>3, Threads DEF place, NotEntered, EngineInv, PlaceInv
<1>5. OverInv'
  <2>1. failed' \/ remaining' = 0
    BY <1>1 DEF EngineInv, OverInv, jobVars
  <2>2. \A p \in Participants : Harmless(p)'
    BY <1>1, <1>4 DEF Harmless
  <2>3. QED
    BY <2>1, <2>2 DEF OverInv
<1>6. wpc' \in [Workers -> WorkerPlaces]
  BY <1>1 DEF EngineInv, Types
<1>7. QED
  BY <1>1, <1>2, <1>5, <1>6, HostGoes

\* After the wait for seen every worker has taken the job.
LEMMA AwaitSeenKeeps == ASSUME EngineInv, AwaitSeen PROVE EngineInv'
<1> USE DEF AwaitSeen, Await, Awaited, HostStep, WorkersUnchanged
<1>1. /\ hpc = "seen" /\ hpc' = "clear" /\ seen >= WorkerCount /\ pc[Host] = "out"
      /\ UNCHANGED <<jobVars, ran, pc, reg, k, victim, blk, jobEpoch, lastEpoch, seen, dealt, wpc>>
  OBVIOUS
<1>2. /\ ~Filling /\ Live /\ ~Live' /\ total # 0 /\ hpc' \in RestPlaces
      /\ hpc' \notin {"publish", "notify"}
  BY <1>1 DEF Filling, Live, FillPlaces, LivePlaces, RestPlaces, EngineInv, FillInv
<1>3. \A w \in Workers : ~Untaken(w)
  <2> DEFINE S == {w \in Workers : ~Untaken(w)}
  <2>1. S \subseteq Workers
    OBVIOUS
  <2>2. /\ IsFiniteSet(S) /\ Cardinality(S) <= WorkerCount
        /\ (Cardinality(S) = WorkerCount => S = Workers)
    BY <2>1, Threads, FS_Subset
  <2>3. Cardinality(S) \in Nat /\ seen = Cardinality(S)
    BY <1>2, <2>2, FS_CardinalityType DEF EngineInv, EpochInv
  <2>4. S = Workers
    BY <1>1, <2>2, <2>3, Threads
  <2>5. QED
    BY <2>4
<1>4. OverInv'
  BY <1>1, <1>2 DEF EngineInv, OverInv, Over, Harmless, jobVars
<1>5. wpc' \in [Workers -> WorkerPlaces]
  BY <1>1 DEF EngineInv, Types
<1>6. QED
  BY <1>1, <1>2, <1>3, <1>4, <1>5, HostGoes

LEMMA OtherHostStepsKeep ==
    ASSUME EngineInv, Publish \/ AwaitFinished \/ Clear \/ Return \/ StopWorkers \/ Join
    PROVE  EngineInv'
<1> USE DEF HostStep, WorkersUnchanged
<1>1. /\ UNCHANGED <<jobVars, ran, pc, reg, k, victim, blk, jobEpoch, lastEpoch, seen, dealt>>
      /\ wpc' = wpc \/ NotifyAll
  BY DEF Publish, AwaitFinished, Await, Clear, Return, StopWorkers, Join
<1>2. wpc' \in [Workers -> WorkerPlaces] /\ \A w \in Workers : wpc'[w] = "see" <=> wpc[w] = "see"
  BY <1>1, NotifyAllWakes DEF EngineInv, Types
<1>3. UNCHANGED <<failed, remaining>>
  BY <1>1 DEF jobVars
<1>4. CASE Publish
  <2>1. hpc = "publish" /\ hpc' = "notify"
    BY <1>4 DEF Publish
  <2>2. ~Filling /\ Live /\ Live' /\ ~Over' /\ total # 0 /\ pc[Host] = "out" /\ hpc' \in LivePlaces
    BY <2>1 DEF Filling, Live, Over, FillPlaces, LivePlaces, RestPlaces,
                EngineInv, FillInv, PlaceInv
  <2>3. OverInv'
    BY <2>1, <2>2 DEF OverInv
  <2>4. QED
    BY <1>1, <1>2, <2>1, <2>2, <2>3, HostGoes
<1>5. CASE AwaitFinished
  <2>1. hpc = "finished" /\ hpc' = "inFlight" /\ pc[Host] = "out" /\ (failed \/ remaining = 0)
    BY <1>5 DEF AwaitFinished, Await, Awaited, JobFinished
  <2>2. ~Filling /\ Live /\ Live' /\ ~Over' /\ total # 0 /\ hpc' \in LivePlaces
    BY <2>1 DEF Filling, Live, Over, FillPlaces, LivePlaces, RestPlaces, EngineInv, FillInv
  <2>3. OverInv'
    BY <1>3, <2>1, <2>2 DEF OverInv
  <2>4. hpc' \in {"publish", "notify"} <=> hpc \in {"publish", "notify"}
    BY <2>1
  <2>5. QED
    BY <1>1, <1>2, <2>1, <2>2, <2>3, <2>4, HostGoes
<1>6. CASE Clear \/ Return \/ StopWorkers \/ Join
  <2>1. /\ hpc \in RestPlaces /\ hpc' \in RestPlaces
        /\ hpc \in {"idle", "join"} => hpc' \in {"join", "stopped"}
        /\ hpc # "stopped"
    BY <1>6 DEF Clear, Return, StopWorkers, Join, RestPlaces
  <2>2. /\ ~Filling /\ ~Live /\ ~Live' /\ pc[Host] = "out" /\ Over
        /\ hpc' \notin {"publish", "notify"} /\ hpc \notin {"publish", "notify"}
        /\ total = 0 => hpc' \in {"idle", "join", "stopped"}
    BY <2>1 DEF Filling, Live, Over, FillPlaces, LivePlaces, RestPlaces,
                EngineInv, FillInv, PlaceInv
  <2>3. OverInv'
    BY <1>1, <1>3, <2>2 DEF EngineInv, OverInv, Harmless
  <2>4. QED
    BY <1>1, <1>2, <2>1, <2>2, <2>3, HostGoes
<1>7. QED
  BY <1>4, <1>5, <1>6

-----------------------------------------------------------------------------
(* 6. The theorems *)

LEMMA SEInitially == SEInit => SEInv
<1> SUFFICES ASSUME SEInit PROVE EngineInv
  BY DEF SEInv
<1> USE DEF SEInit
<1>1. Empty \in WorkerRange /\ 0 \in Participants /\ "out" \in Labels /\ None \in Int
  BY PAssumption DEF Empty, WorkerRange, Participants, Labels, None
<1>2. Types
  BY <1>1, MaxTotalAssumption DEF Types, WorkerPlaces, RestPlaces
<1>3. \A p \in Participants : Tidy(p)
  BY DEF Tidy
<1>4. EpochInv
  BY DEF EpochInv, Untaken, Live, LivePlaces
<1>5. PlaceInv /\ OverInv
  BY Threads DEF PlaceInv, OverInv, Harmless
<1>6. FillInv /\ JobInv
  BY DEF FillInv, JobInv, Filling, FillPlaces
<1>7. QED
  BY <1>2, <1>3, <1>4, <1>5, <1>6 DEF EngineInv

\* A straggler that got into the next dispatch is remembered.
LEMMA OverlapStays == ASSUME SENext, overlap PROVE overlap'
<1>1. ASSUME NEW p \in Participants, InsideJob(p) PROVE overlap' = overlap
  BY <1>1 DEF InsideJob, engineVars
<1>2. ASSUME NEW w \in Workers, WorkerLoop(w) \/ SpuriousWake(w) PROVE overlap' = overlap
  BY <1>2 DEF WorkerLoop, PollJob, PollEpoch, See, Lock, PredStopped, PredJob, PredEpoch, Block,
              Exit, CheckJob, CheckEpoch, SpuriousWake, LoadJob, LoopUnchanged
<1>3. DispatchSerial \/ StopWorkers \/ HostWaits \/ Stopped => overlap' = overlap
  BY DEF DispatchSerial, StopWorkers, HostWaits, Stopped, seVars, engineVars
<1>4. HostRuns => overlap' = overlap
  BY DEF HostRuns, FillFailed, FillRemaining, FillInFlight, FillSeen, FillParticipants,
         SetParticipants, DealRange, Rearm, BumpEpoch, Publish, Notify, AwaitFinished,
         AwaitInFlight, AwaitSeen, Await, Clear, Return, Join
<1>5. FillTotal => overlap'
  BY DEF FillTotal
<1>6. QED
  BY <1>1, <1>2, <1>3, <1>4, <1>5 DEF SENext

LEMMA SESteps == SEInv /\ [SENext]_seVars => SEInv'
<1> SUFFICES ASSUME SEInv, [SENext]_seVars, ~overlap' PROVE EngineInv'
  BY DEF SEInv
<1>1. CASE UNCHANGED seVars \/ DispatchSerial
  <2>1. /\ UNCHANGED <<jobVars, ran, pc, reg, k, victim, blk, jobEpoch, seen, hpc, dealt>>
        /\ UNCHANGED <<wpc, lastEpoch, overlap>>
    BY <1>1 DEF seVars, wrVars, localVars, engineVars, schedVars, workerVars, hostVars,
                DispatchSerial, WorkersUnchanged
  <2>2. EngineInv
    BY <2>1 DEF SEInv
  <2>3. wpc' \in [Workers -> WorkerPlaces] /\ lastEpoch' \in [Workers -> Nat]
    BY <2>1, <2>2 DEF EngineInv, Types
  <2>4. \A w \in Workers : /\ Untaken(w)' = Untaken(w)
                           /\ wpc'[w] = "see" => lastEpoch'[w] = jobEpoch
    BY <2>1, <2>2 DEF Untaken, EngineInv, EpochInv
  <2>5. QED
    BY <2>1, <2>2, <2>3, <2>4, LoopKeeps
<1>2. CASE SENext
  <2>1. EngineInv
    BY <1>2, OverlapStays DEF SEInv
  <2>2. CASE HostRuns
    BY <2>1, <2>2, FillStepsKeep, DealKeeps, BumpEpochKeeps, NotifyKeeps, AwaitInFlightKeeps,
       AwaitSeenKeeps, OtherHostStepsKeep DEF HostRuns
  <2>3. CASE HostWaits \/ Stopped
    BY <1>1, <2>3 DEF HostWaits, Stopped
  <2>4. QED
    BY <1>1, <1>2, <2>1, <2>2, <2>3, WorkKeeps, WorkerLoopKeeps, FillTotalKeeps, OtherHostStepsKeep
       DEF SENext
<1>3. QED
  BY <1>1, <1>2

\* The host, the workers and what they do inside the job keep the invariant.
THEOREM SEInvariance == SESpec => []SEInv
BY SEInitially, SESteps, PTL DEF SESpec

\* While the lanes are reduced or freed, between dispatches and while the job is
\* filled again no kernel runs.
THEOREM KernelsStayInTheirJob == SESpec => []KernelsOnlyWhileJobLive
<1>1. SEInv => KernelsOnlyWhileJobLive
  <2>1. SUFFICES ASSUME SEInv, NEW p \in Participants, pc[p] = "run", ~overlap
                 PROVE  hpc \in {"publish", "notify", "finished", "inFlight"}
    BY DEF KernelsOnlyWhileJobLive
  <2>2. EngineInv
    BY <2>1 DEF SEInv
  <2>3. ~Filling /\ ~Over
    BY <2>1, <2>2 DEF EngineInv, PlaceInv, OverInv, Harmless
  <2>4. QED
    BY <2>2, <2>3 DEF EngineInv, Types, Filling, Over, FillPlaces, LivePlaces, RestPlaces
<1>2. QED
  BY <1>1, SEInvariance, PTL

\* A worker that takes a job finds it filled, also when it had loaded currentJob
\* before the last job was cleared.
THEOREM WorkersJoinArmedJobs == SESpec => JoinsAnArmedJob
<1>1. SEInv => \A w \in Workers : (See(w) /\ ~overlap) => Armed
  <2>1. SUFFICES ASSUME SEInv, NEW w \in Workers, See(w), ~overlap PROVE Armed
    OBVIOUS
  <2>2. EngineInv /\ Untaken(w)
    BY <2>1 DEF SEInv, See, At, Untaken
  <2>3. Live
    BY <2>2 DEF EngineInv, EpochInv
  <2>4. QED
    BY <2>3 DEF Live, LivePlaces, Armed
<1>2. QED
  BY <1>1, SEInvariance, PTL DEF JoinsAnArmedJob

\* Across dispatches, a block is claimed once, and only blocks of the dispatch
\* under way are.
THEOREM BlocksStartOnce == SESpec => StartsOnce
<1>1. SEInv => \A p \in Participants : (ClaimCasWins(p) /\ ~overlap) => FreshBlock(p)
  <2>1. SUFFICES ASSUME SEInv, NEW p \in Participants, ClaimCasWins(p), ~overlap
                 PROVE  FreshBlock(p)
    OBVIOUS
  <2>2. EngineInv /\ pc[p] = "claimCas" /\ packed[p] = reg[p]
    BY <2>1 DEF SEInv, ClaimCasWins
  <2>3. ~Filling /\ total # 0 /\ ~NotEntered(p)
    BY <2>2, Threads DEF EngineInv, PlaceInv, NotEntered
  <2>4. W!IInv /\ place[p] = "claimCas"
    BY <2>2, <2>3 DEF EngineInv, JobInv, place
  <2>5. reg[p].b \in Blocks \ ran /\ \A q \in Participants : blk[q] # reg[p].b
    BY <2>2, <2>4, SameNames, W!ClaimsFreshBlock, PAssumption, BlockSizeAssumption,
       MaxTotalAssumption
  <2>6. QED
    BY <2>5 DEF FreshBlock
<1>2. QED
  BY <1>1, SEInvariance, PTL DEF StartsOnce
=============================================================================
