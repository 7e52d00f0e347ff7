----------------------------- MODULE SimtEngine -----------------------------
(***************************************************************************)
(* The SIMT engine of vm.cpp around the work-stealing loop: the host arms  *)
(* the one static job g_job (dispatchJob), publishes it, takes part, waits *)
(* for its end and clears it; the workers poll for a job, sleep on cv_work *)
(* and join each job once (workerLoop); shutdownSIMTEngine stops them.     *)
(*                                                                         *)
(* Every load, store and fetch_add on currentJob, jobEpoch, seen and the   *)
(* fields of g_job that the workers read is a step of its own.  Loads made *)
(* under scheduler.lock of what only changes under it share a step.  The   *)
(* worker's 200 spins before it locks, and the host's 200us naps in its    *)
(* wait loop, change no state and are left out.  taskQueue is never pushed *)
(* to, so the task branch of workerLoop is the empty() test alone.         *)
(*                                                                         *)
(* What a thread does inside workOnJob is module WorkRanges.               *)
(***************************************************************************)
EXTENDS WorkRanges

CONSTANTS
    ParallelMin,      \* smallest total that is run in parallel (4096 indices)
    MaxDispatches,    \* bound on the dispatches of the script
    MaxSpurious       \* bound on spurious wake-ups of cv_work

ASSUME ParallelMinAssumption == ParallelMin \in Nat \ {0}
ASSUME MaxDispatchesAssumption == MaxDispatches \in Nat
ASSUME MaxSpuriousAssumption == MaxSpurious \in Nat

VARIABLES
    currentJob,    \* scheduler.currentJob is &g_job
    jobEpoch,      \* scheduler.jobEpoch
    seen,          \* g_job.seen
    schedLock,     \* the worker that holds scheduler.lock, or None
    isRunning,     \* scheduler.isRunning
    wpc,           \* where each worker is in workerLoop
    wjob,          \* its local job is not null
    lastEpoch,     \* its tl_lastJobEpoch
    hpc,           \* where the host is
    dealt,         \* the next range the host fills in
    outcome,       \* what the last dispatch left for the script
    dispatches,    \* ghost: dispatches begun
    spurious,      \* ghost: spurious wake-ups so far
    overlap        \* ghost: g_job was refilled under a worker that had joined

schedVars == <<currentJob, jobEpoch, isRunning>>
workerVars == <<wpc, wjob, lastEpoch>>
hostVars == <<hpc, dealt, outcome, dispatches>>
engineVars == <<schedVars, seen, schedLock, workerVars, hostVars, spurious, overlap>>
seVars == <<wrVars, engineVars>>

Host == P - 1
Workers == 0 .. P - 2
WorkerCount == P - 1

SEInit ==
    /\ packed = [p \in Participants |-> Empty]
    /\ remaining = 0
    /\ inFlight = 0
    /\ failed = FALSE
    /\ total = 0
    /\ participantCount = 0
    /\ ran = {}
    /\ pc = [p \in Participants |-> "out"]
    /\ reg = [p \in Participants |-> Empty]
    /\ k = [p \in Participants |-> 0]
    /\ victim = [p \in Participants |-> 0]
    /\ blk = [p \in Participants |-> None]
    /\ currentJob = FALSE
    /\ jobEpoch = 0
    /\ seen = 0
    /\ schedLock = None
    /\ isRunning = TRUE
    /\ wpc = [w \in Workers |-> "poll"]
    /\ wjob = [w \in Workers |-> FALSE]
    /\ lastEpoch = [w \in Workers |-> 0]
    /\ hpc = "idle"
    /\ dealt = 0
    /\ outcome = "none"
    /\ dispatches = 0
    /\ spurious = 0
    /\ overlap = FALSE

-----------------------------------------------------------------------------
(* workerLoop                                                              *)

\* A worker is in its loop when it is not inside workOnJob.
At(w, l) == pc[w] = "out" /\ wpc[w] = l
WGoto(w, l) == wpc' = [wpc EXCEPT ![w] = l]

\* What every step of the loop leaves alone.
LoopUnchanged == UNCHANGED <<jobVars, ran, reg, k, victim, blk, schedVars, hostVars, overlap>>

LoadJob(w, from, to) ==
    /\ At(w, from)
    /\ wjob' = [wjob EXCEPT ![w] = currentJob]
    /\ WGoto(w, to)
    /\ UNCHANGED <<pc, lastEpoch, schedLock, seen, spurious>>
    /\ LoopUnchanged

NewJob(w) == wjob[w] /\ jobEpoch # lastEpoch[w]

\* The epoch is loaded after the job: a new job is taken, else go to l.
TakeOrElse(w, l) ==
    \/ /\ NewJob(w)
       /\ lastEpoch' = [lastEpoch EXCEPT ![w] = jobEpoch]
       /\ WGoto(w, "see")
    \/ /\ ~NewJob(w)
       /\ WGoto(w, l)
       /\ UNCHANGED lastEpoch

PollJob(w) == LoadJob(w, "poll", "pollEpoch")

PollEpoch(w) ==
    /\ At(w, "pollEpoch")
    /\ TakeOrElse(w, "lock")
    /\ UNCHANGED <<pc, wjob, schedLock, seen, spurious>>
    /\ LoopUnchanged

\* seen.fetch_add; the call of workOnJob follows.
See(w) ==
    /\ At(w, "see")
    /\ seen' = seen + 1
    /\ WGoto(w, "poll")
    /\ Goto(w, "ready")
    /\ UNCHANGED <<wjob, lastEpoch, schedLock, spurious>>
    /\ LoopUnchanged

Lock(w) ==
    /\ At(w, "lock")
    /\ schedLock = None
    /\ schedLock' = w
    /\ WGoto(w, "pred")
    /\ UNCHANGED <<pc, wjob, lastEpoch, seen, spurious>>
    /\ LoopUnchanged

\* The predicate of cv_work.wait, first part: stop waiting at shutdown.
PredStopped(w) ==
    /\ At(w, "pred")
    /\ ~isRunning
    /\ WGoto(w, "check")
    /\ UNCHANGED <<pc, wjob, lastEpoch, schedLock, seen, spurious>>
    /\ LoopUnchanged

PredJob(w) == isRunning /\ LoadJob(w, "pred", "predEpoch")

PredEpoch(w) ==
    /\ At(w, "predEpoch")
    /\ WGoto(w, IF NewJob(w) THEN "check" ELSE "blocking")
    /\ UNCHANGED <<pc, wjob, lastEpoch, schedLock, seen, spurious>>
    /\ LoopUnchanged

\* cv_work.wait unlocks and starts to wait in one step.
Block(w) ==
    /\ At(w, "blocking")
    /\ schedLock' = None
    /\ WGoto(w, "asleep")
    /\ UNCHANGED <<pc, wjob, lastEpoch, seen, spurious>>
    /\ LoopUnchanged

SpuriousWake(w) ==
    /\ At(w, "asleep")
    /\ spurious < MaxSpurious
    /\ spurious' = spurious + 1
    /\ WGoto(w, "lock")
    /\ UNCHANGED <<pc, wjob, lastEpoch, schedLock, seen>>
    /\ LoopUnchanged

Exit(w) ==
    /\ At(w, "check")
    /\ ~isRunning /\ ~currentJob
    /\ schedLock' = None
    /\ WGoto(w, "exited")
    /\ UNCHANGED <<pc, wjob, lastEpoch, seen, spurious>>
    /\ LoopUnchanged

CheckJob(w) == (isRunning \/ currentJob) /\ LoadJob(w, "check", "checkEpoch")

\* Take the job, or find the task queue empty and poll again.
CheckEpoch(w) ==
    /\ At(w, "checkEpoch")
    /\ TakeOrElse(w, "poll")
    /\ schedLock' = None
    /\ UNCHANGED <<pc, wjob, seen, spurious>>
    /\ LoopUnchanged

WorkerLoop(w) ==
    \/ PollJob(w)
    \/ PollEpoch(w)
    \/ See(w)
    \/ Lock(w)
    \/ PredStopped(w)
    \/ PredJob(w)
    \/ PredEpoch(w)
    \/ Block(w)
    \/ Exit(w)
    \/ CheckJob(w)
    \/ CheckEpoch(w)

\* notify_all moves every sleeper to the queue for the lock.
NotifyAll == wpc' = [w \in Workers |-> IF wpc[w] = "asleep" THEN "lock" ELSE wpc[w]]

-----------------------------------------------------------------------------
(* dispatchJob, on the host's thread                                       *)

Nested(p) == p \in Workers \/ currentJob

\* What every step of the host leaves alone in the workers.
WorkersUnchanged == UNCHANGED <<reg, k, victim, blk, wjob, lastEpoch, schedLock, spurious>>

\* A host step that only writes a field of g_job, or waits for one.
HostStep(from, to) ==
    /\ hpc = from
    /\ hpc' = to
    /\ UNCHANGED <<dispatches, isRunning>>
    /\ WorkersUnchanged

\* Small, nested, or no workers: the kernel runs here, on a job of its own.
DispatchSerial ==
    /\ hpc = "idle" /\ isRunning
    /\ dispatches < MaxDispatches
    /\ \E n \in 1 .. MaxTotal : n < ParallelMin \/ Nested(Host) \/ WorkerCount <= 0
    /\ dispatches' = dispatches + 1
    /\ outcome' \in {"value", "nil"}
    /\ WorkersUnchanged
    /\ UNCHANGED <<jobVars, ran, pc, schedVars, seen, wpc, hpc, dealt, overlap>>

\* fillJob begins: total and the other plain fields.
FillTotal ==
    /\ hpc = "idle" /\ isRunning
    /\ dispatches < MaxDispatches
    /\ \E n \in 1 .. MaxTotal :
        /\ ~(n < ParallelMin \/ Nested(Host) \/ WorkerCount <= 0)
        /\ total' = n
    /\ dispatches' = dispatches + 1
    /\ outcome' = "none"
    /\ ran' = {}
    /\ overlap' = (overlap \/ \E w \in Workers : pc[w] # "out")
    /\ hpc' = "fillFailed"
    /\ WorkersUnchanged
    /\ UNCHANGED <<packed, remaining, inFlight, failed, participantCount, pc,
                   schedVars, seen, wpc, dealt>>

FillFailed ==
    /\ HostStep("fillFailed", "fillRemaining")
    /\ failed' = FALSE
    /\ UNCHANGED <<packed, remaining, inFlight, total, participantCount, ran, pc,
                   currentJob, jobEpoch, seen, wpc, dealt, outcome, overlap>>

FillRemaining ==
    /\ HostStep("fillRemaining", "fillInFlight")
    /\ remaining' = total
    /\ UNCHANGED <<packed, inFlight, failed, total, participantCount, ran, pc,
                   currentJob, jobEpoch, seen, wpc, dealt, outcome, overlap>>

FillInFlight ==
    /\ HostStep("fillInFlight", "fillSeen")
    /\ inFlight' = 0
    /\ UNCHANGED <<packed, remaining, failed, total, participantCount, ran, pc,
                   currentJob, jobEpoch, seen, wpc, dealt, outcome, overlap>>

FillSeen ==
    /\ HostStep("fillSeen", "fillParticipants")
    /\ seen' = 0
    /\ UNCHANGED <<jobVars, ran, pc, currentJob, jobEpoch, wpc, dealt, outcome, overlap>>

\* participantCount = 0, and the lanes of a reduce are allocated.
FillParticipants ==
    /\ HostStep("fillParticipants", "setParticipants")
    /\ participantCount' = 0
    /\ UNCHANGED <<packed, remaining, inFlight, failed, total, ran, pc,
                   currentJob, jobEpoch, seen, wpc, dealt, outcome, overlap>>

SetParticipants ==
    /\ HostStep("setParticipants", "deal")
    /\ participantCount' = WorkerCount + 1
    /\ UNCHANGED <<packed, remaining, inFlight, failed, total, ran, pc,
                   currentJob, jobEpoch, seen, wpc, dealt, outcome, overlap>>

DealRange ==
    /\ hpc = "deal"
    /\ packed' = [packed EXCEPT ![dealt] = InitialRange(total, dealt)]
    /\ dealt' = (dealt + 1) % P
    /\ hpc' = IF dealt = Host THEN "rearm" ELSE "deal"
    /\ WorkersUnchanged
    /\ UNCHANGED <<remaining, inFlight, failed, total, participantCount, ran, pc,
                   schedVars, seen, wpc, outcome, dispatches, overlap>>

\* remaining is stored a second time.
Rearm ==
    /\ HostStep("rearm", "bumpEpoch")
    /\ remaining' = total
    /\ UNCHANGED <<packed, inFlight, failed, total, participantCount, ran, pc,
                   currentJob, jobEpoch, seen, wpc, dealt, outcome, overlap>>

BumpEpoch ==
    /\ HostStep("bumpEpoch", "publish")
    /\ jobEpoch' = jobEpoch + 1
    /\ UNCHANGED <<jobVars, ran, pc, currentJob, seen, wpc, dealt, outcome, overlap>>

Publish ==
    /\ HostStep("publish", "notify")
    /\ currentJob' = TRUE
    /\ UNCHANGED <<jobVars, ran, pc, jobEpoch, seen, wpc, dealt, outcome, overlap>>

\* notify_all without scheduler.lock; then the host calls workOnJob itself.
Notify ==
    /\ HostStep("notify", "finished")
    /\ NotifyAll
    /\ Goto(Host, "ready")
    /\ UNCHANGED <<jobVars, ran, currentJob, jobEpoch, seen, dealt, outcome, overlap>>

\* Slips: the wait for inFlight, or the wait for seen, forgotten.
SlipAwaitedInFlight ==
    CASE hpc = "finished" -> JobFinished
      [] hpc = "inFlight" -> TRUE
      [] hpc = "seen"     -> seen >= WorkerCount
      [] OTHER            -> \A w \in Workers : At(w, "exited")

SlipAwaitedSeen ==
    CASE hpc = "finished" -> JobFinished
      [] hpc = "inFlight" -> inFlight = 0
      [] hpc = "seen"     -> TRUE
      [] OTHER            -> \A w \in Workers : At(w, "exited")

\* The host's wait loops, one after the other, once it is out of workOnJob, and
\* the joins of the shutdown.
Awaited ==
    CASE hpc = "finished" -> JobFinished
      [] hpc = "inFlight" -> inFlight = 0
      [] hpc = "seen"     -> seen >= WorkerCount
      [] OTHER            -> \A w \in Workers : At(w, "exited")

Await(from, to) ==
    /\ pc[Host] = "out"
    /\ Awaited
    /\ HostStep(from, to)
    /\ UNCHANGED <<jobVars, ran, pc, currentJob, jobEpoch, seen, wpc, dealt, outcome, overlap>>

AwaitFinished == Await("finished", "inFlight")
AwaitInFlight == Await("inFlight", "seen")
AwaitSeen     == Await("seen", "clear")

\* A wait loop goes round once more, or join() still blocks.
HostWaits ==
    /\ pc[Host] = "out"
    /\ hpc \in {"finished", "inFlight", "seen", "join"}
    /\ ~Awaited
    /\ UNCHANGED seVars

Clear ==
    /\ HostStep("clear", "reduce")
    /\ currentJob' = FALSE
    /\ UNCHANGED <<jobVars, ran, pc, jobEpoch, seen, wpc, dealt, outcome, overlap>>

\* finishReduce unless the job failed, free the lanes, return true either way:
\* OP_DISPATCH2 pushes the nil that reduceOut still holds.
Return ==
    /\ HostStep("reduce", "idle")
    /\ outcome' = IF failed THEN "nil" ELSE "value"
    /\ UNCHANGED <<jobVars, ran, pc, currentJob, jobEpoch, seen, wpc, dealt, overlap>>

-----------------------------------------------------------------------------
(* shutdownSIMTEngine, on the host's thread when the script is over        *)

\* Slip: the flag is set and the workers are notified without the lock.
SlipStopWorkers ==
    /\ hpc = "idle"
    /\ isRunning
    /\ isRunning' = FALSE
    /\ NotifyAll
    /\ hpc' = "join"
    /\ WorkersUnchanged
    /\ UNCHANGED <<jobVars, ran, pc, currentJob, jobEpoch, seen, dealt, outcome,
                   dispatches, overlap>>

\* The flag is set and the workers are notified under scheduler.lock.
StopWorkers ==
    /\ hpc = "idle"
    /\ isRunning
    /\ schedLock = None
    /\ isRunning' = FALSE
    /\ NotifyAll
    /\ hpc' = "join"
    /\ WorkersUnchanged
    /\ UNCHANGED <<jobVars, ran, pc, currentJob, jobEpoch, seen, dealt, outcome,
                   dispatches, overlap>>

Join ==
    /\ Awaited
    /\ HostStep("join", "stopped")
    /\ UNCHANGED <<jobVars, ran, pc, currentJob, jobEpoch, seen, wpc, dealt, outcome, overlap>>

-----------------------------------------------------------------------------
HostRuns ==
    \/ FillFailed
    \/ FillRemaining
    \/ FillInFlight
    \/ FillSeen
    \/ FillParticipants
    \/ SetParticipants
    \/ DealRange
    \/ Rearm
    \/ BumpEpoch
    \/ Publish
    \/ Notify
    \/ AwaitFinished
    \/ AwaitInFlight
    \/ AwaitSeen
    \/ Clear
    \/ Return
    \/ Join

InsideJob(p) == Work(p) /\ UNCHANGED engineVars

Stopped == hpc = "stopped" /\ UNCHANGED seVars

SENext ==
    \/ \E p \in Participants : InsideJob(p)
    \/ \E w \in Workers : WorkerLoop(w)
    \/ \E w \in Workers : SpuriousWake(w)
    \/ DispatchSerial
    \/ FillTotal
    \/ StopWorkers
    \/ HostRuns
    \/ HostWaits
    \/ Stopped

SESpec == SEInit /\ [][SENext]_seVars

\* Every thread that can run does so in the end.  Nothing is assumed of the
\* script (it may stop dispatching) nor of spurious wake-ups.
SEFairSpec ==
    /\ SESpec
    /\ \A w \in Workers : WF_seVars(InsideJob(w) \/ WorkerLoop(w))
    /\ WF_seVars(InsideJob(Host) \/ HostRuns)

-----------------------------------------------------------------------------
(* Properties.  overlap is the one known way in which dispatches disturb   *)
(* each other: a worker that has counted itself seen, but not yet inFlight, *)
(* when a dispatch that failed returns, and works in the next one.         *)

\* g_job is armed from the end of its filling to the end of the dispatch.
Armed == hpc \in {"bumpEpoch", "publish", "notify", "finished", "inFlight", "seen",
                  "clear", "reduce"}

\* A kernel runs only between the publishing of its job and the host's last
\* wait: never while the lanes are reduced or freed or the job is refilled.
KernelsOnlyWhileJobLive ==
    \A p \in Participants :
        (pc[p] = "run" /\ ~overlap) => hpc \in {"publish", "notify", "finished", "inFlight"}

\* A worker that takes a job, also on the strength of a stale currentJob, finds
\* g_job filled and its range dealt.
JoinsAnArmedJob == [][\A w \in Workers : (See(w) /\ ~overlap) => Armed]_seVars

FreshBlock(p) ==
    /\ reg[p].b \in Blocks \ ran
    /\ \A q \in Participants : blk[q] # reg[p].b

\* Each index of a dispatch is run by one participant, once, and nothing but
\* the indices of this dispatch is run, as long as no straggler of the last
\* dispatch got into this one.
StartsOnce ==
    [][\A p \in Participants : (ClaimCasWins(p) /\ ~overlap) => FreshBlock(p)]_seVars

\* A worker that missed the notification: it sleeps although a job it has not
\* taken is published and the host has already notified.
Missed(w) ==
    /\ At(w, "asleep")
    /\ currentJob
    /\ jobEpoch # lastEpoch[w]
    /\ hpc \in {"finished", "inFlight", "seen"}

\* Every dispatch returns, unless a worker misses the notification or a
\* straggler of the last job gets into this one.
ReturnsUnlessMissed ==
    (hpc = "bumpEpoch") ~> (hpc = "idle" \/ overlap \/ \E w \in Workers : Missed(w))

\* Every dispatch returns: the host waits for failed or remaining = 0 and for
\* the workers that take part, and gets all of it.
DispatchReturns == (hpc = "bumpEpoch") ~> (hpc = "idle")

\* The shutdown notifies under the lock, so no worker misses it: the host's
\* joins come back.
ShutdownJoins == (hpc = "join") ~> (hpc = "stopped")
=============================================================================
