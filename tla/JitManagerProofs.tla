--------------------------- MODULE JitManagerProofs ---------------------------
(***************************************************************************)
(* Proofs about JitManager, for any functions, threads, sessions and       *)
(* threshold: a function waits once for its compilation, the compiler does *)
(* not sleep through a request or a shutdown, and functions are freed      *)
(* after the last compilation has ended.                                   *)
(***************************************************************************)
EXTENDS JitManager, SequenceTheorems, TLAPS

-----------------------------------------------------------------------------
(* The inductive invariant *)

CompilerPlaces ==
    {"test", "lock", "predicate", "block", "wait", "take", "check", "compile", "store", "done"}
ThreadPlaces == {"idle", "hot", "compare", "ask", "push", "notify", "compile", "store"}
ClosingPlaces == {"open", "flag", "notify", "join", "joined", "closed"}

JMTypes ==
    /\ hotness \in [Func -> Int] /\ isQueued \in [Func -> BOOLEAN] /\ queue \in Seq(Func)
    /\ compiler \in [pc : CompilerPlaces, fn : Func \cup {None}]
    /\ thread \in [Thread -> [pc : ThreadPlaces, fn : Func \cup {None}, reg : Int]]
    /\ closing \in ClosingPlaces

\* A thread that is not idle has the function it is about; what the compiler
\* has taken stays marked, and so is not queued again.
Busy == \A t \in Thread : thread[t].pc # "idle" => thread[t].fn \in Func
QueueInv == QueuedOnce /\ (compiler.fn # None => isQueued[compiler.fn])

\* How far the shutdown has come.
ClosingInv ==
    /\ closing # "open" => \A t \in Thread : thread[t].pc = "idle"
    /\ closing \in {"joined", "closed"} => compiler.pc = "done"

JMInv == JMTypes /\ Busy /\ QueueInv /\ ClosingInv

LEMMA NoneIsNoFunction == None \notin Func
BY DEF None, Func

-----------------------------------------------------------------------------
(* The queue *)

\* A step that leaves the queue alone, after which the compiler works on what
\* it worked on, or on nothing.
LEMMA SameQueue ==
    ASSUME JMInv, UNCHANGED <<queue, isQueued>>, compiler'.fn \in {compiler.fn, None}
    PROVE  QueueInv'
<1>1. QueuedOnce'
  <2>1. IsInjective(queue')
    BY DEF JMInv, QueueInv, QueuedOnce
  <2>2. ASSUME NEW i \in DOMAIN queue'
        PROVE  isQueued'[queue'[i]] /\ queue'[i] # compiler'.fn
    <3>1. queue[i] \in Func
      BY <2>2, ElementOfSeq DEF JMInv, JMTypes
    <3>2. QED
      BY <2>2, <3>1, NoneIsNoFunction DEF JMInv, QueueInv, QueuedOnce
  <2>3. QED
    BY <2>1, <2>2 DEF QueuedOnce
<1>2. QED
  BY <1>1 DEF JMInv, QueueInv

\* A request is appended for a function that was not marked.
LEMMA PushedOnce ==
    ASSUME JMInv, NEW f \in Func, ~isQueued[f], queue' = Append(queue, f),
           isQueued' = [isQueued EXCEPT ![f] = TRUE], UNCHANGED compiler
    PROVE  QueueInv' /\ queue' \in Seq(Func) /\ isQueued' \in [Func -> BOOLEAN]
<1>1. queue \in Seq(Func) /\ isQueued \in [Func -> BOOLEAN] /\ QueuedOnce
  BY DEF JMInv, JMTypes, QueueInv
<1>2. /\ queue' \in Seq(Func) /\ Len(queue') = Len(queue) + 1 /\ Len(queue) \in Nat
      /\ \A i \in 1 .. Len(queue) : queue'[i] = queue[i] /\ queue[i] \in Func
      /\ queue'[Len(queue) + 1] = f
  BY <1>1
<1>3. \A i \in 1 .. Len(queue) : queue[i] # f /\ isQueued[queue[i]] /\ queue[i] # compiler.fn
  BY <1>1 DEF QueuedOnce
<1>4. compiler.fn # f /\ (compiler.fn # None => isQueued'[compiler.fn])
  BY <1>1, NoneIsNoFunction DEF JMInv, JMTypes, QueueInv
<1>5. DOMAIN queue' = 1 .. Len(queue) + 1 /\ DOMAIN queue = 1 .. Len(queue)
  BY <1>1, <1>2
<1>6. IsInjective(queue')
  <2>1. ASSUME NEW i \in DOMAIN queue', NEW j \in DOMAIN queue', queue'[i] = queue'[j]
        PROVE  i = j
    <3>1. i \in 1 .. Len(queue) \/ i = Len(queue) + 1
      BY <1>2, <1>5
    <3>2. j \in 1 .. Len(queue) \/ j = Len(queue) + 1
      BY <1>2, <1>5
    <3>3. CASE i \in 1 .. Len(queue) /\ j \in 1 .. Len(queue)
      BY <1>1, <1>2, <1>5, <2>1, <3>3 DEF QueuedOnce, IsInjective
    <3>4. QED
      BY <1>2, <1>3, <2>1, <3>1, <3>2, <3>3
  <2>2. QED
    BY <2>1 DEF IsInjective
<1>7. ASSUME NEW i \in DOMAIN queue'
      PROVE  isQueued'[queue'[i]] /\ queue'[i] # compiler'.fn
  <2>1. i \in 1 .. Len(queue) \/ i = Len(queue) + 1
    BY <1>2, <1>5
  <2>2. QED
    BY <1>1, <1>2, <1>3, <1>4, <2>1
<1>8. QED
  BY <1>1, <1>2, <1>4, <1>6, <1>7 DEF QueueInv, QueuedOnce

\* The compiler takes the first request.
LEMMA TakenOnce ==
    ASSUME JMInv, queue # <<>>, queue' = Tail(queue), UNCHANGED isQueued,
           compiler' = [pc |-> "check", fn |-> Head(queue)]
    PROVE  QueueInv' /\ queue' \in Seq(Func) /\ Head(queue) \in Func
<1>1. queue \in Seq(Func) /\ QueuedOnce
  BY DEF JMInv, JMTypes, QueueInv
<1>2. /\ Head(queue) = queue[1] /\ queue' \in Seq(Func) /\ Len(queue') = Len(queue) - 1
      /\ Len(queue) \in Nat \ {0} /\ Head(queue) \in Func
      /\ \A i \in 1 .. Len(queue') : queue'[i] = queue[i + 1]
  BY <1>1, HeadTailProperties, EmptySeq
<1>3. /\ DOMAIN queue = 1 .. Len(queue) /\ DOMAIN queue' = 1 .. Len(queue')
      /\ \A i \in DOMAIN queue' : i + 1 \in DOMAIN queue /\ i + 1 # 1 /\ 1 \in DOMAIN queue
  BY <1>1, <1>2
<1>4. IsInjective(queue')
  <2>1. ASSUME NEW i \in DOMAIN queue', NEW j \in DOMAIN queue', queue'[i] = queue'[j]
        PROVE  i = j
    <3>1. queue[i + 1] = queue[j + 1] /\ i + 1 \in DOMAIN queue /\ j + 1 \in DOMAIN queue
      BY <1>2, <1>3, <2>1
    <3>2. i + 1 = j + 1
      BY <1>1, <3>1 DEF QueuedOnce, IsInjective
    <3>3. QED
      BY <1>2, <1>3, <3>2
  <2>2. QED
    BY <2>1 DEF IsInjective
<1>5. ASSUME NEW i \in DOMAIN queue'
      PROVE  isQueued'[queue'[i]] /\ queue'[i] # compiler'.fn
  <2>1. queue'[i] = queue[i + 1] /\ i + 1 \in DOMAIN queue /\ 1 \in DOMAIN queue
    BY <1>2, <1>3
  <2>2. queue[i + 1] # queue[1]
    BY <1>1, <1>3, <2>1 DEF QueuedOnce, IsInjective
  <2>3. QED
    BY <1>1, <1>2, <2>1, <2>2 DEF QueuedOnce
<1>6. isQueued'[compiler'.fn]
  BY <1>1, <1>2, <1>3 DEF QueuedOnce
<1>7. QED
  BY <1>2, <1>4, <1>5, <1>6 DEF QueueInv, QueuedOnce

-----------------------------------------------------------------------------
(* Steps of the interpreting threads *)

Record == [pc : ThreadPlaces, fn : Func \cup {None}, reg : Int]

\* One thread goes on to r: it leaves what it waited for, or begins while the
\* VM is open.
LEMMA ThreadMoves ==
    ASSUME JMInv, NEW t \in Thread, NEW r \in Record, r.pc # "idle" => r.fn \in Func,
           thread' = [thread EXCEPT ![t] = r], UNCHANGED closing,
           closing = "open" \/ thread[t].pc # "idle",
           compiler.pc = "done" => compiler'.pc = "done"
    PROVE  thread' \in [Thread -> Record] /\ Busy' /\ ClosingInv'
<1>1. thread \in [Thread -> Record]
  BY DEF JMInv, JMTypes, Record
<1>2. closing = "open"
  BY DEF JMInv, ClosingInv
<1>3. thread' \in [Thread -> Record]
  BY <1>1
<1>4. Busy'
  BY <1>1 DEF JMInv, Busy
<1>5. ClosingInv'
  BY <1>2 DEF ClosingInv
<1>6. QED
  BY <1>3, <1>4, <1>5

LEMMA ThreadGoes ==
    ASSUME JMInv, NEW t \in Thread, NEW pc \in ThreadPlaces, GoTo(t, pc), UNCHANGED closing,
           thread[t].pc # "idle", compiler.pc = "done" => compiler'.pc = "done"
    PROVE  thread' \in [Thread -> Record] /\ Busy' /\ ClosingInv'
<1> DEFINE r == [pc |-> pc, fn |-> thread[t].fn, reg |-> thread[t].reg]
<1>1. thread \in [Thread -> Record] /\ thread[t].fn \in Func
  BY DEF JMInv, JMTypes, Record, Busy
<1>2. thread[t] \in Record
  BY <1>1
<1>3. r = [thread[t] EXCEPT !.pc = pc] /\ r \in Record /\ r.fn \in Func
  BY <1>1, <1>2 DEF Record
<1>4. thread' = [thread EXCEPT ![t] = r]
  BY <1>3 DEF GoTo
<1>5. QED
  BY <1>3, <1>4, ThreadMoves

LEMMA ThreadFinishes ==
    ASSUME JMInv, NEW t \in Thread, Finish(t), UNCHANGED closing,
           thread[t].pc # "idle", compiler.pc = "done" => compiler'.pc = "done"
    PROVE  thread' \in [Thread -> Record] /\ Busy' /\ ClosingInv'
<1>1. Idle \in Record /\ Idle.pc = "idle"
  BY DEF Idle, Record, ThreadPlaces
<1>2. QED
  BY <1>1, ThreadMoves DEF Finish

LEMMA ThreadStarts ==
    ASSUME JMInv, NEW t \in Thread, NEW f \in Func, NEW pc \in ThreadPlaces, NEW n \in Int,
           thread' = [thread EXCEPT ![t] = [pc |-> pc, fn |-> f, reg |-> n]],
           closing = "open", UNCHANGED <<closing, compiler>>
    PROVE  thread' \in [Thread -> Record] /\ Busy' /\ ClosingInv'
<1> DEFINE r == [pc |-> pc, fn |-> f, reg |-> n]
<1>1. r \in Record /\ r.fn \in Func
  BY DEF Record
<1>2. QED
  BY <1>1, ThreadMoves

\* Such a step that leaves the requests alone keeps the invariant.
LEMMA ThreadKeeps ==
    ASSUME JMInv, thread' \in [Thread -> Record] /\ Busy' /\ ClosingInv',
           UNCHANGED <<queue, isQueued, compiler, closing>>, hotness' \in [Func -> Int]
    PROVE  JMInv'
<1>1. QueueInv'
  BY SameQueue
<1>2. JMTypes'
  BY DEF JMInv, JMTypes, Record
<1>3. QED
  BY <1>1, <1>2 DEF JMInv

LEMMA ThreadPcs ==
    \A pc \in {"idle", "hot", "compare", "ask", "push", "notify", "compile", "store"} :
        pc \in ThreadPlaces
BY DEF ThreadPlaces

LEMMA InterpretKeeps == ASSUME JMInv, NEW t \in Thread, Interpret(t) PROVE JMInv'
<1>1. /\ hotness \in [Func -> Int] /\ isQueued \in [Func -> BOOLEAN] /\ queue \in Seq(Func)
      /\ thread \in [Thread -> Record]
  BY DEF JMInv, JMTypes, Record
<1>2. thread[t] \in Record /\ thread[t].reg \in Int
  BY <1>1 DEF Record
<1>3. thread[t].pc # "idle" => thread[t].fn \in Func
  BY DEF JMInv, Busy
<1>4. ASSUME NEW f \in Func, LoadHotness(t, f) PROVE JMInv'
  <2>1. hotness[f] + 1 \in Int
    BY <1>1
  <2>2. thread' \in [Thread -> Record] /\ Busy' /\ ClosingInv'
    BY <1>4, <2>1, ThreadStarts, ThreadPcs DEF LoadHotness
  <2>3. QED
    BY <1>1, <1>4, <2>2, ThreadKeeps DEF LoadHotness, funcVars, mgrVars
<1>5. ASSUME NEW f \in Func, Call(t, f) PROVE JMInv'
  <2>1. thread' = [thread EXCEPT ![t] = [pc |-> "compile", fn |-> f, reg |-> 0]]
    BY <1>5 DEF Call
  <2>2. /\ closing = "open" /\ UNCHANGED <<closing, compiler>>
        /\ 0 \in Int /\ "compile" \in ThreadPlaces
    BY <1>5, ThreadPcs DEF Call
  <2>3. thread' \in [Thread -> Record] /\ Busy' /\ ClosingInv'
    BY <2>1, <2>2, ThreadStarts
  <2>4. QED
    BY <1>1, <1>5, <2>3, ThreadKeeps DEF Call, funcVars, mgrVars
<1>6. CASE StoreHotness(t)
  <2>1. thread[t].pc # "idle" /\ hotness' \in [Func -> Int]
    BY <1>1, <1>2, <1>6 DEF StoreHotness, At
  <2>2. thread' \in [Thread -> Record] /\ Busy' /\ ClosingInv'
    BY <1>6, <2>1, ThreadGoes, ThreadPcs DEF StoreHotness
  <2>3. QED
    BY <1>6, <2>1, <2>2, ThreadKeeps DEF StoreHotness, mgrVars
<1>7. CASE CompareHotness(t)
  <2>1. thread[t].pc # "idle" /\ (GoTo(t, "ask") \/ Finish(t))
    BY <1>7 DEF CompareHotness, At
  <2>2. thread' \in [Thread -> Record] /\ Busy' /\ ClosingInv'
    BY <1>7, <2>1, ThreadGoes, ThreadFinishes, ThreadPcs DEF CompareHotness
  <2>3. QED
    BY <1>1, <1>7, <2>2, ThreadKeeps DEF CompareHotness, funcVars, mgrVars
<1>8. CASE Ask(t)
  <2>1. thread[t].pc # "idle" /\ (GoTo(t, "push") \/ Finish(t))
    BY <1>8 DEF Ask, At
  <2>2. thread' \in [Thread -> Record] /\ Busy' /\ ClosingInv'
    BY <1>8, <2>1, ThreadGoes, ThreadFinishes, ThreadPcs DEF Ask
  <2>3. QED
    BY <1>1, <1>8, <2>2, ThreadKeeps DEF Ask, funcVars, mgrVars
<1>9. CASE AlreadyQueued(t)
  <2>1. thread' \in [Thread -> Record] /\ Busy' /\ ClosingInv'
    BY <1>9, ThreadFinishes DEF AlreadyQueued, At
  <2>2. QED
    BY <1>1, <1>9, <2>1, ThreadKeeps DEF AlreadyQueued, funcVars, mgrVars
<1>10. CASE Push(t)
  <2> DEFINE f == thread[t].fn
  <2>1. f \in Func /\ ~isQueued[f] /\ queue' = Append(queue, f) /\ UNCHANGED compiler
        /\ isQueued' = [isQueued EXCEPT ![f] = TRUE]
    BY <1>3, <1>10 DEF Push, At
  <2>2. QueueInv' /\ queue' \in Seq(Func) /\ isQueued' \in [Func -> BOOLEAN]
    BY <2>1, PushedOnce
  <2>3. thread' \in [Thread -> Record] /\ Busy' /\ ClosingInv'
    BY <1>10, ThreadGoes, ThreadPcs DEF Push, At
  <2>4. UNCHANGED <<hotness, compiler, closing>>
    BY <1>10 DEF Push
  <2>5. QED
    BY <2>2, <2>3, <2>4 DEF JMInv, JMTypes, Record
<1>11. CASE Notify(t)
  <2>1. /\ compiler' \in [pc : CompilerPlaces, fn : Func \cup {None}]
        /\ compiler'.fn = compiler.fn /\ (compiler.pc = "done" => compiler'.pc = "done")
    BY <1>11 DEF Notify, NotifyCompiler, JMInv, JMTypes, CompilerPlaces
  <2>2. thread' \in [Thread -> Record] /\ Busy' /\ ClosingInv'
    BY <1>11, <2>1, ThreadFinishes DEF Notify, At
  <2>3. UNCHANGED <<queue, isQueued, hotness, closing>>
    BY <1>11 DEF Notify, funcVars, mgrVars
  <2>4. QueueInv'
    BY <2>1, <2>3, SameQueue
  <2>5. QED
    BY <1>1, <2>1, <2>2, <2>3, <2>4 DEF JMInv, JMTypes, Record
<1>12. CASE CompileAtCall(t)
  <2>1. thread[t].pc # "idle" /\ (GoTo(t, "store") \/ Finish(t))
    BY <1>12 DEF CompileAtCall, At
  <2>2. thread' \in [Thread -> Record] /\ Busy' /\ ClosingInv'
    BY <1>12, <2>1, ThreadGoes, ThreadFinishes, ThreadPcs DEF CompileAtCall
  <2>3. QED
    BY <1>1, <1>12, <2>2, ThreadKeeps DEF CompileAtCall, mgrVars
<1>13. CASE StoreAtCall(t)
  <2>1. thread' \in [Thread -> Record] /\ Busy' /\ ClosingInv'
    BY <1>13, ThreadFinishes DEF StoreAtCall, At
  <2>2. QED
    BY <1>1, <1>13, <2>1, ThreadKeeps DEF StoreAtCall, mgrVars
<1>14. QED
  BY <1>4, <1>5, <1>6, <1>7, <1>8, <1>9, <1>10, <1>11, <1>12, <1>13 DEF Interpret

-----------------------------------------------------------------------------
(* Steps of the compiler and of the shutdown *)

\* The compiler goes on, with what it had or with nothing.
LEMMA CompilerKeeps ==
    ASSUME JMInv, compiler' \in [pc : CompilerPlaces, fn : Func \cup {None}],
           compiler'.fn \in {compiler.fn, None}, compiler.pc # "done",
           UNCHANGED <<queue, isQueued, hotness, thread, closing>>
    PROVE  JMInv'
<1>1. QueueInv'
  BY SameQueue
<1>2. JMTypes' /\ Busy'
  BY DEF JMInv, JMTypes, Busy
<1>3. ClosingInv'
  BY DEF JMInv, ClosingInv
<1>4. QED
  BY <1>1, <1>2, <1>3 DEF JMInv

LEMMA CompilerGoes ==
    ASSUME JMInv, NEW pc \in CompilerPlaces, CompilerTo(pc), compiler.pc # "done",
           UNCHANGED <<queue, isQueued, hotness, thread, closing>>
    PROVE  JMInv'
<1>1. compiler' \in [pc : CompilerPlaces, fn : Func \cup {None}] /\ compiler'.fn = compiler.fn
  BY DEF JMInv, JMTypes, CompilerTo
<1>2. QED
  BY <1>1, CompilerKeeps

LEMMA CompilerDrops ==
    ASSUME JMInv, Drop, compiler.pc # "done",
           UNCHANGED <<queue, isQueued, hotness, thread, closing>>
    PROVE  JMInv'
<1>1. compiler' \in [pc : CompilerPlaces, fn : Func \cup {None}] /\ compiler'.fn = None
  BY DEF Drop, CompilerPlaces
<1>2. QED
  BY <1>1, CompilerKeeps

LEMMA CompilerPcs ==
    \A pc \in {"test", "lock", "predicate", "block", "wait", "take", "check", "compile",
               "store", "done"} : pc \in CompilerPlaces
BY DEF CompilerPlaces

LEMMA WorkerLoopKeeps == ASSUME JMInv, WorkerLoop \/ SpuriousWake PROVE JMInv'
<1> USE DEF CompilerAt
<1>1. CASE TestRunning
  <2>1. CompilerTo("lock") \/ CompilerTo("done")
    BY <1>1 DEF TestRunning
  <2>2. QED
    BY <1>1, <2>1, CompilerGoes, CompilerPcs DEF TestRunning, funcVars, mgrVars
<1>2. CASE Acquire
  BY <1>2, CompilerGoes, CompilerPcs DEF Acquire, funcVars
<1>3. CASE Predicate
  <2>1. CompilerTo("take") \/ CompilerTo("block")
    BY <1>3 DEF Predicate
  <2>2. QED
    BY <1>3, <2>1, CompilerGoes, CompilerPcs DEF Predicate, funcVars, mgrVars
<1>4. CASE Block
  BY <1>4, CompilerGoes, CompilerPcs DEF Block, funcVars
<1>5. CASE SpuriousWake
  BY <1>5, CompilerGoes, CompilerPcs DEF SpuriousWake, funcVars, mgrVars
<1>6. CASE Break
  BY <1>6, CompilerGoes, CompilerPcs DEF Break, funcVars
<1>7. CASE Take
  <2>1. /\ queue # <<>> /\ queue' = Tail(queue) /\ compiler' = [pc |-> "check", fn |-> Head(queue)]
        /\ UNCHANGED <<isQueued, hotness, thread, closing>> /\ compiler.pc # "done"
    BY <1>7 DEF Take, funcVars
  <2>2. QueueInv' /\ queue' \in Seq(Func) /\ Head(queue) \in Func
    BY <2>1, TakenOnce
  <2>3. JMTypes' /\ Busy'
    BY <2>1, <2>2 DEF JMInv, JMTypes, Busy, CompilerPlaces
  <2>4. ClosingInv'
    BY <2>1 DEF JMInv, ClosingInv
  <2>5. QED
    BY <2>2, <2>3, <2>4 DEF JMInv
<1>8. CASE CheckNative
  <2>1. Drop \/ CompilerTo("compile")
    BY <1>8 DEF CheckNative
  <2>2. QED
    BY <1>8, <2>1, CompilerGoes, CompilerDrops, CompilerPcs DEF CheckNative, funcVars, mgrVars
<1>9. CASE CompileInBackground
  <2>1. Drop \/ CompilerTo("store")
    BY <1>9 DEF CompileInBackground
  <2>2. QED
    BY <1>9, <2>1, CompilerGoes, CompilerDrops, CompilerPcs DEF CompileInBackground, mgrVars
<1>10. CASE StoreInBackground
  BY <1>10, CompilerDrops DEF StoreInBackground, mgrVars
<1>11. QED
  BY <1>1, <1>2, <1>3, <1>4, <1>5, <1>6, <1>7, <1>8, <1>9, <1>10 DEF WorkerLoop

LEMMA ClosingKeeps == ASSUME JMInv, Close \/ Shutdown \/ Reopen PROVE JMInv'
<1>1. /\ compiler' \in [pc : CompilerPlaces, fn : Func \cup {None}] /\ closing' \in ClosingPlaces
      /\ compiler'.fn \in {compiler.fn, None} /\ UNCHANGED <<queue, isQueued, hotness, thread>>
  <2>1. CASE Close \/ ClearRunning \/ Join \/ FreeSlabs
    BY <2>1 DEF Close, ClearRunning, Join, FreeSlabs, funcVars, mgrVars, ClosingPlaces,
                JMInv, JMTypes
  <2>2. CASE NotifyAll
    BY <2>2 DEF NotifyAll, NotifyCompiler, funcVars, mgrVars, ClosingPlaces, CompilerPlaces,
                JMInv, JMTypes
  <2>3. CASE Reopen
    BY <2>3 DEF Reopen, funcVars, ClosingPlaces, CompilerPlaces
  <2>4. QED
    BY <2>1, <2>2, <2>3 DEF Shutdown
<1>2. QueueInv'
  BY <1>1, SameQueue
<1>3. JMTypes' /\ Busy'
  BY <1>1 DEF JMInv, JMTypes, Busy
<1>4. ClosingInv'
  <2>1. CASE Close
    BY <2>1 DEF Close, At, ClosingInv, JMInv
  <2>2. CASE ClearRunning
    BY <2>2 DEF ClearRunning, ClosingInv, JMInv
  <2>3. CASE NotifyAll
    BY <2>3 DEF NotifyAll, ClosingInv, JMInv
  <2>4. CASE Join
    BY <2>4 DEF Join, CompilerAt, ClosingInv, JMInv
  <2>5. CASE FreeSlabs
    BY <2>5 DEF FreeSlabs, ClosingInv, JMInv
  <2>6. CASE Reopen
    BY <2>6 DEF Reopen, ClosingInv, JMInv
  <2>7. QED
    BY <2>1, <2>2, <2>3, <2>4, <2>5, <2>6 DEF Shutdown
<1>5. QED
  BY <1>2, <1>3, <1>4 DEF JMInv

-----------------------------------------------------------------------------
(* The theorems *)

LEMMA JMInitially == JMInit => JMInv
<1> SUFFICES ASSUME JMInit PROVE JMInv
  OBVIOUS
<1>1. Idle \in Record /\ Idle.pc = "idle"
  BY DEF Idle, Record, ThreadPlaces
<1>2. JMTypes
  BY <1>1 DEF JMInit, JMTypes, Record, CompilerPlaces, ClosingPlaces
<1>3. Busy /\ ClosingInv
  BY <1>1 DEF JMInit, Busy, ClosingInv
<1>4. QueueInv
  BY DEF JMInit, QueueInv, QueuedOnce, IsInjective
<1>5. QED
  BY <1>2, <1>3, <1>4 DEF JMInv

LEMMA JMSteps == JMInv /\ [JMNext]_jmVars => JMInv'
<1> SUFFICES ASSUME JMInv, [JMNext]_jmVars PROVE JMInv'
  OBVIOUS
<1>1. CASE UNCHANGED jmVars
  <2>1. UNCHANGED <<queue, isQueued, hotness, compiler, thread, closing>>
    BY <1>1 DEF jmVars, funcVars, mgrVars
  <2>2. QueueInv'
    BY <2>1, SameQueue
  <2>3. QED
    BY <2>1, <2>2 DEF JMInv, JMTypes, Busy, ClosingInv
<1>2. QED
  BY <1>1, InterpretKeeps, WorkerLoopKeeps, ClosingKeeps DEF JMNext

\* The queue, the compiler and the shutdown keep the inductive invariant.
THEOREM JMInvariance == JMSpec => []JMInv
BY JMInitially, JMSteps, PTL DEF JMSpec

\* However many threads find a function hot at once, it is queued once, and not
\* again while the compiler works on it.
THEOREM RequestedOnce == JMSpec => []QueuedOnce
<1>1. JMInv => QueuedOnce
  BY DEF JMInv, QueueInv
<1>2. QED
  BY <1>1, JMInvariance, PTL

-----------------------------------------------------------------------------
(* Notifications *)

\* The mutex is held from Acquire to Block, Break or Take.  While the compiler
\* holds it nobody adds a request or clears the flag: what Predicate saw still
\* holds when the compiler lets go and sleeps.
WaitInv ==
    /\ lock = IF compiler.pc \in {"predicate", "block", "take"} THEN "compiler" ELSE Nobody
    /\ CompilerAt("block") => queue = <<>> /\ isRunning
    /\ NoWakeupLost

\* A thread that does not push and had nobody to notify disturbs nobody.
LEMMA NotifiersStay ==
    ASSUME JMInv, WaitInv, NEW t \in Thread, NEW r, thread[t].pc # "notify",
           thread' = [thread EXCEPT ![t] = r],
           UNCHANGED <<queue, lock, isRunning, compiler, closing>>
    PROVE  WaitInv'
<1>1. ASSUME NEW u \in Thread, At(u, "notify") PROVE At(u, "notify")'
  <2>1. u # t /\ thread[u].pc = "notify"
    BY <1>1 DEF At
  <2>2. thread'[u] = thread[u]
    BY <2>1 DEF JMInv, JMTypes
  <2>3. QED
    BY <2>1, <2>2 DEF At
<1>2. NoWakeupLost'
  BY <1>1 DEF WaitInv, NoWakeupLost, CompilerAt
<1>3. QED
  BY <1>2 DEF WaitInv, CompilerAt

\* After a notification the compiler does not sleep.
LEMMA NotifiedWaits ==
    ASSUME JMInv, WaitInv, NotifyCompiler, UNCHANGED <<queue, lock, isRunning>>
    PROVE  WaitInv'
<1>1. CASE compiler.pc = "wait"
  <2>1. compiler'.pc = "lock"
    BY <1>1 DEF NotifyCompiler, JMInv, JMTypes
  <2>2. QED
    BY <1>1, <2>1 DEF WaitInv, NoWakeupLost, CompilerAt
<1>2. CASE compiler.pc # "wait"
  <2>1. compiler' = compiler
    BY <1>2 DEF NotifyCompiler
  <2>2. QED
    BY <1>2, <2>1 DEF WaitInv, NoWakeupLost, CompilerAt
<1>3. QED
  BY <1>1, <1>2

LEMMA InterpretWaits == ASSUME JMInv, WaitInv, NEW t \in Thread, Interpret(t) PROVE WaitInv'
<1>1. ASSUME UNCHANGED <<queue, lock, isRunning, compiler, closing>>, thread[t].pc # "notify",
             \E r : thread' = [thread EXCEPT ![t] = r]
      PROVE  WaitInv'
  BY <1>1, NotifiersStay
<1>2. CASE Push(t)
  <2>1. lock = Nobody /\ UNCHANGED <<lock, isRunning, compiler, closing>>
    BY <1>2 DEF Push
  <2>2. compiler.pc # "block"
    BY <2>1 DEF WaitInv, Nobody
  <2>3. thread'[t].pc = "notify"
    BY <1>2 DEF Push, GoTo, JMInv, JMTypes
  <2>4. NoWakeupLost'
    BY <2>3 DEF NoWakeupLost, At
  <2>5. QED
    BY <2>1, <2>2, <2>4 DEF WaitInv, CompilerAt
<1>3. CASE Notify(t)
  <2>1. NotifyCompiler /\ UNCHANGED <<queue, lock, isRunning, closing>>
    BY <1>3 DEF Notify, mgrVars
  <2>2. QED
    BY <2>1, NotifiedWaits
<1>4. CASE \E f \in Func : LoadHotness(t, f) \/ Call(t, f)
  BY <1>1, <1>4 DEF LoadHotness, Call, At, mgrVars
<1>5. CASE StoreHotness(t) \/ CompareHotness(t) \/ Ask(t) \/ AlreadyQueued(t)
  BY <1>1, <1>5 DEF StoreHotness, CompareHotness, Ask, AlreadyQueued, GoTo, Finish, At, mgrVars
<1>6. CASE CompileAtCall(t) \/ StoreAtCall(t)
  BY <1>1, <1>6 DEF CompileAtCall, StoreAtCall, GoTo, Finish, At, mgrVars
<1>7. QED
  BY <1>2, <1>3, <1>4, <1>5, <1>6 DEF Interpret

LEMMA WorkerLoopWaits == ASSUME JMInv, WaitInv, WorkerLoop \/ SpuriousWake PROVE WaitInv'
<1> DEFINE held == {"predicate", "block", "take"}
<1>1. \A pc : CompilerTo(pc) => compiler'.pc = pc
  BY DEF CompilerTo, JMInv, JMTypes
<1>2. Drop => compiler'.pc = "test"
  BY DEF Drop
<1>3. ASSUME compiler.pc \notin held, compiler'.pc \notin held \cup {"wait"}, UNCHANGED lock
      PROVE  WaitInv'
  BY <1>3 DEF WaitInv, NoWakeupLost, CompilerAt
<1>4. CASE TestRunning \/ SpuriousWake \/ CheckNative
  BY <1>1, <1>2, <1>3, <1>4 DEF TestRunning, SpuriousWake, CheckNative, CompilerAt, mgrVars
<1>5. CASE CompileInBackground \/ StoreInBackground
  BY <1>1, <1>2, <1>3, <1>5 DEF CompileInBackground, StoreInBackground, CompilerAt, mgrVars
<1>6. CASE Acquire
  <2>1. compiler'.pc = "predicate" /\ lock' = "compiler"
    BY <1>1, <1>6 DEF Acquire
  <2>2. QED
    BY <2>1 DEF WaitInv, NoWakeupLost, CompilerAt
<1>7. CASE Predicate
  <2>1. compiler.pc = "predicate" /\ UNCHANGED <<queue, lock, isRunning>>
    BY <1>7 DEF Predicate, CompilerAt, mgrVars
  <2>2. \/ compiler'.pc = "take"
        \/ compiler'.pc = "block" /\ queue = <<>> /\ isRunning
    BY <1>1, <1>7 DEF Predicate
  <2>3. QED
    BY <2>1, <2>2 DEF WaitInv, NoWakeupLost, CompilerAt
<1>8. CASE Block
  <2>1. compiler'.pc = "wait" /\ lock' = Nobody /\ UNCHANGED <<queue, isRunning>>
    BY <1>1, <1>8 DEF Block
  <2>2. queue = <<>> /\ isRunning
    BY <1>8 DEF Block, WaitInv
  <2>3. QED
    BY <2>1, <2>2 DEF WaitInv, NoWakeupLost, CompilerAt
<1>9. CASE Break \/ Take
  <2>1. compiler'.pc \in {"done", "check"} /\ lock' = Nobody
    BY <1>1, <1>9 DEF Break, Take
  <2>2. QED
    BY <2>1 DEF WaitInv, NoWakeupLost, CompilerAt
<1>10. QED
  BY <1>4, <1>5, <1>6, <1>7, <1>8, <1>9 DEF WorkerLoop

LEMMA ClosingWaits == ASSUME JMInv, WaitInv, Close \/ Shutdown \/ Reopen PROVE WaitInv'
<1>1. CASE Close
  <2>1. closing # "notify" /\ UNCHANGED <<queue, lock, isRunning, compiler, thread>>
    BY <1>1 DEF Close, mgrVars
  <2>2. QED
    BY <2>1 DEF WaitInv, NoWakeupLost, CompilerAt, At
<1>2. CASE ClearRunning
  <2>1. lock = Nobody /\ closing' = "notify" /\ UNCHANGED <<queue, lock, compiler>>
    BY <1>2 DEF ClearRunning
  <2>2. compiler.pc # "block"
    BY <2>1 DEF WaitInv, Nobody
  <2>3. QED
    BY <2>1, <2>2 DEF WaitInv, NoWakeupLost, CompilerAt
<1>3. CASE NotifyAll
  <2>1. NotifyCompiler /\ UNCHANGED <<queue, lock, isRunning>>
    BY <1>3 DEF NotifyAll, mgrVars
  <2>2. QED
    BY <2>1, NotifiedWaits
<1>4. CASE Join \/ FreeSlabs
  <2>1. closing # "notify" /\ UNCHANGED <<queue, lock, isRunning, compiler, thread>>
    BY <1>4 DEF Join, FreeSlabs, mgrVars
  <2>2. QED
    BY <2>1 DEF WaitInv, NoWakeupLost, CompilerAt, At
<1>5. CASE Reopen
  <2>1. compiler.pc = "done" /\ compiler'.pc = "test" /\ UNCHANGED lock
    BY <1>5 DEF Reopen, JMInv, ClosingInv
  <2>2. QED
    BY <2>1 DEF WaitInv, NoWakeupLost, CompilerAt
<1>6. QED
  BY <1>1, <1>2, <1>3, <1>4, <1>5 DEF Shutdown

LEMMA WaitSteps == JMInv /\ WaitInv /\ [JMNext]_jmVars => WaitInv'
<1>1. UNCHANGED jmVars /\ WaitInv => WaitInv'
  BY DEF jmVars, mgrVars, WaitInv, NoWakeupLost, CompilerAt, At
<1>2. QED
  BY <1>1, InterpretWaits, WorkerLoopWaits, ClosingWaits DEF JMNext

\* No request and no shutdown can come between the compiler's test and its
\* sleep: whenever it sleeps over one, a notification is on its way.
THEOREM NotificationOnItsWay == JMSpec => []NoWakeupLost
<1>1. JMInit => WaitInv
  BY DEF JMInit, WaitInv, NoWakeupLost, CompilerAt, Nobody
<1>2. WaitInv => NoWakeupLost
  BY DEF WaitInv
<1>3. QED
  BY <1>1, <1>2, WaitSteps, JMInvariance, PTL DEF JMSpec

-----------------------------------------------------------------------------
(* Freeing *)

\* Only FreeSlabs frees functions, after the compiler was joined, and no
\* thread compiles then.
LEMMA FreeingStep ==
    ASSUME JMInv, JMNext, freed' # freed
    PROVE  CompilerAt("done") /\ \A t \in Thread : At(t, "idle")
<1>1. FreeSlabs
  <2>1. ASSUME NEW t \in Thread, Interpret(t) PROVE freed' = freed
    BY <2>1 DEF Interpret, LoadHotness, Call, StoreHotness, CompareHotness, Ask, AlreadyQueued,
                Push, Notify, CompileAtCall, StoreAtCall
  <2>2. WorkerLoop \/ SpuriousWake => freed' = freed
    BY DEF WorkerLoop, SpuriousWake, TestRunning, Acquire, Predicate, Block, Break, Take,
           CheckNative, CompileInBackground, StoreInBackground
  <2>3. Close \/ ClearRunning \/ NotifyAll \/ Join \/ Reopen => freed' = freed
    BY DEF Close, ClearRunning, NotifyAll, Join, Reopen
  <2>4. QED
    BY <2>1, <2>2, <2>3 DEF JMNext, Shutdown
<1>2. QED
  BY <1>1 DEF FreeSlabs, JMInv, ClosingInv, CompilerAt, At

\* The functions are freed when the compiler thread has ended and no thread is
\* inside a compilation of its own.
THEOREM FreedWhenIdle == JMSpec => FreedAfterLastCompile
<1>1. JMInv /\ [JMNext]_jmVars =>
        [freed' # freed => CompilerAt("done") /\ \A t \in Thread : At(t, "idle")]_jmVars
  BY FreeingStep
<1>2. QED
  BY <1>1, JMInvariance, PTL DEF JMSpec, FreedAfterLastCompile
=============================================================================
