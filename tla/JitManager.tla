---------------------------- MODULE JitManager ----------------------------
(***************************************************************************)
(* Background compilation: jit.cpp's Manager with its queue and its        *)
(* compiler thread, the interpreter threads that count loop iterations and *)
(* ask for a compilation, the calls that compile at once, and the shutdown *)
(* when a VM is closed.  A later isli_open starts the manager again.       *)
(*                                                                         *)
(* A critical section that nobody can see into is one step.  hotness and   *)
(* the unlocked isQueued are plain variables that several threads touch;   *)
(* each access is a step, and where the program reads hotness twice the    *)
(* build may keep the first value or load it again.                        *)
(*                                                                         *)
(* What the machine code does is left out: a function has a native entry   *)
(* or it has none.                                                         *)
(***************************************************************************)
EXTENDS Integers, Sequences, SequencesExt

CONSTANTS
    Function,        \* the functions of one script
    Thread,          \* threads that interpret: the host and the SIMT workers
    Sessions,        \* how often a VM is opened
    HotThreshold     \* JIT_HOT_THRESHOLD; 20 in the code

ASSUME JitAssumption == Sessions \in Nat \ {0} /\ HotThreshold \in Nat \ {0}

VARIABLES
    kind,        \* per function, in every VM: "script" has no name, "good" can be compiled,
                 \* "bad" has an instruction that cannot
    hotness, isQueued, jitNative, jitDeclined,     \* the fields of ObjFunction
    queue, lock, isRunning,                        \* the fields of Manager
    compiler,    \* the manager's thread: its pc and the function it took
    thread,      \* the interpreting threads: pc, function, register
    closing,     \* the host in shutdown and VM::free
    session,     \* which VM is open
    freed        \* the functions that were freed with their VM

funcVars == <<kind, hotness, isQueued, jitNative, jitDeclined>>
mgrVars == <<queue, lock, isRunning>>
jmVars == <<funcVars, mgrVars, compiler, thread, closing, session, freed>>

Func == (1 .. Sessions) \X Function       \* each VM has functions of its own
Nobody == "nobody"
None == <<>>
Idle == [pc |-> "idle", fn |-> None, reg |-> 0]

Alive == {f \in Func : f[1] = session} \ freed

JMInit ==
    /\ kind \in [Function -> {"script", "good", "bad"}]
    /\ hotness = [f \in Func |-> 0]
    /\ isQueued = [f \in Func |-> FALSE]
    /\ jitNative = [f \in Func |-> FALSE]
    /\ jitDeclined = [f \in Func |-> FALSE]
    /\ queue = <<>> /\ lock = Nobody
    /\ isRunning = TRUE                              \* Manager::init
    /\ compiler = [pc |-> "test", fn |-> None]
    /\ thread = [t \in Thread |-> Idle]
    /\ closing = "open" /\ session = 1 /\ freed = {}

At(t, pc) == thread[t].pc = pc
GoTo(t, pc) == thread' = [thread EXCEPT ![t].pc = pc]
Finish(t) == thread' = [thread EXCEPT ![t] = Idle]

\* notify_one and notify_all: the compiler is the only thread that waits.
NotifyCompiler ==
    compiler' = IF compiler.pc = "wait" THEN [compiler EXCEPT !.pc = "lock"] ELSE compiler
-----------------------------------------------------------------------------
(* An interpreting thread: OP_LOOP and its relatives count iterations. *)

LoadHotness(t, f) ==
    /\ closing = "open" /\ At(t, "idle") /\ f \in Alive
    /\ hotness[f] < HotThreshold
    /\ thread' = [thread EXCEPT ![t] = [pc |-> "hot", fn |-> f, reg |-> hotness[f] + 1]]
    /\ UNCHANGED <<funcVars, mgrVars, compiler, closing, session, freed>>

StoreHotness(t) ==
    /\ At(t, "hot")
    /\ hotness' = [hotness EXCEPT ![thread[t].fn] = thread[t].reg]
    /\ GoTo(t, "compare")
    /\ UNCHANGED <<kind, isQueued, jitNative, jitDeclined,
                   mgrVars, compiler, closing, session, freed>>

CompareHotness(t) ==
    /\ At(t, "compare")
    /\ \E seen \in {thread[t].reg, hotness[thread[t].fn]} :
        IF seen = HotThreshold THEN GoTo(t, "ask") ELSE Finish(t)
    /\ UNCHANGED <<funcVars, mgrVars, compiler, closing, session, freed>>

\* requestCompilation: the tests without the lock ...
Ask(t) ==
    LET f == thread[t].fn IN
    /\ At(t, "ask")
    /\ IF kind[f[2]] = "script" \/ jitNative[f] \/ isQueued[f] THEN Finish(t) ELSE GoTo(t, "push")
    /\ UNCHANGED <<funcVars, mgrVars, compiler, closing, session, freed>>

\* ... and the one with it.
AlreadyQueued(t) ==
    /\ At(t, "push") /\ lock = Nobody /\ isQueued[thread[t].fn]
    /\ Finish(t)
    /\ UNCHANGED <<funcVars, mgrVars, compiler, closing, session, freed>>

\* Two bugs to compare with: no second test of isQueued; no lock.
SlipPushAgain(t) ==
    LET f == thread[t].fn IN
    /\ At(t, "push") /\ lock = Nobody
    /\ isQueued' = [isQueued EXCEPT ![f] = TRUE]
    /\ queue' = Append(queue, f)
    /\ GoTo(t, "notify")
    /\ UNCHANGED <<kind, hotness, jitNative, jitDeclined, lock, isRunning,
                   compiler, closing, session, freed>>

SlipPushUnlocked(t) ==
    LET f == thread[t].fn IN
    /\ At(t, "push") /\ ~isQueued[f]
    /\ isQueued' = [isQueued EXCEPT ![f] = TRUE]
    /\ queue' = Append(queue, f)
    /\ GoTo(t, "notify")
    /\ UNCHANGED <<kind, hotness, jitNative, jitDeclined, lock, isRunning,
                   compiler, closing, session, freed>>

Push(t) ==
    LET f == thread[t].fn IN
    /\ At(t, "push") /\ lock = Nobody /\ ~isQueued[f]
    /\ isQueued' = [isQueued EXCEPT ![f] = TRUE]
    /\ queue' = Append(queue, f)
    /\ GoTo(t, "notify")
    /\ UNCHANGED <<kind, hotness, jitNative, jitDeclined, lock, isRunning,
                   compiler, closing, session, freed>>

Notify(t) ==
    /\ At(t, "notify")
    /\ NotifyCompiler
    /\ Finish(t)
    /\ UNCHANGED <<funcVars, mgrVars, closing, session, freed>>

\* compileFunction, under a mutex of its own: code, or none; a function it
\* cannot compile is declined for good, a full code pool is not remembered.
Yields(f, code) ==
    \/ code = TRUE /\ (jitNative[f] \/ (kind[f[2]] = "good" /\ ~jitDeclined[f]))
    \/ code = FALSE /\ ~jitNative[f]

CompileFunction(f) ==
    jitDeclined' = [jitDeclined EXCEPT ![f] = @ \/ (kind[f[2]] = "bad" /\ ~jitNative[f])]

\* callValue and jit_helper_call: a function without native code is compiled
\* at once, and the entry is stored after compileFunction has let go of its mutex.
Call(t, f) ==
    /\ closing = "open" /\ At(t, "idle") /\ f \in Alive
    /\ ~jitNative[f] /\ kind[f[2]] # "script"
    /\ thread' = [thread EXCEPT ![t] = [pc |-> "compile", fn |-> f, reg |-> 0]]
    /\ UNCHANGED <<funcVars, mgrVars, compiler, closing, session, freed>>

CompileAtCall(t) ==
    LET f == thread[t].fn IN
    /\ At(t, "compile")
    /\ CompileFunction(f)
    /\ \E code \in BOOLEAN : Yields(f, code) /\ (IF code THEN GoTo(t, "store") ELSE Finish(t))
    /\ UNCHANGED <<kind, hotness, isQueued, jitNative, mgrVars, compiler, closing, session, freed>>

StoreAtCall(t) ==
    /\ At(t, "store")
    /\ jitNative' = [jitNative EXCEPT ![thread[t].fn] = TRUE]
    /\ Finish(t)
    /\ UNCHANGED <<kind, hotness, isQueued, jitDeclined,
                   mgrVars, compiler, closing, session, freed>>

Interpret(t) ==
    \/ \E f \in Func : LoadHotness(t, f) \/ Call(t, f)
    \/ StoreHotness(t) \/ CompareHotness(t)
    \/ Ask(t) \/ AlreadyQueued(t) \/ Push(t) \/ Notify(t)
    \/ CompileAtCall(t) \/ StoreAtCall(t)
-----------------------------------------------------------------------------
(* Manager::workerLoop *)

CompilerAt(pc) == compiler.pc = pc
CompilerTo(pc) == compiler' = [compiler EXCEPT !.pc = pc]

TestRunning ==
    /\ CompilerAt("test")
    /\ CompilerTo(IF isRunning THEN "lock" ELSE "done")
    /\ UNCHANGED <<funcVars, mgrVars, thread, closing, session, freed>>

Acquire ==
    /\ CompilerAt("lock") /\ lock = Nobody
    /\ lock' = "compiler"
    /\ CompilerTo("predicate")
    /\ UNCHANGED <<funcVars, queue, isRunning, thread, closing, session, freed>>

Predicate ==
    /\ CompilerAt("predicate")
    /\ CompilerTo(IF ~isRunning \/ queue # <<>> THEN "take" ELSE "block")
    /\ UNCHANGED <<funcVars, mgrVars, thread, closing, session, freed>>

Block ==
    /\ CompilerAt("block")
    /\ lock' = Nobody
    /\ CompilerTo("wait")
    /\ UNCHANGED <<funcVars, queue, isRunning, thread, closing, session, freed>>

SpuriousWake ==
    /\ CompilerAt("wait")
    /\ CompilerTo("lock")
    /\ UNCHANGED <<funcVars, mgrVars, thread, closing, session, freed>>

Break ==
    /\ CompilerAt("take") /\ ~isRunning /\ queue = <<>>
    /\ lock' = Nobody
    /\ CompilerTo("done")
    /\ UNCHANGED <<funcVars, queue, isRunning, thread, closing, session, freed>>

\* When a VM was closed with a request pending, the next compiler takes a
\* function that was freed; what it reads there is not followed any further.
Take ==
    /\ CompilerAt("take") /\ queue # <<>>
    /\ compiler' = [pc |-> "check", fn |-> Head(queue)]
    /\ queue' = Tail(queue)
    /\ lock' = Nobody
    /\ UNCHANGED <<funcVars, isRunning, thread, closing, session, freed>>

Drop == compiler' = [pc |-> "test", fn |-> None]

CheckNative ==
    /\ CompilerAt("check")
    /\ IF jitNative[compiler.fn] THEN Drop ELSE CompilerTo("compile")
    /\ UNCHANGED <<funcVars, mgrVars, thread, closing, session, freed>>

CompileInBackground ==
    LET f == compiler.fn IN
    /\ CompilerAt("compile")
    /\ CompileFunction(f)
    /\ \E code \in BOOLEAN : Yields(f, code) /\ (IF code THEN CompilerTo("store") ELSE Drop)
    /\ UNCHANGED <<kind, hotness, isQueued, jitNative, mgrVars, thread, closing, session, freed>>

StoreInBackground ==
    /\ CompilerAt("store")
    /\ jitNative' = [jitNative EXCEPT ![compiler.fn] = TRUE]
    /\ Drop
    /\ UNCHANGED <<kind, hotness, isQueued, jitDeclined, mgrVars, thread, closing, session, freed>>

WorkerLoop ==
    \/ TestRunning \/ Acquire \/ Predicate \/ Block \/ Break \/ Take
    \/ CheckNative \/ CompileInBackground \/ StoreInBackground
-----------------------------------------------------------------------------
(* Manager::shutdown, called by VM::free when nothing is interpreted any more. *)

Close ==
    /\ closing = "open"
    /\ \A t \in Thread : At(t, "idle")
    /\ closing' = "flag"
    /\ UNCHANGED <<funcVars, mgrVars, compiler, thread, session, freed>>

\* A bug to compare with: the flag is cleared without the lock.
SlipClearRunning ==
    /\ closing = "flag"
    /\ isRunning' = FALSE
    /\ closing' = "notify"
    /\ UNCHANGED <<funcVars, queue, lock, compiler, thread, session, freed>>

ClearRunning ==
    /\ closing = "flag" /\ lock = Nobody
    /\ isRunning' = FALSE
    /\ closing' = "notify"
    /\ UNCHANGED <<funcVars, queue, lock, compiler, thread, session, freed>>

NotifyAll ==
    /\ closing = "notify"
    /\ NotifyCompiler
    /\ closing' = "join"
    /\ UNCHANGED <<funcVars, mgrVars, thread, session, freed>>

\* A bug to compare with: the thread is not waited for.
SlipJoin ==
    /\ closing = "join"
    /\ closing' = "joined"
    /\ UNCHANGED <<funcVars, mgrVars, compiler, thread, session, freed>>

Join ==
    /\ closing = "join" /\ CompilerAt("done")
    /\ closing' = "joined"
    /\ UNCHANGED <<funcVars, mgrVars, compiler, thread, session, freed>>

\* VM::free goes on to freeSlabs, which frees every function object.
FreeSlabs ==
    /\ closing = "joined"
    /\ freed' = {f \in Func : f[1] <= session}
    /\ closing' = "closed"
    /\ UNCHANGED <<funcVars, mgrVars, compiler, thread, session>>

Shutdown == ClearRunning \/ NotifyAll \/ Join \/ FreeSlabs

\* The next isli_open: Manager::init starts another thread over the same queue.
Reopen ==
    /\ closing = "closed" /\ session < Sessions
    /\ session' = session + 1
    /\ isRunning' = TRUE
    /\ compiler' = [pc |-> "test", fn |-> None]
    /\ closing' = "open"
    /\ UNCHANGED <<funcVars, queue, lock, thread, freed>>

JMNext ==
    \/ \E t \in Thread : Interpret(t)
    \/ WorkerLoop \/ SpuriousWake
    \/ Close \/ Shutdown \/ Reopen

JMSpec == JMInit /\ [][JMNext]_jmVars

\* The operating system lets every thread go on with what it has begun, and the
\* mutex reaches whoever asks for it again and again, although the compiler may
\* hold it now and then (strong fairness of ClearRunning and of the requests);
\* nobody is obliged to interpret, to close or to open.
JMFairSpec ==
    /\ JMSpec
    /\ WF_jmVars(WorkerLoop) /\ WF_jmVars(Shutdown) /\ SF_jmVars(ClearRunning)
    /\ \A t \in Thread :
        /\ WF_jmVars(StoreHotness(t) \/ CompareHotness(t) \/ Ask(t) \/ Notify(t)
                     \/ CompileAtCall(t) \/ StoreAtCall(t))
        /\ SF_jmVars(AlreadyQueued(t) \/ Push(t))
-----------------------------------------------------------------------------
(* Properties *)

\* However many threads find a function hot at the same moment, it is queued
\* once, and is not in the queue again while the compiler works on it.
QueuedOnce ==
    /\ IsInjective(queue)
    /\ \A i \in DOMAIN queue : isQueued[queue[i]] /\ queue[i] # compiler.fn

\* The compiler is not about to sleep, nor asleep, over a request or a shutdown
\* unless somebody has yet to notify it.
NoWakeupLost ==
    (CompilerAt("block") \/ CompilerAt("wait")) /\ (queue # <<>> \/ ~isRunning) =>
        closing = "notify" \/ \E t \in Thread : At(t, "notify")

\* The function objects go when nobody compiles any more: the compiler thread
\* has ended and no thread is inside a compilation of its own.
FreedAfterLastCompile ==
    [][freed' # freed =>
        CompilerAt("done") /\ \A t \in Thread : At(t, "idle")]_jmVars

\* A request is taken up although the compiler may have been about to wait
\* when it came; only a shutdown may leave it behind.
RequestsGetTaken ==
    \A f \in Func : (f \in ToSet(queue)) ~> (f \notin ToSet(queue) \/ ~isRunning)

\* A shutdown ends although the compiler may have been about to wait.
ManagerStops == (closing = "flag") ~> (closing = "closed")
=============================================================================
