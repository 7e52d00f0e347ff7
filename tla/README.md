# Verification of ISLI

ISLI is a scripting language with a bytecode VM, an x86-64 JIT and a SIMT
`dispatch` statement that runs a kernel closure over an index space on all
cores (`src/README.md`). This directory holds TLA+ models of its parts, TLC
configurations that check them on small instances, and proofs checked by TLAPS.
Line numbers refer to `src/isli_compiler/`; `vm.cpp` unless a file is named.

Contents: 1 the system, 2 the plan, 3 the modules, 4 the runs, 5 the proofs,
6 where code and documentation disagree, 7 what is not modelled.

## 1. The system

### 1.1 Components

| Component | State | Operations | Hard behaviours |
|---|---|---|---|
| **Work stealing** 1754-1822, 1975-2086 | per participant a packed 64-bit range of blocks; `remaining`, `inFlight`, `failed` of the job | `claimOwnBlock`, `stealHalf`, `runKernelRange`, `workOnJob` | compare-exchange races between owner and thief, a plain store of the stolen range, failures half way through a block |
| **Dispatch and workers** 2088-2350 | `g_job`, one static job; `currentJob`, `jobEpoch`, `cv_work`, `isRunning`; per thread `tl_lastJobEpoch`, `tl_currentJob` | `dispatchJob`, `workerLoop`, `initSIMTEngine`, `shutdownSIMTEngine` | missed notifications, workers that arrive late, reuse of `g_job`, nested dispatches |
| **Dispatch arithmetic** 1824-1973, 2211-2291 | sizes, tiles, lanes of the reduction | `mulNonNeg`, `mapIndex`, `accumulateBlock`, `finishReduce` | int64 overflow, short last block, partial tiles, results independent of block order |
| **Kernel execution** 1795-1811, 1868-1893, 1975-2026, 3676-3717 | four VMs per thread, `tl_kernelDepth`, `tl_currentVM`, `tl_currentJob`, the frames of each VM | `acquireKernelVM`, `runKernelRange`, `jitCallClosure`, `isliMarkJobFailed` | interpreter, machine code and dispatches nested in each other, kernels that fail, errors reported on another VM |
| **Symbol table and globals** `table.cpp`, 2606-2652, 3135-3157 | open-addressing hash table with tombstones; one cell per value; `globalCache` per chunk; `globalsLock` | `set`, `get`, `getPtr`, `del`, `adjustCapacity`; `OP_*_GLOBAL`; `isli_getglobal`, `isli_setglobal` | cells used after the lock was released, pointers cached for ever, tombstones and load factor |
| **JIT manager** `jit.cpp` 1675-1732 | queue of functions, lock, condition variable, `isRunning`; `hotness`, `isQueued`, `jitNative`, `jitDeclined` of a function | `init`, `requestCompilation`, `workerLoop`, `shutdown` | lost wake-ups, double requests, requests that outlive the VM |
| **JIT compiler** `jit.cpp` 1-1674 | operands and locals on the C++ stack, code buffer, executable pool | `compileFunction`, helpers called from machine code | which instructions are declined, agreement with the interpreter, errors in the middle of machine code |
| **VM run loop** 2471-3668 | value stack, call frames, instruction pointer | one handler per instruction | stack discipline, errors in the middle of a call, quickened instructions |
| **Closures** `captureUpvalue`, `closeUpvalues` | sorted list of open upvalues | capture, close | one upvalue per slot, slots that move |
| **Compiler** `compiler.cpp` | scopes, locals, upvalues, pending jumps | recursive descent, two `for` optimisations that rewind the scanner | jump distances, equivalence of the optimised loops |
| **Scanner** `scanner.cpp` | position in the source | `scanToken` | – |
| **Objects** `object.cpp`, `object.hpp` 33-41 | reference counts, all of them `RC_IMMORTAL` | `cloneObject`, `dropObject` | none: every constructor makes its object immortal, counting does nothing, and nothing is freed before the VM closes |
| **B-tree, containers** `object.cpp` 302-597 | nodes of bounded degree | insert, split, borrow, merge, remove | keys equal to a moving median, the element count |
| **Slab allocator** `memory.cpp` | free lists per thread, arenas of the process | `slabAlloc`, `slabFree`, `freeSlabs` | memory freed by another thread, caches that outlive arenas |
| **C API and binding** `isli_api.cpp`, `isli.hpp` | stack index space, 512 registered functions | push, get, set, call | index arithmetic, slots reused after 512 |
| **Start-up, CPU features, editor, installer** | – | – | input and output only |

### 1.2 How they interact

The host thread interprets a script. `OP_DISPATCH2` calls `dispatchJob`, which
sizes the grid (*dispatch arithmetic*), compiles the kernel if it can (*JIT
compiler*), fills the one static `g_job`, bumps `jobEpoch`, publishes
`currentJob` and notifies `cv_work` – without holding `scheduler.lock`. Each
worker sees the new epoch, by polling or after waking, counts itself `seen` and
enters `workOnJob`; the host enters it as the last participant. They share the
job only through atomics. The host then waits for `remaining = 0` or `failed`,
then for `inFlight = 0`, then for `seen = workerCount`, clears `currentJob` and
combines the lanes of the reduction. A kernel that dispatches finds
`tl_currentJob` set and runs the inner dispatch serially.

Kernels and host share *globals*: writers take `globalsLock` exclusively,
lookups take it shared, and a name that was found once is read through a
pointer in the chunk's cache without any lock. Loops count `hotness`; at the
threshold the thread asks the *JIT manager*, whose own thread compiles. Machine
code and interpreter call each other (`jitCallClosure`), on one thread and one
VM; a kernel that is interpreted runs on a VM of its own. Helpers and natives
report errors through the thread-local variables.
`VM::free` stops the manager, then the workers, then frees all slabs.

### 1.3 What makes each component correct

- Work stealing: each block is run by one participant; `remaining` reaches 0
  exactly when everything ran; nobody leaves while blocks lie in its range;
  stealing ends.
- Dispatch: kernels run only while the host keeps the job alive; a worker joins
  a job once, and never a job that is being filled; a dispatch returns and a
  shutdown ends.
- Arithmetic: each cell is visited once, reductions combine each cell once and
  in an order that does not depend on the schedule, and sizes are turned away
  only if they are too large.
- Symbol table: it is a map; probes end; cached cells stay those of their names.
- JIT manager: a function is queued once, a request or a shutdown is never
  slept through, function objects outlive their last compilation.
- Compiler and run loop: a program prints what it means; each instruction is met
  at one height of the stack; closures share the variables they capture, and
  these outlive their scope.
- Kernel execution: after any nesting of calls, dispatches, returns and errors the
  thread-local variables name the VM and the job of what runs; interpreters that
  share a VM return to their own callers; an error ends the program or fails the
  job in which it arose.
- JIT compiler: machine code prints what the interpreter prints.
- B-tree: it stays a B-tree and is a map; each item it holds is counted once.

`PROJECT.json` lists under "hazards" the places where these could go wrong, with
the properties that watch each of them or the reason none does yet.

## 2. The plan

| # | Module | Models | Checks and proofs | State |
|---|---|---|---|---|
| 1 | `ParallelFor` | what a parallel dispatch promises | abstract specification | done |
| 2 | `WorkRanges` | `workOnJob` | safety, liveness, refines 1 | done, proved |
| 3 | `SimtEngine` | `dispatchJob`, `workerLoop`, shutdown; extends 2 | safety, liveness, one disagreement | done, proved |
| 4 | `IndexSpace` | sizes, blocks, tiles, reduction | safety | done, proved |
| 5 | `GlobalMap`, `SymbolTable` | globals | safety, `SymbolTable` refines `GlobalMap` | done, proved |
| 6 | `JitManager` | background compilation | safety, liveness | done, proved |
| 7 | `KernelCalls` | what runs on what, kernel VMs, error reporting | safety, one disagreement | done, proved |
| 8 | `Bytecode`, `Compiler`, `StackVM`, `Meaning` | compiler and interpreter | answers against a reference interpreter, stack discipline, captures, one disagreement | done for numbers, strings, arrays, closures |
| 9 | `NativeCode` | machine code; extends `StackVM` | the same properties for both engines and their calls of each other | done for what the JIT accepts of 8; both engines proved |
| 10 | `KeyedMap`, `BTree` | the ordered container | B-tree invariants, `BTree` refines `KeyedMap` | done, proved |
| 11 | `StackVM` extended | structs, pointers | the same properties | planned |
| 12 | `ApiStack`, `States` | C API, several states in one process | indices stay inside the stack; life cycle | planned |

An earlier plan had modules for reference counts and for readers of globals that
race with the last drop of a value. Since no object is ever counted or freed
(`object.hpp` 33-41, `object.cpp` 44-65) there is nothing for them to model.

The modules of the scheduler, of the symbol table, of the JIT manager, of the two
engines and of the B-tree take their parameters as CONSTANTS with named assumptions, have one action
per step, handler or operation, and contain no RECURSIVE operator, so that they
can be proved about. Where they repeat something (copying entries, combining the
levels of a tree, descending in one, capturing one variable after the other) they
use recursive functions. `Compiler` and `Meaning` follow the syntax of programs with
RECURSIVE operators and stay with TLC; the engines see a program only as code that
keeps to a plan (`Bytecode`), which is where the two are kept apart.
A module that a plan extends keeps its run: new questions are added as
properties of the run that already explores the state they are about.

## 3. The modules

A name beginning with `Slip` is the definition next to it with a plausible
programming slip. No specification uses one; each property was confirmed to
fail when the slip takes the definition's place (`PROJECT.json`, "mutants").

### ParallelFor and WorkRanges

`ParallelFor` is a set of blocks handed out to participants: `Start`,
`Complete`, `Fail`, `Abandon`.

`WorkRanges` is `workOnJob`. `packed[p]` is `job.ranges[p].packed` as a record
`[b, e]`, and `remaining`, `inFlight`, `failed`, `total`, `participantCount`
are the job's fields. `pc`, `reg`, `k`, `victim`, `blk` are a participant's
position and locals. Each access to shared memory is one action:

| Action | Code |
|---|---|
| `Enter`, `CheckFailed` | `inFlight.fetch_add`, the test at the head of the loop (2057-2064) |
| `LoadOwn`, `ClaimCasWins`, `ClaimCasLoses` | `claimOwnBlock` (2028-2039) |
| `KernelDone`, `KernelFail`, `KernelAbort` | a block runs to its end, fails, or is cut short after `failed` was seen |
| `Retire` | `remaining.fetch_sub` by the span of the block, whatever happened to it (2067-2073) |
| `LoadVictim`, `StealCasWins`, `StealCasLoses` | `stealHalf` (2041-2055) |
| `StoreStolen` | the plain store into the own range (2078-2081) |
| `NothingToSteal`, `Leave` | the end of the victim loop, `inFlight.fetch_sub` |

Abstractions: a spurious failure of `compare_exchange_weak` reloads the same
value and is a stuttering step; `cv_simt_done.notify_all` is left out because
the host waits with a timeout of 200 microseconds and polls.

### SimtEngine

Extends `WorkRanges` with the host in `dispatchJob`, the workers in
`workerLoop` and `shutdownSIMTEngine`. The host fills the fields of `g_job` one
by one in the order of the source, because a straggler may read them meanwhile.
`cv_work` is the set of workers that are asleep; evaluation of the predicate,
release of the lock and falling asleep are separate (`PredStopped`, `PredJob`,
`PredEpoch`, `Block`), so a notification can fall between them. The ghost
`overlap` becomes true when `g_job` is refilled under a worker that has joined
(section 6); properties that only hold without that say so.

### IndexSpace

One dispatch from its grid to its result. `Wrap` is int64 arithmetic with a
scaled-down range, applied where the code does not test. A reduction combines
sequences of cells instead of doubles: `reduceOp2` appends, the identity is the
empty sequence. Equal sequences mean the same sums in the same order, so
`ResultIsDeterministic` covers rounding as well.

### GlobalMap and SymbolTable

`GlobalMap` is a partial map with `Define` and `Answer`. Definitions and
assignments of `SymbolTable` are its `Define`, a refused assignment is a
stuttering step; `Contents` is the refinement mapping. `SymbolTable` has the
table as one record (`count`, `capacity`, `entries`, and `heap`, the cells that
`slabAlloc` hands out), the hash of each name, `cache` for the inline caches,
and per thread the cell it holds between unlocking and use. Table operations are
atomic because they run under `globalsLock`. `FindEntry`, `AdjustCapacity`,
`Set`, `Del` follow `table.cpp`; `Assign` and `RefuseAssign` are the two
outcomes of `OP_SET_GLOBAL`, which inserts an unknown name and deletes it again.
Names that only refused assignments have inserted are the only source of
tombstones. Compiled code assigns with `Define` (`jit.cpp` 504-511).

### JitManager

Interpreting threads (`LoadHotness` ... `Notify`, and `Call`, `CompileAtCall`,
`StoreAtCall` for compilation at a call), the compiler thread (`TestRunning` ...
`StoreInBackground`), and the closing of a VM (`Close` ... `FreeSlabs`,
`Reopen`). `hotness` is a plain `int` that several threads increment: load and
store are separate steps, and the comparison may use the register or memory
again. The threshold is scaled from 20 to 1 or 2.

### Bytecode, Compiler, StackVM and Meaning

`Bytecode` is what the compiler and the engines have in common: a few values, how
many operands an instruction takes and leaves, and what it goes on to. No
instruction of `run()` or of the machine code tests that its operands, the slot or
the upvalue it names are there; the compiler is trusted with it. `Planned` says
what it is trusted with: a plan gives for each reachable instruction of a function
the height of the stack and the slots that may be captured there, each instruction
finds its operands above slot 0, names slots and upvalues that exist, and leaves
the height and captures that the plan has for each instruction that may come next.
It is the discipline that a bytecode verifier would check. `MCStackVM` finds the
plan of a function by following its code (`PlanOf`), and TLC evaluates
`SessionsAssumption`, that every function of every session keeps to its plan, on
each run of `MCStackVM`. A slip in the compiler, such as a jump patched to the
wrong place or a captured local popped like the others, makes that assumption fail
or the answers wrong; a slip in an engine shows in its invariants.

`Compiler` is `compiler.cpp` from the syntax tree on: one operator per function,
each taking the compilers of the functions under construction (`fns`, innermost
last; `locals`, `upvalues`, `depth`, `code`) to what they are afterwards. The
order in which instructions are emitted and jumps patched is that of the source,
and so are the tests by which the two recognised loops (`ArrayLoop` for
`tryOptimizeForLoop`, `CountedLoop` for `tryOptimizeCountedForLoop`) are chosen.
The source tests tokens, the model the tree that they stand for: `Limits` reads
what follows `i <` as one expression, so that `i < n and ok` is a loop with the
limit `n and ok`; `StartsWithOne` looks at the first digit of the step; `Fills`
asks whether the loop's variable occurs anywhere in the filling expression.
`Speculated` is what the first function compiles before it knows whether the loop
is its own, `RolledBack` what is left of that when it is not: the marks of
captured variables in the functions around. Of declared types only `void` is kept
(`TailStatement`, `ReturnStatement`), since the others only turn programs away.
Jumps count instructions instead of bytes.

`StackVM` is `run()`: one action per instruction. `acts` is the stack of C++
calls, each an interpreter (with its `stopFrameCount`) or machine code. `stack`
is memory, what lies above `top` included, because an upvalue may still point
there; `frames`, `openUpvalues` (the list, highest slot first), `globals` are
the VM's fields; `upvalues[u].at` is the slot an upvalue stands for, 0 once it
is closed; `heap` has the objects in the order of allocation, without counts.
`Interpret` is `interpretVM`, `RuntimeError` is `runtimeError` with
`resetStack`. A session is a list of inputs, as the prompt passes them to
`interpret` one after the other on the same globals; an input with a compile
error is not run. Compiling depends on nothing but the input, so `MCStackVM`
prepares each session with its code, its plan and its meaning as constants.
`forgotten` is a history variable: the upvalues that were in the list when
`resetStack` emptied it without closing them. Folded:
`OP_NIL`, `OP_TRUE`, `OP_FALSE` are `Constant`; instructions that specialise
themselves (`OP_ADD_NUM`, ...) are the general ones they fall back to.

`NativeCode` extends it with machine code: one action per instruction of the
bytecode that the code was made of. `mem` is its region of locals and operands
on the C++ stack. `Compilable` is the test by which
`compileFunction` declines a function. Which function is compiled when is
`JitManager`'s subject: here every accepted function is compiled from its first
call, and sessions contain functions that are declined next to accepted ones, so
that the engines call each other in every order. Outside a job an error in a
helper resets the VM while the code goes on with nil, undefined globals read as
nil, an assignment defines, and a call of one's own name does not look the name
up: `strayed` remembers that the two engines were written to differ at an
instruction a session came to, and `AnswersAsWritten` says nothing from there on.

`Meaning` is no model of code: it is what a program is expected to do, a
reference interpreter on the syntax tree with locations and environments,
written without stack, slots, captures or counts. A `for` is the `while` it
stands for. `AnswersAsWritten` compares the outputs.

### KernelCalls

`calls[t]` is the C++ call stack of thread `t`, reduced to four kinds of
activation: `run` (with its `stopFrameCount`), `code` (machine code), `work`
(`workOnJob`) and `range` (`runKernelRange`, with the two variables it saves).
`frames` is `VM::frameCount` of each VM, `hasStack` the VMs whose `stackTop`
was ever set, and `currentVM`, `currentJob`, `kernelDepth` are the thread-local
variables. Programs are left open: code may call, dispatch, return or fail at
any moment.

| Action | Code |
|---|---|
| `Interpret`, `RunCalls`, `CallsCode` | `interpretVM`, `OP_CALL` of interpreted and of compiled functions |
| `CodeCalls`, `CodeCallFails` | `jitCallClosure` |
| `CodeReturns`, `RunReturns`, `RunEnds`, `KernelEnds` | the return of machine code, `OP_RETURN` within an interpreter, out of one, and out of a kernel |
| `DispatchSerial`, `DispatchParallel`, `Join`, `Claim`, `Leave` | `dispatchJob`, `workOnJob` |
| `NextCompiled`, `NextInterpreted`, `NoKernelVM`, `RangeEnds` | `runKernelRange`, `acquireKernelVM`, `releaseKernelVM` |
| `RunError`, `DispatchTooLarge`, `CodeError`, `BufferNativeError` | `runtimeError` in `run`, in `dispatchJob`, from helpers (`isliMarkJobFailed`), from the natives of typed buffers |

`status` becomes `"undefined"` where the C++ program reads before its frames or
through a null `stackTop`; nothing is said of what follows. The ghost `strayed`
has the VMs that an error has reset under code that still runs on them. How
blocks are shared is in `WorkRanges`, how a dispatch is published in
`SimtEngine`; here a worker joins the published job at any moment.

### KeyedMap and BTree

`KeyedMap` is a map, changed key by key. `BTree` is `btreeInsert`,
`btreeSplitChild`, `btreeRemove` with borrowing and merging, and
`btreeSearchNode`, translated function by function on nodes with a sequence of
items and a sequence of children; `held` has how often each item was cloned in
and not dropped. A node has a level in place of the flag `isLeaf` (leaves are at
level 0), and a recursive function of the code is a function for each level
(`InsertNonFull[h]`), made of the one for the level below (`InsertInto`). What the
code passes down and changes by reference (the node, the references held, the item
or the key) is one record. An operation holds the tree's lock from beginning to end and
is one step. `btreeInsertNonFull` finds the place for a key before it splits the
child there: when the median that moves up is the key itself, the key goes into
the left half and the tree has it twice. `doubled` remembers such keys, and the
map promises nothing of them until they are gone (`Lost`).

## 4. The runs

| Run | Instance | Shows |
|---|---|---|
| `WorkRanges` | 3 participants, 1-6 blocks of 2 indices, last one full or short, fairness for all but worker 0 | five safety properties and that the loop implements `ParallelFor`; `JobGetsFinished`: no endless stealing when worker 0 runs too; `OthersTakeTheRest`: when it does not, it costs the others one block |
| `SimtEngine` | 2 workers, host, 2 dispatches of up to 2 blocks, 1 spurious wake-up | kernels run once, only while the host keeps the job; a worker joins a job only once it is filled |
| `SimtEngineLive` | 1 worker, host, 2 dispatches, shutdown | a dispatch hangs only after a missed notification or an overlap; shutdown never |
| `IndexSpace` | sizes up to 30, tiles up to 31, integers up to 31, blocks of 5 | every cell once, deterministic reduction |
| `SymbolTable` | 3 names, 2 values, every assignment of 4 hashes, capacities 2, 4, 8, one reader between lookup and use | probes end, no cell leaked or shared, cached cells stay valid; refinement of `GlobalMap` |
| `JitManager` | 1 function, 2 threads, 2 VMs in succession, fairness | a function is queued once and freed after its last compilation; the compiler never sleeps over a request or a shutdown that nobody is about to notify, so that each is answered |
| `StackVM` | some 2300 sessions: operators on every pair of kinds, branches, closures in functions, blocks and loops, functions declared void, counted, general and array loops, with conditions of one comparison or several, arrays that hold arrays and functions, every error and the input after it, redeclared names, recursion up to the limit, each with functions that the JIT accepts, declines, or both | answers as written by both engines for these sessions (sections 6 and 7 name the programs that they leave out), balanced stacks, interpreters and machine code nest, sound captures, termination |
| `KernelCalls` | host and 1 worker, 2 kernel VMs each, 2 frames per VM, 6 activations on the host and 3 on the worker | the thread-local variables name the innermost VM and job, nested kernels have VMs of their own, interpreters stop at their own frames, nothing goes wrong but on a VM reset under running code or on the stackless VM of a worker |
| `BTree` | degree 2, empty trees and trees of ten keys built in either order, then every sequence of insertions and removals of five keys | the tree stays a B-tree, each item is held once, the count covers the keys; refinement of `KeyedMap` |

Section 6 lists the runs that end in a counterexample.

### Bounds, and why they are enough

- `P = 3` gives an owner, a thief, and a thief of the thief, which is where the
  races of the range words are. `BlockSize = 2` makes a short last block
  possible; up to six blocks let a stolen half be stolen from again. The code
  never has fewer blocks than 16 (4096 indices in blocks of 256); fewer blocks
  than participants, which the small instances have, correspond to machines
  with more than 16 cores. The theorems do not depend on any of these numbers.
- `MaxTotal` bounds the indices of a job, `ParallelMin` scales the 4096.
  `MaxDispatches = 2` is the least that shows a worker of one dispatch in the
  next; `MaxSpurious` bounds spurious wake-ups, each of which repeats the same
  predicate.
- `MaxInt = 31` and `MaxBlocks = 3` let each overflow test succeed and fail and
  each sum wrap around.
- `MinCapacity = 2` brings two growths within three insertions. Three names with
  any of four hashes fill a table of four entries with every pattern of
  collision, tombstone and wrapped probe that its load factor permits. `Cells`
  exceeds the names by one: the cell a refused assignment takes for a moment.
  Writers hold the lock for the whole operation and are not told apart; one
  reader is enough because readers do not affect each other.
- `HotThreshold = 2` lets two threads lose an increment or both reach the
  threshold. `Sessions = 2` is the least that shows what a closed VM leaves. One
  function is enough for `QueuedOnce`, which relates the requests for the same
  function; several functions only share the order of the queue.
- `FramesMax = 4` lets recursion run, return and meet the limit. The sessions
  are generated: each family varies what its construct can be given (which of
  two variables a closure captures and in which order, what the loop counts by,
  what an array holds), and keeps the rest fixed. Two captured variables, two
  closures over one variable, and a function between a closure and its variable
  are the least in which the order of the upvalue list, the sharing of an
  upvalue and the chain of indices can go wrong. Loops run up to four times.
- `KernelNest = 2` (of 4) has a nested interpreted kernel and one that finds no
  VM; `FramesMax = 2` an interpreter that is called above another's frame and a
  call that is refused. Six activations on the host hold an interpreter, a
  dispatch in it, its kernel, a dispatch in that and its kernel, and one more;
  three on a worker hold `workOnJob`, `runKernelRange` and a kernel. What is
  proved of `KernelCalls` does not depend on these numbers.
- The B-tree is of degree 2, the least there is, where nodes split and merge
  most. Ten keys make three levels, so inner nodes split, lend and merge too. The
  touched keys lie at both ends, at a median and next to one. `CountMax` bounds
  the count, which grows with every insertion.
- Symmetry is used for names and values of `SymbolTable` only, and only for
  safety. `CHECK_DEADLOCK FALSE` stands in the configurations of
  `JitManager`, where nobody has to interpret and after the last VM is closed
  the program stops; of `StackVM`, where a session ends; of `KernelCalls`, where
  the program stops once it is `"undefined"`; and of `BTree`, where a script ends
  at `CountMax`. Everywhere else finished threads take explicit steps.

### Fairness

`WRFairSpec` and `SEFairSpec` assume weak fairness of each thread's steps: the
operating system runs every runnable thread. Nothing is assumed of the script,
of kernels that fail, or of spurious wake-ups. `WRFairSpec` leaves out worker 0
(`Late`), which may arrive late or never: `OthersTakeTheRest` says what the
others achieve without it, and `JobGetsFinished` states the fairness of `Late`
as its hypothesis. `JMFairSpec` adds strong fairness for acquiring the
manager's mutex in `ClearRunning` and `Push`: the compiler thread may take and
release it for ever on spurious wake-ups, and a mutex is assumed to reach a
thread that keeps asking.
`FairSpec` of `NativeCode` is weak fairness of the one thread that interprets.

## 5. The proofs

`WorkRangesProofs` proves for every number of participants, block size and bound
on the job (assumptions `PAssumption`, `BlockSizeAssumption`,
`MaxTotalAssumption`: each is a positive natural number):

| Theorem | Property |
|---|---|
| `TypeCorrect` | `TypeOK` (in no run) |
| `EachBlockOnce` | `NoBlockTwice` |
| `CountdownIsExact` | `RemainingIsExact` |
| `ZeroMeansDone` | `FinishedMeansAllRan` |
| `LeaversLeaveNothing` | `NoOrphanedRange` (in no run) |
| `HostWaitsForEveryone` | `InFlightCoversWork` |
| `OwnerClaimsLast` | `OwnerKeepsLastBlock` (in no run) |
| `StoreIsSafe` | `StoreOverwritesNothing` |
| `Refinement` | `ImplementsParallelFor` |

None of the properties is inductive by itself. The inductive invariant `IInv`
joins seven parts: `BaseTypes` (types without the bounds that need the others),
`Shapes` (what a participant's locals mean at each position: a stolen range in
hand is not empty, its own slot is empty while it carries one), `NoBlockTwice`,
`Covered` (every block is in a range, carried, run, or given up),
`RemainingIsExact`, `InFlightCoversWork` and `OwnerKeepsLastBlock`. `Shapes` is
what makes the plain store safe and the two disjointness facts survive a steal;
`Covered` is what turns `remaining = 0` into "everything ran".

The proof does not treat each of the many actions against each conjunct.
It first reduces every step to how it moves blocks: not at all (`QuietMoves`),
from a range to its owner's hand (`ClaimMoves`), from a victim's range to a
thief (`StealMoves`), from the thief's hand to its range (`StoreMoves`), out of
the job (`RetireMoves`). Disjointness and coverage then follow from set
reasoning on the five kinds of move; the count of indices follows from lemmas
about sums over finite sets of blocks. `Invariance` states `IInv`; the theorems
above follow from it.

`KernelCallsProofs` proves for any number of threads, of kernel VMs and of
frames, and for activations nested to any depth that `MaxCalls` gives a thread
(assumptions `ThreadAssumption`: the host is a thread; `NestAssumption`,
`FramesAssumption`, `CallsAssumption`: bounds are natural numbers;
`NoneAssumption`: no VM or job is the null pointer):

| Theorem | Property |
|---|---|
| `KernelDepthBounded` | `KCTypeOK` |
| `CurrentVMIsOwn` | `ErrorsOnOwnVM` |
| `CurrentJobIsInnermost` | `ErrorsFailOwnJob` |
| `KernelsHaveOwnVMs` | `KernelVMsNest` |
| `InterpretersNest` | `FramesNest` |
| `WrongOnlyAfterReset` | `OnlyStraysGoWrong` |

The first four follow from `CallsInv`. What a property says of the top of a
call stack must hold again when something is popped, so the invariant speaks of
the whole stack: `Chained` (which activation may stand on which, and on whose
VM), `Homes` (code runs on the thread's own VM or on that of a kernel below it),
`Levels` (the kernel VMs in use are those of the depths counted, the deepest on
top), `Jobs` (each dispatch has saved the job in force below it) and `Current`
(what `tl_currentVM` is). Every step either leaves a thread's activations alone
or pushes or pops one; eight moves are told apart, each is shown to keep the
invariant as a lemma about sequences, and each action is shown to be one of the
moves. The last two theorems need `WrongInv`, which adds `FramesInv` (each
interpreter on a VM that was not reset has a frame above its stop and stops
above those under it) and `StacksInv` (the VMs of the host and of kernels have a
stack). A step counts the frames of one VM of its own thread, or resets one VM;
`ThreadsOwnTheirVMs`, from `Homes` and `Levels`, keeps the other threads out of
the first case, and `strayed` the reset VMs out of the second.

`SimtEngineProofs` proves for any number of participants, any block size and any
number of dispatches and spurious wake-ups:

| Theorem | Property |
|---|---|
| `KernelsStayInTheirJob` | `KernelsOnlyWhileJobLive` |
| `WorkersJoinArmedJobs` | `JoinsAnArmedJob` |
| `BlocksStartOnce` | `StartsOnce` |

From the moment the epoch is counted up, a dispatch is an execution of
`WorkRanges` in which a worker that has not taken the job yet is `"ready"`. So
`WorkRangesProofs` is instantiated with `pc` seen that way (`place`), and its
`IInv` is a conjunct of the invariant, not proved again: it holds when the job
is armed, and every step of `Work` is one of the instance. New are `EpochInv`
(every worker takes every job once; the host counts them with `seen`, so that
nobody has yet to come when it stops waiting), `PlaceInv` (who can be inside
`workOnJob`), `FillInv` (how far `g_job` is filled) and `OverInv` (after the
host's wait for `inFlight` a worker that comes late finds `failed`, or no block).
All of it is claimed only while `overlap` is false (section 6).

`JitManagerProofs` proves, for any functions, threads, sessions and threshold,
`RequestedOnce` (`QueuedOnce`), `FreedWhenIdle` (`FreedAfterLastCompile`) and
`NotificationOnItsWay` (`NoWakeupLost`). The invariant `JMInv` adds to
`QueuedOnce` that the function the compiler has taken stays marked (the program
never clears `isQueued`), which keeps it out of the queue, and `ClosingInv`:
once a shutdown has begun no thread interprets, and what is joined has ended. On
top of it, `WaitInv` says who has the mutex, and that the queue is still empty and
`isRunning` still set when the compiler lets go of it to sleep. So every request
or shutdown that finds it asleep has its notification before it: the safety half
of `RequestsGetTaken` and `ManagerStops`, which also need fairness and stay with TLC.

`IndexSpaceProofs` proves, for any sizes, tile sizes, block size and integer
range:

| Theorem | Property |
|---|---|
| `KernelRunsOnEachCell` | `EachCellOnce` |
| `ReductionIsDeterministic` | `ResultIsDeterministic` |

For the first, `IndexOf` is the inverse of `mapIndex`; `Mapping` says that the
indices `mapIndex` does not skip and the cells correspond one to one, which
follows from the uniqueness of quotient and remainder. `Progress`, the inductive
part, says that a cell's kernel has run once if its index lies below `next` in
its block, and otherwise not at all. Each of it assumes `NoWraps`, the premise of
the property.

The second assumes nothing of that kind: a sum that wraps around can make the
grid wrong, but not the result dependent on the schedule. Its invariant `LaneInv`
says what a lane holds while blocks are still running: the cells of the indices
that were taken for it so far, in ascending order (`Listed`, `TakenTo`), whatever
the other blocks have done. `RunIndexLanes` shows that running the next index
appends its cell to one lane, for which section 6 of the module counts how many
indices of a set lie below one (`Rank`). Section 5 is about `finishReduce` alone:
`CombineJoins` shows that a level of the tree leaves the concatenation of its
entries as it was, `TreeJoins` that therefore the root is the concatenation of all
leaves, identities included, for any number of blocks (`LevelsSuffice`: the width
is a power of two that is not below it). `LaneInvDetermines` puts them together.

`VirtualMachineProofs` is about the engines and about the hash table of their
globals. Sections 1 to 18 prove of `NativeCode` (which extends `StackVM`), for any
sessions of any length and any `FRAMES_MAX` (`FramesAssumption`: at least one frame):

| Theorem | Property |
|---|---|
| `MachineInvariance` | the inductive invariant `IInv` |
| `EnginesAlwaysNest` | `EnginesNest` |
| `StackAlwaysBalanced` | `StackBalanced` |
| `TypesStay` | `TypeOK`, until compiled code strays |
| `CapturesStay` | `CapturesStaySound`, until compiled code strays |

The one assumption about programs is `SessionsAssumption`: a script has no
parameters and no upvalues, and every function in it keeps to its plan. It is not
about the engines: a plan says nothing of frames, activations, the heap or the list
of open upvalues, and what the theorems say of those follows from what the engines
do. That the compiler makes only planned code is not proved (it is recursive on
syntax trees) but evaluated by TLC for the sessions of the runs, which have every
construct of the model.

None of the properties is inductive: that a function returns to the right height
depends on how its caller left the stack, several frames and C++ calls below. `IInv`
describes the whole of it, for as long as no compiled code has strayed (`strayed`,
section 3; afterwards the VM may have been reset under running code, and nothing is
promised):

- `Stacked`: each frame is at a planned instruction, and starts no lower than the
  height (`Ceiling`) at which the frame below it waits; a waiting frame expects its
  result in a slot that no closure has captured.
- `Acting`: the activations, interpreters and machine code, share the frames out
  among them. `IsRun`: the frames between `stopFrameCount` and the present one are
  this interpreter's, each starting exactly at the ceiling of its caller, so that a
  `RETURN` leaves the height that the caller's plan says. `IsNative`: machine code
  has as many operands as planned, or one fewer while its call is under way. `Links`:
  machine code stands on a frame that has stepped on to wait for it. `Levels` and
  `Reaches`: each interpreter stops where the one before it is, and the last one is at
  the innermost frame.
- `Topped`: the top of the stack is the ceiling of the innermost frame, or above it
  while machine code runs.
- `Data`: every reference has an object, every closure all its upvalues, and every
  upvalue is closed or has memory behind it.
- `Listing` and `SlotsPlanned`: the list of open upvalues goes down the stack without
  repetition, has every open upvalue that no error forgot, and each is in a slot that
  the plan of some frame says may be captured.

The first part of the proof is about the moves alone: going on (`StepMove`,
`NativeMove`), calling (`PushFrameMove`, `PushNativeOnRun`, `PushNativeOnNative`,
`PushRunOnNative`) and returning (`PopFrameMove`, `RunEndsMove`, `NativeToRun`,
`NativeToNative`) keep `Control` whatever the instruction (sections 4 and 5); a step
of the interpreter and a step of machine code keep the rest (`StepDone`,
`CodeStep`), if data and list are kept. What is left for each action is which
move it makes, that the values it writes are good, and what it does to the list,
which only `MakeClosure`, `CloseUpvalue` and `Return` change: `NotAboveFacts` and
`ClosedPlanned` say that closing from a slot up leaves exactly those below it, and
`CapturesDone`, by induction on the upvalues of the new closure, that capturing keeps
the order and shares what is there. `CapturesStay` follows from `SlotsPlanned`: a
frame below the innermost one has its planned slots below the top.

`TypeOK` and `CapturesStaySound` are invariants in the runs also after straying; the
theorems stop there. An error under machine code resets the count of frames to 0 while
interpreters and machine code further out go on: the calls that they make next reuse
frames that others below still hold as theirs. In the runs' sessions too little happens
after that to show; in longer ones the properties may well fail, and so they are
proved only up to it.

Its other sections prove of `SymbolTable`, for any names, values, threads, hashes (`hash` is any
function from names to naturals) and enough cells. It assumes that the names are
finitely many (`NameAssumption`), that there is one cell more than names
(`CellsAssumption`), which capacity a table starts with (`CapacityAssumption`),
and that the marks of unused entries and cells are no names or values
(`MarksAssumption`):

| Theorem | Property |
|---|---|
| `ProbesAlwaysEnd` | `ProbesEnd` |
| `CellsAlwaysOwnedOnce` | `CellsOwnedOnce` |
| `CachedCellsAlwaysLive` | `CachedCellsLive` |
| `TableImplementsGlobalMap` | `ImplementsGlobalMap` |

The invariant of a table, `TableInv`, has three parts. `Placed`: the probe for the
name of a live entry comes to that entry before it comes to one that was never
used, and a name has one live entry. This is what tombstones are for, and what
`Del` would break if it reset an entry to never used. `Counted`: `count` is the
number of entries ever used, tombstones included, and never more than three
quarters of the capacity; so a probe always ends (`ProbeGoesRound` shows that it
comes to every place). `Owned`: the cells that are not free are those of the
live entries, one each.

From `Placed` follows that a lookup finds the entry of a name exactly if there is
one (`FindEntryFinds`). From there on the proof looks at a table only as a set of
`Bindings` of names to cells: `SetBinds` and `DelUnbinds` say what the
operations do to it, `RefusedLeavesNoTrace` that a refused assignment leaves the
bindings as they were, and `GrownKeeps` that growth does, although every live
entry moves; that is proved by induction on the entries copied (`CopiedSofar`,
`AdjustCopies`). `STInv` adds that each cell in a cache or in a reader's hand is
bound to its name; it is kept because no step removes a binding that was there
before the step. For the refinement, `ContentsOf` reads the map off the bindings, and
each step of the table is shown to be a `Define` or an `Answer` of `GlobalMap` or
to leave the map alone.

`BTreeProofs` proves of `BTree`, for all sets of keys and values, all degrees and
any number of operations (`KeyAssumption`: keys and degrees are integers;
`ItemAssumption`, `StartsAssumption`: scripts insert keys with values, and begin
with different keys; `AbsentAssumption`: the two special answers are no values).
`2 * degree - 1` is computed without overflow in the code for degrees up to
2^30, and the model says no more than that.

| Theorem | Property |
|---|---|
| `AlwaysBTree` | `IsBTree` |
| `ItemsAlwaysHeldOnce` | `ItemsHeldOnce` |
| `CountAlwaysCovers` | `CountCovers` |
| `TreeImplementsKeyedMap` | `ImplementsKeyedMap` |

The properties speak of the items of the tree from left to right, the operations
work on nodes, so each operation on a node is first shown to do to these items
what it does. `SplitKeeps`, `MergeKeeps`, `LoanFromPrev` and `LoanFromNext`:
they stay the same sequence. All four follow from two facts: a node is what is
left of item i, the item and what is right of it (`Apart`, `JoinedInOrder`), and
the items before and after a child do not depend on the child (`KidInContext`).
The descents are inductions over levels. `InsertKeeps` and `RemoveKeeps` say of
a level that the items change by the item inserted or by one item of the key
removed, the references with them, that they still ascend, and that the node
gains or loses at most one item; the induction carries what the code relies on:
a child is not full when an insertion enters it (`PartedKeeps`), has `degree`
items when a removal does, and the key still lies between its neighbours after a
loan or a merge (`ReadyKeeps`). When the key is in an inner node, `PrevStandsIn`
and `NextStandsIn` show that the item that takes its place is the last or the
first one of a subtree, and that the removal below then takes one item of that
key out of the subtree, so that no key but the one removed is held more or less
often. A node on the way may have one item too few: `Loose` is what it is then,
`Filled` what every node but the root is when the operation returns, `GoodRoot`
what the root is.

`TreeInv` is the inductive invariant: the root is good, the references held are the
items, the count covers them, and a key that is not in `doubled` has one item or
none. The last part is what the tree itself does not ensure (a split can let a key in
twice) and what a search needs: `SearchFinds` says that it answers some value held
under the key, which is the value only if there is one. For the refinement,
`OverwriteOf`, `InsertChangesOne` and `RemoveChangesOne` show that only the key of
the operation changes its answer, and that a key is lost only when it had a value.

`NumberLemmas` holds what several of these proofs need. The library's induction
theorems take an operator as parameter, which the installed provers cannot
instantiate; `IntervalInduction` has a set of numbers in its place, and rests on
the theorem that `<` is well-founded. `RecursionHasSolution` gives a recursive
function on an interval its defining equation, which lets the proofs speak of
the copying loop of `adjustCapacity`, of `Captures`, of `Combine` and `Tree` of `IndexSpace`,
and of the insertions that a B-tree starts with; `LevelFunctions` does the same
for the functions over its levels. The rest is about quotients and remainders.

Beyond the prover: liveness (it needs fairness and ENABLED) stays with the runs
`WorkRanges`, `SimtEngineLive`, `JitManager` and `StackVM`. `^` has no meaning to
the provers; `Doubled` has the powers of two as a recursive function instead.
`Compiler` and `Meaning` are recursive on programs, so that the compiler makes
planned code, and that both engines answer what is meant (`AnswersAsWritten`), is
only model-checked. So is what remains true of the types and the captures once
compiled code has strayed.

## 6. Where code and documentation disagree

| Run | Property | What happens |
|---|---|---|
| `SimtEngineMissed` | `DispatchReturns` | `dispatchJob` publishes and notifies without the lock (2304-2306). A worker that has evaluated its predicate and not yet begun to wait sleeps on. Nobody may take the last block of its range (2046), so without a failure `remaining` stays above 0 and the host never gets past its first wait (2311), although `src/README.md:25` has main and workers claim all blocks; if a kernel fails, the host passes it and spins for ever at 2325, because `seen` never reaches `workerCount`, although the same line has it wait until `failed` or `remaining==0`. |
| `StackVMReturn` | `AnswersAsWritten` | `return e` closes each captured local with an `OP_CLOSE_UPVALUE` while the result is on top of the stack (`compiler.cpp` 1432-1437): the first pops the result, the next ones pop locals. A maker of a closure over two variables returns a local instead of the closure (`src/isli_compiler/SYNTAX.md:161`). |
| `KernelCallsReset` | `KernelErrorsFailTheirJob` | The natives of typed buffers report errors on the VM of the host, whoever calls them (349, 354, 375, 397), and `jitCallClosure` drops the error of an interpreter that it called (3710): the job of the kernel is not failed, and the host's VM may be reset while it dispatches (the comment at 1795, `src/README.md:90`). |

The passing runs state what remains true next to these: `ReturnsUnlessMissed`
(the missed notification and the overlap described below are the only ways to
hang), `OnlyStraysGoWrong`, and the sessions `OneCaptured` of `StackVM` (with
one captured local, and the returned function the last one, the value popped and
the value returned are the same), `Compound` (conditions that go on after a
comparison, where the loop stops at the same number either way) and `Unused` (the
mark left by a trial, in functions that end without `return`, or return the local
that is returned in any case). The properties of `IndexSpace` hold where
`x + tx - 1` does not wrap around (`NoRoundingWraps`); for a huge tile it does,
the extent becomes 0 and no cell runs, which no document speaks of.

Met while modelling, and visible in the models without a run of their own:

- `seen` is counted before `inFlight`, and the host tests them in the other
  order. After a failed job the host may return and refill `g_job` while a worker
  is between the two (`overlap` of `SimtEngine`; `StartsOnce` excuses it).
- A failed dispatch returns true and leaves nil, so `src/README.md:90` holds of
  the message only.
- `Manager::shutdown` leaves its queue. What it holds was freed by `freeSlabs`
  when the next `isli_open` starts a manager on it (`JitManager`, `Reopen`).
- `src/README.md:11`, `:39` and `:111` speak of counted, collected objects; all
  objects are immortal.
- The last `OP_RETURN` of an interpreted kernel drops its result, so that a
  reduction over such a kernel fails with "reduce kernel must return a number."
  (`KernelEnds`).
- A kernel that is compiled and runs on a worker has no stack to call an
  interpreted function on (`CodeCalls`).
- Machine code assigns to undefined globals, reads them as nil, and goes on
  after errors, where the interpreter stops (`strayed` of `NativeCode`).
- Loops are recognised by their tokens, and three kinds are taken for something
  else. A step is judged by its first character (`compiler.cpp` 1091, 1093, 1274,
  1276), so `i = i + 10` counts by one, although the comment at 1266 says "+ 1"
  (`StartsWithOne`). The limit is all that stands between `i <` and the semicolon
  (1080, 1256), so `i < 3 and ok` is run as `i < (3 and ok)` and stops with an
  error, although `src/README.md:20` speaks of precedence climbing (`Limits`). And
  a trial of a loop whose limit names the loop's variable marks the variable of
  that name in the function around as captured; the rollback (1194-1203) leaves the
  mark, and `return e` of that function closes one local too many and returns
  another (`RolledBack`). `MCStackVM` has sessions for each: with `StepSessions`,
  `LimitSessions` or `RollbackSessions` in the place of `ReturnSessions` in
  `MCStackVMReturn.cfg`, TLC finds `AnswersAsWritten` violated.
- A B-tree may hold a key twice (`doubled`), and its count grows when a key that
  is there is inserted again (`CountCovers` is one-sided for that reason).

## 7. What is not modelled

`PROJECT.json` gives a reason for each component. In short: the encoding of
machine instructions, NaN boxing and vector instructions are data that TLC cannot
enumerate usefully; the slab allocator keeps one cache per thread and a locked
list, and since objects are never given back only the closing of a VM could go
wrong there; the scanner, disassembler, C API, binding, start-up, installer and
editor grammar are sequential and without states worth exploring. Inside the
modelled components: `initSIMTEngine`'s choice and pinning of CPUs, the task
branch of `workerLoop` (nothing pushes to its queue), `Table::addAll` (nothing
calls it), structs, pointers and nested subscripts in the compiler and the run
loop, division and modulo, the number of operands that machine code has room for, the
contents of values in the scheduler and the table, and weak-memory effects
beyond the interleaving of single accesses.

`AnswersAsWritten` is checked for the sessions that the runs generate. Loops that
are compiled as something else than they were written as are in no session of the
passing run: the three kinds that section 6 describes (a step whose first digit is
1, a limit that takes in the rest of the condition, a trial that marks a variable of
the function around), and

- a loop whose body or step changes what its limit depends on: `$limit` is
  evaluated once (`compiler.cpp:1255`);
- a loop whose start names a variable called like its own: a counted loop reads
  the outer one, where any other `for` is refused;
- an array loop whose filling expression has effects, or which leaves its array,
  or runs over a typed buffer (`compiler.cpp` 1180-1190), or whose destination
  or limit names the loop's variable.
