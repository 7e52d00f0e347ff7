----------------------------- MODULE KernelCalls -----------------------------
(***************************************************************************)
(* What runs on top of what on each thread: the interpreter (run), machine *)
(* code, the loop of a dispatch over its indices (runKernelRange) and the  *)
(* loop of a participant over its blocks (workOnJob), each of which can    *)
(* start another, with the thread-local variables that tell an error where *)
(* it belongs: tl_currentVM, tl_currentJob and tl_kernelDepth.             *)
(*                                                                         *)
(* Programs are left open: code may call, dispatch, return or fail at any  *)
(* moment, a dispatch may have any number of indices, and each function is *)
(* compiled or declined.  Of a VM only its count of frames is kept.  How   *)
(* blocks are shared is in WorkRanges, how a dispatch starts and ends      *)
(* among the threads in SimtEngine.                                        *)
(***************************************************************************)
EXTENDS Integers, Sequences

CONSTANTS
    Thread, Host,       \* the threads; the one that runs the script
    KernelNest,         \* KERNEL_VM_NEST
    FramesMax,          \* FRAMES_MAX
    None,               \* nullptr
    MaxCalls            \* bound on the activations of each thread, for TLC

ASSUME ThreadAssumption == Host \in Thread
ASSUME NestAssumption == KernelNest \in Nat
ASSUME FramesAssumption == FramesMax \in Nat \ {0}
ASSUME NoneAssumption == None \notin Thread \X Nat
ASSUME CallsAssumption == MaxCalls \in [Thread -> Nat]

VARIABLES
    calls,          \* per thread: what runs, the innermost last
    frames,         \* VM::frameCount
    hasStack,       \* the VMs whose stackTop is set
    currentVM,      \* tl_currentVM
    currentJob,     \* tl_currentJob
    kernelDepth,    \* tl_kernelDepth
    failed,         \* the jobs under way whose failed is set
    published,      \* scheduler.currentJob
    status,         \* "running", or "undefined" once the C++ program is
    strayed         \* history: the VMs reset under code that still runs on them

vars == <<calls, frames, hasStack, currentVM, currentJob, kernelDepth, failed, published,
          status, strayed>>

\* Each thread has a VM of its own and its kernel VMs, one per depth.
VM == Thread \X (0 .. KernelNest)
Own(t) == <<t, 0>>          \* vm, or the workerVM of workerLoop
KernelVM(t, depth) == <<t, depth>>
Main == Own(Host)

\* A job is named by the thread and the place of the dispatch that made it.
Job == Thread \X Nat

Run(vm, stop) == [kind |-> "run", vm |-> vm, stop |-> stop]
Code(vm) == [kind |-> "code", vm |-> vm]
Work(job, vm, kernel) == [kind |-> "work", vm |-> vm, job |-> job, kernel |-> kernel]
KernelRange(job, vm, kernel, savedVM, savedJob) ==
    [kind |-> "range", vm |-> vm, job |-> job, kernel |-> kernel,
     savedVM |-> savedVM, savedJob |-> savedJob]

\* Of a kernel: whether it is compiled, and whether its results are reduced.
Kernel == [compiled : BOOLEAN, reduces : BOOLEAN]

Height(t) == Len(calls[t])
Top(t) == calls[t][Height(t)]
Under(t) == calls[t][Height(t) - 1]
Running(t, kind) == status = "running" /\ Height(t) > 0 /\ Top(t).kind = kind
Executing(t) == Running(t, "run") \/ Running(t, "code")
CanPush(t) == Height(t) < MaxCalls[t]
Pushed(t, activation) == [calls EXCEPT ![t] = Append(@, activation)]
Popped(t) == [calls EXCEPT ![t] = SubSeq(@, 1, Len(@) - 1)]

\* The interpreter that runKernelRange has started, as opposed to jitCallClosure.
InKernel(t) == Height(t) > 1 /\ Under(t).kind = "range"

vmState == <<frames, hasStack, strayed>>
locals == <<currentVM, currentJob, kernelDepth>>

KCInit ==
    /\ calls = [t \in Thread |-> <<>>]
    /\ frames = [vm \in VM |-> 0]
    /\ hasStack = {Main}
    /\ currentVM = [t \in Thread |-> Own(t)]
    /\ currentJob = [t \in Thread |-> None]
    /\ kernelDepth = [t \in Thread |-> 0]
    /\ failed = {} /\ published = None
    /\ status = "running" /\ strayed = {}

-----------------------------------------------------------------------------
(* Errors *)

\* Whether code of any thread runs on a VM, after this step.
StillUsed(vm) ==
    \E t \in Thread : \E n \in DOMAIN calls'[t] :
        calls'[t][n].kind \in {"run", "code"} /\ calls'[t][n].vm = vm

\* resetStack, by runtimeError: the VM is empty, whoever goes on to use it.
Reset(vm) ==
    /\ frames' = [frames EXCEPT ![vm] = 0]
    /\ hasStack' = hasStack \cup {vm}
    /\ strayed' = IF StillUsed(vm) THEN strayed \cup {vm} ELSE strayed

\* isliMarkJobFailed
SlipMarkJobFailed(t) == failed' = failed \cup {currentJob[t]} /\ UNCHANGED vmState
MarkJobFailed(t) ==
    IF currentJob[t] # None
    THEN failed' = failed \cup {currentJob[t]} /\ UNCHANGED vmState
    ELSE Reset(currentVM[t]) /\ UNCHANGED failed

\* releaseKernelVM
SlipReleased(depth) == depth                  \* not given back
Released(depth) == IF depth > 0 THEN depth - 1 ELSE depth

\* run returns an error: to runKernelRange, which fails its job and gives the
\* kernel VM back, to jitCallClosure, which answers nil, or to interpret.
RunFails(t, vm) ==
    /\ calls' = Popped(t) /\ Reset(vm)
    /\ IF InKernel(t)
       THEN /\ failed' = failed \cup {Under(t).job}
            /\ kernelDepth' = [kernelDepth EXCEPT ![t] = Released(@)]
       ELSE UNCHANGED <<failed, kernelDepth>>
    /\ UNCHANGED <<currentVM, currentJob, published, status>>

\* An instruction refuses its operands, or a call its arguments.
RunError(t) == Running(t, "run") /\ RunFails(t, Top(t).vm)

\* dispatchJob refuses a grid, and reports it where tl_currentVM says.
DispatchTooLarge(t) == Running(t, "run") /\ RunFails(t, currentVM[t])

\* A helper of machine code refuses operands, and the code goes on.
CodeError(t) ==
    /\ Running(t, "code") /\ UNCHANGED calls /\ MarkJobFailed(t)
    /\ UNCHANGED <<locals, published, status>>

\* The natives of typed buffers report on the host's VM whoever calls them.
\* callValue then takes the arguments off the stack it was called with.
BufferNativeError(t) ==
    /\ Executing(t) /\ UNCHANGED calls /\ Reset(Main)
    /\ status' = IF Top(t).kind = "run" /\ Top(t).vm = Main THEN "undefined" ELSE status
    /\ UNCHANGED <<locals, failed, published>>

-----------------------------------------------------------------------------
(* Calls and returns *)

\* interpretVM, with the host at rest.
Interpret ==
    /\ status = "running" /\ calls[Host] = <<>> /\ CanPush(Host)
    /\ calls' = Pushed(Host, Run(Main, 0))
    /\ frames' = [frames EXCEPT ![Main] = @ + 1]
    /\ currentVM' = [currentVM EXCEPT ![Host] = Main]
    /\ strayed' = strayed \ {Main}
    /\ UNCHANGED <<hasStack, currentJob, kernelDepth, failed, published, status>>

\* OP_CALL of a function that is interpreted: a frame more.
RunCalls(t) ==
    /\ Running(t, "run") /\ frames[Top(t).vm] < FramesMax
    /\ frames' = [frames EXCEPT ![Top(t).vm] = @ + 1]
    /\ UNCHANGED <<calls, hasStack, locals, failed, published, status, strayed>>

\* A call of a function that is compiled.
CallsCode(t) ==
    /\ Executing(t) /\ CanPush(t)
    /\ calls' = Pushed(t, Code(Top(t).vm))
    /\ UNCHANGED <<vmState, locals, failed, published, status>>

\* jitCallClosure: machine code calls a function that is interpreted.  The VM
\* of a worker has no stack before an error has reset it.
SlipStop(vm) == 0                       \* as in interpretVM
Stop(vm) == frames[vm]
CodeCalls(t) ==
    LET vm == Top(t).vm
    IN  /\ Running(t, "code") /\ frames[vm] < FramesMax
        /\ IF vm \in hasStack
           THEN /\ CanPush(t)
                /\ calls' = Pushed(t, Run(vm, Stop(vm)))
                /\ frames' = [frames EXCEPT ![vm] = @ + 1]
                /\ currentVM' = [currentVM EXCEPT ![t] = vm]
                /\ UNCHANGED status
           ELSE status' = "undefined" /\ UNCHANGED <<calls, frames, currentVM>>
        /\ UNCHANGED <<hasStack, currentJob, kernelDepth, failed, published, strayed>>

\* The number of arguments is wrong, or the frames are used up: nil.
CodeCallFails(t) ==
    /\ Running(t, "code") /\ UNCHANGED calls /\ Reset(Top(t).vm)
    /\ UNCHANGED <<locals, failed, published, status>>

\* accumulateBlock: what a kernel returns must be a number to be reduced.
\* runKernelRange has set tl_currentJob, which isliMarkJobFailed fails.
Accumulated(t, isNumber) ==
    IF Under(t).kernel.reduces /\ ~isNumber THEN failed \cup {currentJob[t]} ELSE failed

CodeReturns(t) ==
    /\ Running(t, "code")
    /\ calls' = Popped(t)
    /\ IF InKernel(t)
       THEN \E isNumber \in BOOLEAN : failed' = Accumulated(t, isNumber)
       ELSE UNCHANGED failed
    /\ UNCHANGED <<vmState, locals, published, status>>

\* OP_RETURN to a frame of the same interpreter; there is none when the count
\* was reset meanwhile.
RunReturns(t) ==
    LET vm == Top(t).vm
    IN  /\ Running(t, "run") /\ frames[vm] - 1 # Top(t).stop
        /\ frames' = [frames EXCEPT ![vm] = @ - 1]
        /\ status' = IF frames[vm] > 1 THEN status ELSE "undefined"
        /\ UNCHANGED <<calls, hasStack, locals, failed, published, strayed>>

\* The last OP_RETURN of an interpreter that was called.
RunEnds(t) ==
    /\ Running(t, "run") /\ frames[Top(t).vm] - 1 = Top(t).stop /\ ~InKernel(t)
    /\ calls' = Popped(t)
    /\ frames' = [frames EXCEPT ![Top(t).vm] = @ - 1]
    /\ UNCHANGED <<hasStack, locals, failed, published, status, strayed>>

\* The last OP_RETURN of a kernel: with the stop frame 0 it drops the result,
\* and runKernelRange reads nil from the empty stack.
KernelEnds(t) ==
    /\ Running(t, "run") /\ frames[Top(t).vm] - 1 = Top(t).stop /\ InKernel(t)
    /\ calls' = Popped(t)
    /\ kernelDepth' = [kernelDepth EXCEPT ![t] = Released(@)]
    /\ failed' = Accumulated(t, FALSE)
    /\ frames' = [frames EXCEPT ![Top(t).vm] = @ - 1]
    /\ UNCHANGED <<hasStack, currentVM, currentJob, published, status, strayed>>

-----------------------------------------------------------------------------
(* Dispatches *)

\* runKernelRange starts: whose VM it works on, and what it will put back.
StartRange(t, job, kernel) ==
    /\ calls' = Pushed(t, KernelRange(job, Own(t), kernel, currentVM[t], currentJob[t]))
    /\ currentVM' = [currentVM EXCEPT ![t] = Own(t)]
    /\ currentJob' = [currentJob EXCEPT ![t] = job]

\* A small grid, or one inside another dispatch: a job of its own.
DispatchSerial(t) ==
    /\ Running(t, "run") /\ CanPush(t)
    /\ \E kernel \in Kernel : StartRange(t, <<t, Height(t) + 1>>, kernel)
    /\ UNCHANGED <<vmState, kernelDepth, failed, published, status>>

\* The one shared job, when there are workers and it is not in use.
DispatchParallel ==
    /\ Running(Host, "run") /\ CanPush(Host) /\ published = None /\ Thread # {Host}
    /\ published' = <<Host, Height(Host) + 1>>
    /\ \E kernel \in Kernel : calls' = Pushed(Host, Work(published', currentVM[Host], kernel))
    /\ UNCHANGED <<vmState, locals, failed, status>>

\* A worker finds the job and enters workOnJob.
Join(t) ==
    /\ status = "running" /\ t # Host /\ calls[t] = <<>> /\ published # None /\ CanPush(t)
    /\ calls' = Pushed(t, [calls[Host][published[2]] EXCEPT !.vm = currentVM[t]])
    /\ UNCHANGED <<vmState, locals, failed, published, status>>

\* A participant has claimed a block.
Claim(t) ==
    /\ Running(t, "work") /\ CanPush(t) /\ Top(t).job \notin failed
    /\ StartRange(t, Top(t).job, Top(t).kernel)
    /\ UNCHANGED <<vmState, kernelDepth, failed, published, status>>

\* The next index of a compiled kernel.
NextCompiled(t) ==
    /\ Running(t, "range") /\ CanPush(t) /\ Top(t).job \notin failed /\ Top(t).kernel.compiled
    /\ calls' = Pushed(t, Code(Top(t).vm))
    /\ UNCHANGED <<vmState, locals, failed, published, status>>

\* The next index of an interpreted one: acquireKernelVM, call and run.
HasKernelVM(t) == kernelDepth[t] < KernelNest
NextInterpreted(t) ==
    LET vm == KernelVM(t, kernelDepth[t] + 1)
    IN  /\ Running(t, "range") /\ CanPush(t) /\ Top(t).job \notin failed
        /\ ~Top(t).kernel.compiled /\ HasKernelVM(t)
        /\ calls' = Pushed(t, Run(vm, 0))
        /\ kernelDepth' = [kernelDepth EXCEPT ![t] = @ + 1]
        /\ frames' = [frames EXCEPT ![vm] = 1]
        /\ hasStack' = hasStack \cup {vm}
        /\ strayed' = strayed \ {vm}
        /\ currentVM' = [currentVM EXCEPT ![t] = vm]
        /\ UNCHANGED <<currentJob, failed, published, status>>

\* No kernel VM is left.
NoKernelVM(t) ==
    /\ Running(t, "range") /\ Top(t).job \notin failed
    /\ ~Top(t).kernel.compiled /\ ~HasKernelVM(t)
    /\ failed' = failed \cup {Top(t).job}
    /\ UNCHANGED <<calls, vmState, locals, published, status>>

\* The last index, or a failure.  The job of a serial dispatch is over then,
\* and the dispatch is done, whether it failed or not.
SlipRestoredJob(range) == None
RestoredJob(range) == range.savedJob
SlipRestoredVM(t, range) == currentVM[t]
RestoredVM(t, range) == range.savedVM
RangeEnds(t) ==
    /\ Running(t, "range")
    /\ calls' = Popped(t)
    /\ currentVM' = [currentVM EXCEPT ![t] = RestoredVM(t, Top(t))]
    /\ currentJob' = [currentJob EXCEPT ![t] = RestoredJob(Top(t))]
    /\ failed' = IF Under(t).kind = "work" THEN failed ELSE failed \ {Top(t).job}
    /\ UNCHANGED <<vmState, kernelDepth, published, status>>

\* A participant leaves workOnJob; the host only returns when all others have.
Leave(t) ==
    /\ Running(t, "work")
    /\ t = Host => \A u \in Thread \ {Host} : calls[u] = <<>>
    /\ calls' = Popped(t)
    /\ published' = IF t = Host THEN None ELSE published
    /\ failed' = IF t = Host THEN failed \ {Top(t).job} ELSE failed
    /\ UNCHANGED <<vmState, locals, status>>

Step(t) ==
    \/ RunError(t) \/ DispatchTooLarge(t) \/ CodeError(t) \/ BufferNativeError(t)
    \/ RunCalls(t) \/ CallsCode(t) \/ CodeCalls(t) \/ CodeCallFails(t)
    \/ CodeReturns(t) \/ RunReturns(t) \/ RunEnds(t) \/ KernelEnds(t)
    \/ DispatchSerial(t) \/ Join(t) \/ Claim(t)
    \/ NextCompiled(t) \/ NextInterpreted(t) \/ NoKernelVM(t) \/ RangeEnds(t) \/ Leave(t)

KCNext == Interpret \/ DispatchParallel \/ \E t \in Thread : Step(t)

KCSpec == KCInit /\ [][KCNext]_vars

-----------------------------------------------------------------------------
(* Properties *)

Activation ==
    [kind : {"run"}, vm : VM, stop : Int] \cup [kind : {"code"}, vm : VM]
        \cup [kind : {"work"}, vm : VM, job : Job, kernel : Kernel]
        \cup [kind : {"range"}, vm : VM, job : Job, kernel : Kernel,
              savedVM : VM, savedJob : Job \cup {None}]

\* The state has the shape it is declared with, and the depth of kernels stays
\* within the kernel VMs there are.
KCTypeOK ==
    /\ calls \in [Thread -> Seq(Activation)]
    /\ frames \in [VM -> Int] /\ hasStack \subseteq VM /\ strayed \subseteq VM
    /\ currentVM \in [Thread -> VM] /\ currentJob \in [Thread -> Job \cup {None}]
    /\ kernelDepth \in [Thread -> 0 .. KernelNest]
    /\ failed \subseteq Job /\ published \in Job \cup {None}
    /\ status \in {"running", "undefined"}

\* Whatever started and ended below it, with an error or without, the code that
\* runs on a thread finds its own VM in tl_currentVM: an error that helpers and
\* dispatchJob report there, outside a job, ends the program it arose in.
ErrorsOnOwnVM ==
    \A t \in Thread : calls[t] # <<>> /\ Top(t).kind # "range" => currentVM[t] = Top(t).vm

\* tl_currentJob is the job of the innermost dispatch that is under way on the
\* thread, and of none outside dispatches: a helper's error fails the job whose
\* kernel it arose in.
Dispatching(t, n) == calls[t][n].kind = "range"
ErrorsFailOwnJob ==
    \A t \in Thread :
        \/ currentJob[t] = None /\ \A n \in 1 .. Height(t) : ~Dispatching(t, n)
        \/ \E n \in 1 .. Height(t) :
              /\ Dispatching(t, n) /\ currentJob[t] = calls[t][n].job
              /\ \A m \in n + 1 .. Height(t) : ~Dispatching(t, m)

\* An interpreted kernel and the kernels of the dispatches nested in it have
\* VMs of their own, one for each depth that is counted.
OnKernelVM(t, n) == n > 1 /\ calls[t][n].kind = "run" /\ Dispatching(t, n - 1)
KernelVMsNest ==
    \A t \in Thread :
        /\ \A n \in 1 .. Height(t) : OnKernelVM(t, n) =>
              \E d \in 1 .. kernelDepth[t] : calls[t][n].vm = KernelVM(t, d)
        /\ \A m, n \in 1 .. Height(t) :
              OnKernelVM(t, m) /\ OnKernelVM(t, n) /\ m # n => calls[t][m].vm # calls[t][n].vm
        /\ \A d \in 1 .. kernelDepth[t] :
              \E n \in 1 .. Height(t) : OnKernelVM(t, n) /\ calls[t][n].vm = KernelVM(t, d)

\* On a VM that was not reset under running code the interpreters that are
\* under way stop at frames of their own, in the order in which they started,
\* and one called from machine code stops above the caller's frame, so that
\* its result is not dropped: it has no result only on the VM of a worker.
FramesNest ==
    \A t \in Thread : \A n \in 1 .. Height(t) :
        LET a == calls[t][n]
        IN  status = "running" /\ a.kind = "run" /\ a.vm \notin strayed =>
                /\ a.stop < frames[a.vm]
                /\ a.stop = 0 => a.vm = Own(t) \/ OnKernelVM(t, n)
                /\ \A m \in 1 .. n - 1 :
                      calls[t][m].kind = "run" /\ calls[t][m].vm = a.vm => calls[t][m].stop < a.stop

\* The program goes wrong only on a VM that was reset under running code, or
\* when machine code on the VM of a worker calls a function that is interpreted.
OnlyStraysGoWrong ==
    status = "undefined" =>
        \/ strayed # {}
        \/ \E t \in Thread \ {Host} :
              calls[t] # <<>> /\ Top(t) = Code(Own(t)) /\ Own(t) \notin hasStack

\* The report of an error.
Erring(t) ==
    RunError(t) \/ DispatchTooLarge(t) \/ CodeError(t) \/ BufferNativeError(t) \/ CodeCallFails(t)

\* An error inside a kernel fails its job and leaves the host's VM alone.
KernelErrorsFailTheirJob ==
    [][\A t \in Thread : Erring(t) /\ currentJob[t] # None =>
            currentJob[t] \in failed' /\ frames'[Main] = frames[Main]]_vars
=============================================================================
