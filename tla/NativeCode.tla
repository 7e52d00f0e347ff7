----------------------------- MODULE NativeCode -----------------------------
(***************************************************************************)
(* The machine code that jit.cpp makes of a function, one action per       *)
(* instruction it was made of, with the helpers that the code calls; the   *)
(* interpreter and this code call each other.  Locals and operands lie in  *)
(* one region of the C++ stack, mem: the callee, the parameters, and what  *)
(* is pushed above them, as on the stack of the VM.                        *)
(*                                                                         *)
(* The program has one VM and runs outside a job, so an error in a helper  *)
(* is reported on that VM, and the code goes on.  Where the interpreter    *)
(* would have stopped, or gone another way, strayed becomes true.          *)
(***************************************************************************)
EXTENDS StackVM

CONSTANT Leftovers      \* what an outgoing slot may still hold that no
                        \* argument was written to

NativeIns == heap[Act.closure].fn.code[Act.ip]
Machine(op) == status = "running" /\ Act.kind = "native" /\ NativeIns[1] = op
Operand(distance) == Act.mem[Len(Act.mem) - distance]
Local(n) == Act.mem[n + 1]
Below(n) == SubSeq(Act.mem, 1, Len(Act.mem) - n)        \* without n operands
Operands(n) == SubSeq(Act.mem, Len(Act.mem) - n + 1, Len(Act.mem))

\* The activations when this one has gone on with another memory.
GoneOn(mem, distance) ==
    [acts EXCEPT ![Len(acts)] = [Act EXCEPT !.mem = mem, !.ip = Act.ip + 1 + distance]]
GoOn(mem, distance) == acts' = GoneOn(mem, distance)
Give(n, v) == GoOn(Append(Below(n), v), 0)

input == <<session, taken, status>>
frame == <<stack, top, frames, frameCount, openUpvalues, forgotten>>

-----------------------------------------------------------------------------
(* Values and variables *)

NativeConstant ==
    /\ Machine("CONSTANT") /\ Give(0, NativeIns[2])
    /\ UNCHANGED <<input, frame, upvalues, heap, globals, output, strayed>>

NativePop ==
    /\ Machine("POP") /\ GoOn(Below(1), 0)
    /\ UNCHANGED <<input, frame, upvalues, heap, globals, output, strayed>>

NativeGetLocal ==
    /\ Machine("GET_LOCAL") /\ Give(0, Local(NativeIns[2]))
    /\ UNCHANGED <<input, frame, upvalues, heap, globals, output, strayed>>

NativeSetLocal ==
    /\ Machine("SET_LOCAL") /\ GoOn([Act.mem EXCEPT ![NativeIns[2] + 1] = Operand(0)], 0)
    /\ UNCHANGED <<input, frame, upvalues, heap, globals, output, strayed>>

NativeUpvalue(n) == heap[Act.closure].upvalues[n + 1]

NativeGetUpvalue ==
    /\ Machine("GET_UPVALUE") /\ Give(0, Captured(NativeUpvalue(NativeIns[2])))
    /\ UNCHANGED <<input, frame, upvalues, heap, globals, output, strayed>>

NativeSetUpvalue ==
    /\ Machine("SET_UPVALUE") /\ SetCaptured(NativeUpvalue(NativeIns[2]), Operand(0))
    /\ GoOn(Act.mem, 0)
    /\ UNCHANGED <<input, top, frames, frameCount, openUpvalues, forgotten, heap, globals, output, strayed>>

\* jit_helper_get_global_cached: a name that is not defined is nil.
GlobalOrNil(x) == IF x \in DOMAIN globals THEN globals[x] ELSE Nil

\* The function's own name stands for the closure that runs, whatever has been
\* assigned to it meanwhile.
Named(x) == IF x = heap[Act.closure].fn.name THEN Local(0) ELSE GlobalOrNil(x)

NativeGetGlobal ==
    /\ Machine("GET_GLOBAL") /\ Give(0, Named(NativeIns[2]))
    /\ strayed' = (strayed \/ NativeIns[2] \notin DOMAIN globals
                           \/ Named(NativeIns[2]) # GlobalOrNil(NativeIns[2]))
    /\ UNCHANGED <<input, frame, upvalues, heap, globals, output>>

\* jit_helper_set_global: a name that is not defined becomes so.
NativeSetGlobal ==
    /\ Machine("SET_GLOBAL") /\ GoOn(Act.mem, 0)
    /\ globals' = Assigned(NativeIns[2], Operand(0))
    /\ strayed' = (strayed \/ NativeIns[2] \notin DOMAIN globals)
    /\ UNCHANGED <<input, frame, upvalues, heap, output>>

NativePrint ==
    /\ Machine("PRINT") /\ GoOn(Below(1), 0) /\ output' = Append(output, Operand(0))
    /\ UNCHANGED <<input, frame, upvalues, heap, globals, strayed>>

-----------------------------------------------------------------------------
(* Operators *)

\* isliMarkJobFailed outside a job: runtimeError on the VM under this code.
MarkFailed ==
    /\ output' = Append(output, "error") /\ ResetStack /\ strayed' = TRUE
    /\ UNCHANGED <<input, stack, frames, upvalues, globals>>

\* A helper's answer takes the place of n operands, unless it refuses them.
Answers(n, accepted, v, otherwise) ==
    IF accepted
    THEN Give(n, v) /\ UNCHANGED <<input, frame, upvalues, globals, output, strayed>>
    ELSE Give(n, otherwise) /\ MarkFailed

AreNumbers == IsNumber(Operand(0)) /\ IsNumber(Operand(1))
AreStrings == IsString(Operand(0)) /\ IsString(Operand(1))
Number(n) == Operand(n)[2]

NativeAdd ==
    /\ Machine("ADD")
    /\ Answers(2, AreNumbers \/ AreStrings,
               IF AreNumbers THEN Num(Number(1) + Number(0))
                             ELSE <<"str", Operand(1)[2] \o Operand(0)[2]>>, Nil)
    /\ UNCHANGED heap

NativeSubtract ==
    /\ Machine("SUBTRACT") /\ Answers(2, AreNumbers, Num(Number(1) - Number(0)), Nil)
    /\ UNCHANGED heap

NativeMultiply ==
    /\ Machine("MULTIPLY") /\ Answers(2, AreNumbers, Num(Number(1) * Number(0)), Nil)
    /\ UNCHANGED heap

NativeNegate ==
    /\ Machine("NEGATE") /\ Answers(1, IsNumber(Operand(0)), Num(-Number(0)), Nil)
    /\ UNCHANGED heap

NativeNot ==
    /\ Machine("NOT") /\ Give(1, Bool(IsFalsey(Operand(0))))
    /\ UNCHANGED <<input, frame, upvalues, heap, globals, output, strayed>>

NativeEqual ==
    /\ Machine("EQUAL") /\ Give(2, Bool(Operand(1) = Operand(0)))
    /\ UNCHANGED <<input, frame, upvalues, heap, globals, output, strayed>>

NativeLess ==
    /\ Machine("LESS") /\ ~AreStrings
    /\ Answers(2, AreNumbers, Bool(Number(1) < Number(0)), Bool(FALSE))
    /\ UNCHANGED heap

NativeGreater ==
    /\ Machine("GREATER") /\ ~AreStrings
    /\ Answers(2, AreNumbers, Bool(Number(1) > Number(0)), Bool(FALSE))
    /\ UNCHANGED heap

\* Strings have an order here, which is left open; the interpreter refuses them.
NativeCompareStrings ==
    /\ Machine("LESS") \/ Machine("GREATER")
    /\ AreStrings /\ \E answer \in BOOLEAN : Give(2, Bool(answer))
    /\ strayed' = TRUE
    /\ UNCHANGED <<input, frame, upvalues, heap, globals, output>>

NativeGetIndex ==
    /\ Machine("GET_INDEX")
    /\ Answers(2, Within(Operand(1), Operand(0)), Item(Operand(1), Operand(0)), Nil)
    /\ UNCHANGED heap

NativeSetIndex ==
    /\ Machine("SET_INDEX")
    /\ Answers(3, Within(Operand(2), Operand(1)), Operand(0), Operand(0))
    /\ IF Within(Operand(2), Operand(1)) THEN StoreItem(Operand(2), Operand(1), Operand(0))
                                        ELSE UNCHANGED heap

-----------------------------------------------------------------------------
(* Jumps, loops *)

NativeJump ==
    /\ \/ Machine("JUMP") /\ GoOn(Act.mem, NativeIns[2])
       \/ Machine("JUMP_IF_FALSE") /\ GoOn(Act.mem, IF IsFalsey(Operand(0)) THEN NativeIns[2] ELSE 0)
       \/ Machine("LOOP") /\ GoOn(Act.mem, -NativeIns[2])
    /\ UNCHANGED <<input, frame, upvalues, heap, globals, output, strayed>>

\* Nothing is tested here: what is no number is a NaN for addsd and stays as it
\* is, and of an unordered comparison ucomisd says "below".
NativeLoopIncr ==
    LET iter == Local(NativeIns[2])
        limit == Local(NativeIns[3])
        next == IF IsNumber(iter) THEN Num(iter[2] + 1) ELSE iter
        ordered == IsNumber(iter) /\ IsNumber(limit)
        again == ordered => CountsOn(NativeIns[1], next[2], limit[2])
    IN  /\ Machine("LOOP_INCR_LESS") \/ Machine("LOOP_INCR_LEQ")
        /\ GoOn([Act.mem EXCEPT ![NativeIns[2] + 1] = next], IF again THEN -NativeIns[4] ELSE 0)
        /\ strayed' = (strayed \/ ~ordered)
        /\ UNCHANGED <<input, frame, upvalues, heap, globals, output>>

-----------------------------------------------------------------------------
(* Calls *)

Callee == Operand(NativeIns[2])
Args == Operands(NativeIns[2])
Called == GoneOn(Below(NativeIns[2] + 1), 0)    \* the caller, once it has called

\* The memory of machine code that starts: the callee and its parameters.
Entered(closure, mem) == [kind |-> "native", closure |-> closure, ip |-> 1, slots |-> 0, mem |-> mem]

\* A function that calls itself: the arguments are not counted, so missing
\* ones are what the outgoing slots last held.
CallSelf ==
    LET arity == Arity(Callee)
        passed == IF Len(Args) < arity THEN Len(Args) ELSE arity
    IN  /\ Machine("CALL") /\ Callee = Local(0)
        /\ \E rest \in [1 .. arity - passed -> Leftovers] :
              acts' = Append(Called, Entered(Act.closure, <<Callee>> \o SubSeq(Args, 1, passed) \o rest))
        /\ strayed' = (strayed \/ Len(Args) # arity)
        /\ UNCHANGED <<input, frame, upvalues, heap, globals, output>>

\* jit_helper_call: another function that is compiled, now if not before.
CallCompiled ==
    /\ Machine("CALL") /\ Callee # Local(0) /\ IsClosure(Callee) /\ RunsNative(Callee, Len(Args))
    /\ acts' = Append(Called, Entered(Callee[2], <<Callee>> \o Args))
    /\ UNCHANGED <<input, frame, upvalues, heap, globals, output, strayed>>

\* jitCallClosure: callee and arguments go to the VM's stack, and run goes on
\* until the count of frames is back where it was.
SlipStopFrame == 0                          \* as for the script itself
StopFrame == frameCount
StackWith(vs) == SubSeq(stack, 1, top) \o vs \o SubSeq(stack, top + Len(vs) + 1, Len(stack))

CallInterpreted ==
    /\ Machine("CALL") /\ Callee # Local(0) /\ IsClosure(Callee) /\ ~RunsNative(Callee, Len(Args))
    /\ Callable(Callee, Len(Args))
    /\ stack' = StackWith(<<Callee>> \o Args) /\ top' = top + Len(Args) + 1
    /\ frames' = Pushed(frames, Callee[2], top + 1) /\ frameCount' = frameCount + 1
    /\ acts' = Append(Called, [kind |-> "run", frame |-> frameCount + 1, stop |-> StopFrame, saved |-> top])
    /\ UNCHANGED <<input, openUpvalues, forgotten, upvalues, heap, globals, output, strayed>>

\* Too many or too few arguments, or no frame left: an error on the VM, and nil.
CallFails ==
    /\ Machine("CALL") /\ Callee # Local(0) /\ IsClosure(Callee) /\ ~RunsNative(Callee, Len(Args))
    /\ ~Callable(Callee, Len(Args))
    /\ acts' = [Called EXCEPT ![Len(acts)].mem = Append(@, Nil)]
    /\ stack' = IF Arity(Callee) = Len(Args) THEN StackWith(<<Callee>> \o Args) ELSE stack
    /\ output' = Append(output, "error") /\ ResetStack /\ strayed' = TRUE
    /\ UNCHANGED <<input, frames, upvalues, heap, globals>>

CallNativeFn ==
    LET result == Native(Callee[2], Args)
    IN  /\ Machine("CALL") /\ Callee[1] = "native"
        /\ Give(NativeIns[2] + 1, result.value) /\ heap' = result.heap
        /\ UNCHANGED <<input, frame, upvalues, globals, output, strayed>>

\* What cannot be called answers nil, without an error.
CallNothing ==
    /\ Machine("CALL") /\ Callee[1] # "native" /\ ~IsClosure(Callee)
    /\ Give(NativeIns[2] + 1, Nil) /\ strayed' = TRUE
    /\ UNCHANGED <<input, frame, upvalues, heap, globals, output>>

\* jit_helper_return_and_drop: what lies on top, if anything was pushed at all.
\* callValue puts it where the callee was on the stack of the VM.
NativeReturn ==
    LET v == IF Len(Act.mem) > heap[Act.closure].fn.arity + 1 THEN Operand(0) ELSE Nil
    IN  /\ Machine("RETURN")
        /\ IF Act.slots > 0
           THEN acts' = Front(acts) /\ stack' = Put(stack, Act.slots, v) /\ top' = Act.slots
           ELSE Answer(v) /\ UNCHANGED <<stack, top>>
        /\ UNCHANGED <<input, frames, frameCount, openUpvalues, forgotten, upvalues, heap, globals,
                       output, strayed>>

NativeNext ==
    \/ NativeConstant \/ NativePop \/ NativeGetLocal \/ NativeSetLocal
    \/ NativeGetUpvalue \/ NativeSetUpvalue \/ NativeGetGlobal \/ NativeSetGlobal
    \/ NativePrint \/ NativeAdd \/ NativeSubtract \/ NativeMultiply \/ NativeNegate
    \/ NativeNot \/ NativeEqual \/ NativeLess \/ NativeGreater \/ NativeCompareStrings
    \/ NativeGetIndex \/ NativeSetIndex \/ NativeJump \/ NativeLoopIncr
    \/ CallSelf \/ CallCompiled \/ CallInterpreted \/ CallFails \/ CallNativeFn
    \/ CallNothing \/ NativeReturn

Spec == Init /\ [][Next \/ NativeNext]_vars
FairSpec == Spec /\ WF_vars(Next \/ NativeNext)

-----------------------------------------------------------------------------
(* Properties *)

Finished == status = "idle" /\ taken = Len(session.code)

\* The state has the shape it is declared with; the stack is empty between
\* inputs.
TypeOK ==
    /\ taken \in 0 .. Len(session.code) /\ status \in {"idle", "running", "undefined"}
    /\ top \in 0 .. Len(stack) /\ (status = "idle" => top = 0 /\ frameCount = 0 /\ acts = <<>>)
    /\ frameCount \in -1 .. FramesMax
    /\ ToSet(openUpvalues) \subseteq DOMAIN upvalues
    /\ \A u \in DOMAIN upvalues : upvalues[u].at \in 0 .. Len(stack)
    /\ strayed \in BOOLEAN

\* However the two engines call each other, the interpreter that runs is at the
\* innermost frame, each one below it will stop at a frame of its own, and the
\* stack that jitCallClosure will give back is still there: but for an error in
\* compiled code, whose reset the callers do not know of, run never reads
\* frames that are not there.
Runs == {k \in DOMAIN acts : acts[k].kind = "run"}
Slots(k) == frames[acts[k].frame].slots
EnginesNest ==
    ~strayed /\ status # "idle" =>
        /\ status = "running"
        /\ \A k \in Runs : acts[k].stop < acts[k].frame /\ acts[k].saved < Slots(k)
        /\ \E k \in Runs : acts[k].frame = frameCount /\ \A j \in Runs : j <= k
        /\ \A j, k \in Runs : j < k /\ Runs \cap j + 1 .. k - 1 = {} =>
              acts[k].stop = acts[j].frame /\ acts[k].saved >= Slots(j)

\* An instruction is met at the height that the code's plan says, whatever path
\* led to it and whichever engine runs it: what run and the machine code push
\* and pop agrees, and calls give back as much stack as they were given.
Planning(closure, ip, height) ==
    LET plan == session.plan[heap[closure].fn]
    IN  ip \in DOMAIN plan /\ height = plan[ip].height
StackBalanced ==
    ~strayed /\ status = "running" =>
        IF Act.kind = "run" THEN Planning(Frame.closure, Frame.ip, top - Frame.slots + 1)
                            ELSE Planning(Act.closure, Act.ip, Len(Act.mem))

\* An upvalue that a closure can still use is closed, or in the list and for a
\* slot that is in use: no closure, compiled or not, reads a slot given up.
\* An error forgets the list, and the upvalues that were in it are left out.
CapturesStaySound ==
    \A i \in DOMAIN heap : heap[i].kind = "closure" =>
        \A u \in ToSet(heap[i].upvalues) \ forgotten :
            upvalues[u].at > 0 => u \in ToSet(openUpvalues) /\ upvalues[u].at <= top
=============================================================================
