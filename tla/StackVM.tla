------------------------------ MODULE StackVM ------------------------------
(***************************************************************************)
(* vm.cpp, run(): the interpreter's stack machine, one action per          *)
(* instruction, on the code that Compiler makes of a program.  A session   *)
(* is a sequence of inputs, as the prompt of main.cpp reads them, each     *)
(* compiled and run on the globals that the ones before it left.           *)
(*                                                                         *)
(* Values are <<"num", n>>, <<"bool", b>>, <<"nil">>, <<"str", s>>,        *)
(* <<"native", name>> and <<"obj", i>>, the i-th object of the heap, an    *)
(* array or a closure.  Objects are immortal: allocateObject sets refCount *)
(* to 1, the constructors then run Obj's initializer, RC_IMMORTAL, and     *)
(* clones and drops of such an object do nothing (object.cpp 44-65).       *)
(* Instructions that are specialised in place (OP_ADD_NUM and the others)  *)
(* fall back to the general one and are that one here.  Functions that the *)
(* JIT accepts run as machine code, module NativeCode.                     *)
(***************************************************************************)
EXTENDS Bytecode, SequencesExt

CONSTANTS
    Sessions,       \* what is tried: each has its inputs in code, compiled,
                    \* and the plan of the functions in them
    FramesMax       \* FRAMES_MAX

ASSUME FramesAssumption == FramesMax \in Nat \ {0}

\* What compiles is a script, and its functions keep to the plan.
ASSUME SessionsAssumption ==
    \A s \in Sessions :
        /\ Len(s.code) \in Nat
        /\ \A n \in 1 .. Len(s.code) : ~s.code[n].bad =>
              /\ s.code[n].fn \in DOMAIN s.plan
              /\ s.code[n].fn.arity = 0 /\ s.code[n].fn.upvalues = <<>>
        /\ \A fn \in DOMAIN s.plan : Planned(fn, s.plan)

VARIABLES
    session,        \* the session,
    taken,          \* and how many of its inputs are taken
    status,         \* "idle" between inputs, "running", or "undefined": the
                    \* interpreter reads frames before the first one
    acts,           \* the C++ calls under way, the innermost last: "run" of
                    \* the interpreter with its local variable frame and its
                    \* stopFrameCount, and "native" of machine code
    stack,          \* memory of the stack, what is above the top included
    top,            \* stackTop: how many slots are in use
    frames,         \* memory of the call frames; slots is slot 0's index
    frameCount,
    openUpvalues,   \* the list of open upvalues, the one highest up first
    upvalues,       \* at: the index of the stack slot, 0 once it is closed
    heap,           \* the objects, in the order of their allocation
    globals,
    output,         \* what was printed, the errors included
    forgotten,      \* history: the upvalues that were open when an error came
    strayed         \* history: compiled code came to where the interpreter
                    \* would have stopped with an error, or done otherwise

control == <<session, taken, status, acts, frameCount, forgotten, strayed>>
data == <<heap, upvalues, openUpvalues, globals>>
vars == <<session, taken, status, acts, stack, top, frames, frameCount,
          openUpvalues, upvalues, heap, globals, output, forgotten, strayed>>

-----------------------------------------------------------------------------
(* Objects *)

NewObject(object) == Append(heap, object)
NewRef == <<"obj", Len(heap) + 1>>
Closure(fn, captured) == [kind |-> "closure", values |-> <<>>, fn |-> fn, upvalues |-> captured]
NewArray(vs) == [kind |-> "array", values |-> vs, upvalues |-> <<>>]

IsArray(v) == v[1] = "obj" /\ heap[v[2]].kind = "array"
IsClosure(v) == v[1] = "obj" /\ heap[v[2]].kind = "closure"
IsNumber(v) == v[1] = "num"
IsString(v) == v[1] = "str"
IsFalsey(v) == v = Nil \/ v = <<"bool", FALSE>>
Bool(b) == <<"bool", b>>

-----------------------------------------------------------------------------
(* The stack and the instruction at the ip *)

Act == Last(acts)
Frame == frames[Act.frame]
Interpreting == status = "running" /\ Act.kind = "run"
Ins == heap[Frame.closure].fn.code[Frame.ip]
Fetch(op) == Interpreting /\ Ins[1] = op
Peek(distance) == stack[top - distance]
Slot(n) == stack[Frame.slots + n]
Arguments(n) == SubSeq(stack, top - n + 1, top)

\* Memory with v at index i.
Put(mem, i, v) == IF i > Len(mem) THEN Append(mem, v) ELSE [mem EXCEPT ![i] = v]

\* The n topmost values make way for v; what v replaces stays in memory.
Replace(n, v) == stack' = Put(stack, top - n + 1, v) /\ top' = top - n + 1
Push(v) == Replace(0, v)

Stepped(distance) == [frames EXCEPT ![Act.frame].ip = @ + 1 + distance]
Jump(distance) == frames' = Stepped(distance)
Advance == Jump(0)

-----------------------------------------------------------------------------
(* Inputs *)

Init ==
    /\ session \in Sessions /\ taken = 0 /\ status = "idle" /\ acts = <<>>
    /\ stack = <<>> /\ top = 0 /\ frames = <<>> /\ frameCount = 0
    /\ openUpvalues = <<>> /\ upvalues = <<>>
    /\ heap = <<>> /\ output = <<>> /\ forgotten = {} /\ strayed = FALSE
    /\ globals = [x \in NativeNames |-> <<"native", x>>]

\* call: the frame of a closure whose slot 0 is at an index.
Pushed(mem, closure, slots) == Put(mem, frameCount + 1, [closure |-> closure, ip |-> 1, slots |-> slots])

\* interpretVM: what does not compile is not run.  Compiling depends on the
\* input alone, so it is done when the sessions are made.
Interpret ==
    LET input == session.code[taken + 1]
    IN  /\ status = "idle" /\ taken < Len(session.code)
        /\ taken' = taken + 1
        /\ UNCHANGED <<session, openUpvalues, upvalues, globals, forgotten, strayed>>
        /\ IF input.bad
           THEN /\ output' = Append(output, "refused")
                /\ UNCHANGED <<status, acts, stack, top, frames, frameCount, heap>>
           ELSE /\ status' = "running"
                /\ heap' = NewObject(Closure(input.fn, <<>>))
                /\ Push(NewRef)
                /\ frames' = Pushed(frames, Len(heap) + 1, top + 1)
                /\ frameCount' = frameCount + 1
                /\ acts' = <<[kind |-> "run", frame |-> frameCount + 1, stop |-> frameCount, saved |-> top]>>
                /\ UNCHANGED output

-----------------------------------------------------------------------------
(* Values and variables *)

Constant ==
    /\ Fetch("CONSTANT") /\ Push(Ins[2]) /\ Advance
    /\ UNCHANGED <<control, data, output>>

Pop ==
    /\ Fetch("POP") /\ top' = top - 1 /\ Advance
    /\ UNCHANGED <<control, data, stack, output>>

GetLocal ==
    /\ Fetch("GET_LOCAL") /\ Push(Slot(Ins[2])) /\ Advance
    /\ UNCHANGED <<control, data, output>>

SetLocal ==
    /\ Fetch("SET_LOCAL")
    /\ stack' = [stack EXCEPT ![Frame.slots + Ins[2]] = Peek(0)]
    /\ Advance
    /\ UNCHANGED <<control, data, top, output>>

GetGlobal ==
    /\ Fetch("GET_GLOBAL") /\ Ins[2] \in DOMAIN globals
    /\ Push(globals[Ins[2]]) /\ Advance
    /\ UNCHANGED <<control, data, output>>

\* The globals with v as the value of x.
Assigned(x, v) == [y \in DOMAIN globals \cup {x} |-> IF y = x THEN v ELSE globals[y]]

DefineGlobal ==
    /\ Fetch("DEFINE_GLOBAL") /\ top' = top - 1
    /\ globals' = Assigned(Ins[2], Peek(0))
    /\ Advance
    /\ UNCHANGED <<control, stack, heap, upvalues, openUpvalues, output>>

SetGlobal ==
    /\ Fetch("SET_GLOBAL") /\ Ins[2] \in DOMAIN globals
    /\ globals' = Assigned(Ins[2], Peek(0))
    /\ Advance
    /\ UNCHANGED <<control, stack, top, heap, upvalues, openUpvalues, output>>

\* An upvalue stands for a stack slot while it is open.
Upvalue(n) == heap[Frame.closure].upvalues[n + 1]
Captured(u) == IF upvalues[u].at > 0 THEN stack[upvalues[u].at] ELSE upvalues[u].closed

GetUpvalue ==
    /\ Fetch("GET_UPVALUE") /\ Push(Captured(Upvalue(Ins[2]))) /\ Advance
    /\ UNCHANGED <<control, data, output>>

SetCaptured(u, v) ==
    IF upvalues[u].at > 0
    THEN stack' = [stack EXCEPT ![upvalues[u].at] = v] /\ UNCHANGED upvalues
    ELSE upvalues' = [upvalues EXCEPT ![u].closed = v] /\ UNCHANGED stack

SetUpvalue ==
    /\ Fetch("SET_UPVALUE") /\ SetCaptured(Upvalue(Ins[2]), Peek(0)) /\ Advance
    /\ UNCHANGED <<control, top, heap, openUpvalues, globals, output>>

PrintTop ==
    /\ Fetch("PRINT") /\ top' = top - 1
    /\ output' = Append(output, Peek(0)) /\ Advance
    /\ UNCHANGED <<control, data, stack>>

-----------------------------------------------------------------------------
(* Operators *)

Numbers == IsNumber(Peek(0)) /\ IsNumber(Peek(1))

Equal ==
    /\ Fetch("EQUAL") /\ Replace(2, Bool(Peek(1) = Peek(0))) /\ Advance
    /\ UNCHANGED <<control, data, output>>

Compare ==
    /\ \/ Fetch("LESS") /\ Numbers /\ Replace(2, Bool(Peek(1)[2] < Peek(0)[2]))
       \/ Fetch("GREATER") /\ Numbers /\ Replace(2, Bool(Peek(1)[2] > Peek(0)[2]))
    /\ Advance
    /\ UNCHANGED <<control, data, output>>

Add ==
    /\ Fetch("ADD")
    /\ \/ Numbers /\ Replace(2, Num(Peek(1)[2] + Peek(0)[2]))
       \/ /\ IsString(Peek(0)) /\ IsString(Peek(1))
          /\ Replace(2, <<"str", Peek(1)[2] \o Peek(0)[2]>>)
    /\ Advance
    /\ UNCHANGED <<control, data, output>>

Arithmetic ==
    /\ \/ Fetch("SUBTRACT") /\ Numbers /\ Replace(2, Num(Peek(1)[2] - Peek(0)[2]))
       \/ Fetch("MULTIPLY") /\ Numbers /\ Replace(2, Num(Peek(1)[2] * Peek(0)[2]))
    /\ Advance
    /\ UNCHANGED <<control, data, output>>

Not ==
    /\ Fetch("NOT") /\ Replace(1, Bool(IsFalsey(Peek(0)))) /\ Advance
    /\ UNCHANGED <<control, data, output>>

Negate ==
    /\ Fetch("NEGATE") /\ IsNumber(Peek(0)) /\ Replace(1, Num(-Peek(0)[2])) /\ Advance
    /\ UNCHANGED <<control, data, output>>

-----------------------------------------------------------------------------
(* Jumps and loops *)

JumpAhead ==
    /\ \/ Fetch("JUMP") /\ Jump(Ins[2])
       \/ Fetch("JUMP_IF_FALSE") /\ Jump(IF IsFalsey(Peek(0)) THEN Ins[2] ELSE 0)
    /\ UNCHANGED <<control, data, stack, top, output>>

Loop ==
    /\ Fetch("LOOP") /\ Jump(-Ins[2])
    /\ UNCHANGED <<control, data, stack, top, output>>

\* Counts, compares with the limit and jumps back to the body.
CountsOn(op, iter, limit) == IF op = "LOOP_INCR_LESS" THEN iter < limit ELSE iter <= limit
LoopIncr ==
    LET iter == Slot(Ins[2])[2] + 1
    IN  /\ Fetch("LOOP_INCR_LESS") \/ Fetch("LOOP_INCR_LEQ")
        /\ IsNumber(Slot(Ins[2])) /\ IsNumber(Slot(Ins[3]))
        /\ stack' = [stack EXCEPT ![Frame.slots + Ins[2]] = Num(iter)]
        /\ Jump(IF CountsOn(Ins[1], iter, Slot(Ins[3])[2]) THEN -Ins[4] ELSE 0)
        /\ UNCHANGED <<control, data, top, output>>

-----------------------------------------------------------------------------
(* Closures and calls *)

\* The place in the list of the first open upvalue that is not above a slot.
NotAbove(list, us, at) ==
    LET found == SelectInSeq(list, LAMBDA u : us[u].at <= at)
    IN  IF found = 0 THEN Len(list) + 1 ELSE found

\* captureUpvalue: the open upvalue of a slot, put into the list if it is new.
SlipCaptureUpvalue(acc, at) ==              \* always a new one
    [open |-> InsertAt(acc.open, NotAbove(acc.open, acc.us, at), Len(acc.us) + 1),
     us |-> Append(acc.us, [at |-> at, closed |-> Nil]),
     captured |-> Append(acc.captured, Len(acc.us) + 1)]
CaptureUpvalue(acc, at) ==
    LET place == NotAbove(acc.open, acc.us, at)
    IN  IF place <= Len(acc.open) /\ acc.us[acc.open[place]].at = at
        THEN [acc EXCEPT !.captured = Append(@, acc.open[place])]
        ELSE [open |-> InsertAt(acc.open, place, Len(acc.us) + 1),
              us |-> Append(acc.us, [at |-> at, closed |-> Nil]),
              captured |-> Append(acc.captured, Len(acc.us) + 1)]

\* What one upvalue of a new closure refers to.
Capture(acc, upvalue) ==
    IF upvalue.isLocal THEN CaptureUpvalue(acc, Frame.slots + upvalue.index)
    ELSE [acc EXCEPT !.captured = Append(@, Upvalue(upvalue.index))]

\* The upvalues of a new closure, one after the other.
Captures(ups) ==
    LET made[n \in 0 .. Len(ups)] ==
            IF n = 0 THEN [open |-> openUpvalues, us |-> upvalues, captured |-> <<>>]
            ELSE Capture(made[n - 1], ups[n])
    IN  made[Len(ups)]

MakeClosure ==
    LET made == Captures(Ins[2].upvalues)
    IN  /\ Fetch("CLOSURE") /\ Push(NewRef)
        /\ heap' = NewObject(Closure(Ins[2], made.captured))
        /\ openUpvalues' = made.open /\ upvalues' = made.us
        /\ Advance
        /\ UNCHANGED <<control, globals, output>>

\* closeUpvalues: the upvalues at the head of the list down to a slot take
\* their values with them.
SlipClosing(last) == NotAbove(openUpvalues, upvalues, last) - 1         \* those above it only
Closing(last) == NotAbove(openUpvalues, upvalues, last - 1) - 1
CloseUpvalues(last) ==
    LET closing == {openUpvalues[n] : n \in 1 .. Closing(last)}
    IN  /\ openUpvalues' = SubSeq(openUpvalues, Closing(last) + 1, Len(openUpvalues))
        /\ upvalues' = [u \in DOMAIN upvalues |->
                            IF u \in closing THEN [at |-> 0, closed |-> stack[upvalues[u].at]]
                                             ELSE upvalues[u]]
SlipCloseUpvalue ==                         \* the local stays on the stack
    /\ Fetch("CLOSE_UPVALUE") /\ CloseUpvalues(top) /\ Advance
    /\ UNCHANGED <<control, stack, top, heap, globals, output>>
CloseUpvalue ==
    /\ Fetch("CLOSE_UPVALUE") /\ CloseUpvalues(top) /\ top' = top - 1 /\ Advance
    /\ UNCHANGED <<control, stack, heap, globals, output>>

\* What compileFunction accepts: its pre-pass over the instructions.  The
\* script itself has no name and is never compiled.
Supported ==
    {"CONSTANT", "POP", "GET_LOCAL", "SET_LOCAL", "GET_UPVALUE", "SET_UPVALUE", "GET_GLOBAL",
     "SET_GLOBAL", "DEFINE_GLOBAL", "ADD", "SUBTRACT", "MULTIPLY", "NOT", "NEGATE", "LESS",
     "GREATER", "EQUAL", "PRINT", "GET_INDEX", "SET_INDEX", "RETURN", "JUMP", "JUMP_IF_FALSE",
     "LOOP", "LOOP_INCR_LESS", "LOOP_INCR_LEQ", "CALL"}
Compilable(fn) ==
    /\ fn.name # "script"
    /\ \A n \in DOMAIN fn.code :
        LET ins == fn.code[n]
        IN  /\ ins[1] \in Supported
            /\ ins[1] \in {"GET_LOCAL", "SET_LOCAL"} => ins[2] < 64
            /\ ins[1] \in {"LOOP_INCR_LESS", "LOOP_INCR_LEQ"} => ins[2] < 64 /\ ins[3] < 64
            /\ ins[1] = "CALL" => ins[2] <= 16
Arity(callee) == heap[callee[2]].fn.arity

\* A call that is not refused.
SlipCallable(callee, n) == Arity(callee) = n
Callable(callee, n) == Arity(callee) = n /\ frameCount < FramesMax
RunsNative(callee, n) == Compilable(heap[callee[2]].fn) /\ Arity(callee) = n

Call ==
    LET callee == Peek(Ins[2])
        slots == top - Ins[2]
    IN  /\ Fetch("CALL") /\ IsClosure(callee)
        /\ IF RunsNative(callee, Ins[2])
           THEN /\ acts' = Append(acts, [kind |-> "native", closure |-> callee[2], ip |-> 1,
                                         slots |-> slots, mem |-> SubSeq(stack, slots, top)])
                /\ Advance
                /\ UNCHANGED frameCount
           ELSE /\ Callable(callee, Ins[2])
                /\ frames' = Pushed(Stepped(0), callee[2], slots)
                /\ frameCount' = frameCount + 1
                /\ acts' = [acts EXCEPT ![Len(acts)].frame = frameCount + 1]
        /\ UNCHANGED <<session, taken, status, forgotten, strayed, data, stack, top, output>>

\* Natives return a value and may change the heap.
Size(args) ==
    CASE Len(args) = 1 /\ IsArray(args[1]) -> Len(heap[args[1][2]].values)
      [] Len(args) = 1 /\ IsString(args[1]) -> Len(args[1][2])
      [] OTHER -> 0
Count(v) == IF v[2] \in Nat THEN v[2] ELSE 0        \* none, below zero
Native(name, args) ==
    CASE name = "len" -> [value |-> Num(Size(args)), heap |-> heap]
      [] name = "array" ->
            IF Len(args) < 1 \/ ~IsNumber(args[1]) THEN [value |-> Nil, heap |-> heap]
            ELSE [value |-> NewRef,
                  heap |-> NewObject(NewArray([i \in 1 .. Count(args[1]) |->
                                                  IF Len(args) > 1 THEN args[2] ELSE Num(0)]))]
      [] name = "push" ->
            [value |-> Nil,
             heap |-> IF Len(args) = 2 /\ IsArray(args[1])
                      THEN [heap EXCEPT ![args[1][2]].values = Append(@, args[2])]
                      ELSE heap]

CallNative ==
    LET callee == Peek(Ins[2])
        result == Native(callee[2], Arguments(Ins[2]))
    IN  /\ Fetch("CALL") /\ callee[1] = "native"
        /\ heap' = result.heap
        /\ Replace(Ins[2] + 1, result.value)
        /\ Advance
        /\ UNCHANGED <<control, upvalues, openUpvalues, globals, output>>

\* A call from machine code is over: a value is pushed there.
Answer(v) == acts' = [Front(acts) EXCEPT ![Len(acts) - 1].mem = Append(@, v)]

\* run returns to interpretVM, or to jitCallClosure, which takes the result
\* from where it had put the callee and gives the stack back.
RunEnds(mem, height) ==
    IF Len(acts) = 1
    THEN status' = "idle" /\ acts' = <<>> /\ top' = height
    ELSE /\ Answer(IF height > Act.saved THEN mem[Act.saved + 1] ELSE Nil)
         /\ top' = Act.saved
         /\ UNCHANGED status

\* The upvalues of the frame are closed; the result takes slot 0, but for the
\* last frame of all, which drops it.  After an error in compiled code has
\* reset the count of frames, the frame to go on with may be before the first.
Return ==
    /\ Fetch("RETURN") /\ CloseUpvalues(Frame.slots)
    /\ frameCount' = frameCount - 1
    /\ stack' = Put(stack, Frame.slots, Peek(0))
    /\ IF frameCount - 1 = Act.stop
       THEN RunEnds(stack', IF Act.stop = 0 THEN 0 ELSE Frame.slots)
       ELSE /\ top' = Frame.slots
            /\ acts' = [acts EXCEPT ![Len(acts)].frame = frameCount - 1]
            /\ status' = IF frameCount - 1 > 0 THEN status ELSE "undefined"
    /\ UNCHANGED <<session, taken, frames, heap, globals, output, forgotten, strayed>>

-----------------------------------------------------------------------------
(* Arrays *)

BuildArray ==
    /\ Fetch("BUILD_ARRAY") /\ Replace(Ins[2], NewRef)
    /\ heap' = NewObject(NewArray(Arguments(Ins[2])))
    /\ Advance
    /\ UNCHANGED <<control, upvalues, openUpvalues, globals, output>>

\* Whether an index, as a value, lies in an array.
Within(array, index) ==
    /\ IsArray(array) /\ IsNumber(index)
    /\ index[2] \in 0 .. Len(heap[array[2]].values) - 1
Item(array, index) == heap[array[2]].values[index[2] + 1]
StoreItem(array, index, v) == heap' = [heap EXCEPT ![array[2]].values[index[2] + 1] = v]

GetIndex ==
    /\ Fetch("GET_INDEX") /\ Within(Peek(1), Peek(0))
    /\ Replace(2, Item(Peek(1), Peek(0))) /\ Advance
    /\ UNCHANGED <<control, data, output>>

SetIndex ==
    /\ Fetch("SET_INDEX") /\ Within(Peek(2), Peek(1))
    /\ StoreItem(Peek(2), Peek(1), Peek(0)) /\ Replace(3, Peek(0))
    /\ Advance
    /\ UNCHANGED <<control, upvalues, openUpvalues, globals, output>>

\* A loop's store into a range of an array, clamped.
Stored(array, range, items) ==
    [heap EXCEPT ![array[2]].values =
        [i \in DOMAIN @ |-> IF i - 1 \in range THEN items[i] ELSE @[i]]]
Clamped(start, end, length) == {i \in start .. end - 1 : i \in 0 .. length - 1}

ArrayCopy ==
    LET dest == Peek(3)
        source == Peek(2)
        length == Len(heap[dest[2]].values)
        sourceLength == Len(heap[source[2]].values)
        range == Clamped(Peek(1)[2], Peek(0)[2], IF sourceLength < length THEN sourceLength ELSE length)
    IN  /\ Fetch("SIMD_ARRAY_COPY") /\ Numbers /\ IsArray(dest) /\ IsArray(source)
        /\ heap' = Stored(dest, range, heap[source[2]].values)
        /\ top' = top - 4 /\ Advance
        /\ UNCHANGED <<control, stack, upvalues, openUpvalues, globals, output>>

ArrayFill ==
    LET dest == Peek(3)
        range == Clamped(Peek(1)[2], Peek(0)[2], Len(heap[dest[2]].values))
    IN  /\ Fetch("SIMD_ARRAY_FILL") /\ Numbers /\ IsArray(dest)
        /\ heap' = Stored(dest, range, [i \in DOMAIN heap[dest[2]].values |-> Peek(2)])
        /\ top' = top - 4 /\ Advance
        /\ UNCHANGED <<control, stack, upvalues, openUpvalues, globals, output>>

-----------------------------------------------------------------------------
(* Errors *)

SlipCallRefused(callee, n) ==               \* no limit on the frames
    callee[1] # "native" /\ ~(IsClosure(callee) /\ Arity(callee) = n)
CallRefused(callee, n) ==
    /\ callee[1] # "native"
    /\ ~(IsClosure(callee) /\ (RunsNative(callee, n) \/ Callable(callee, n)))

\* What the handlers turn away.
Refused ==
    CASE Ins[1] \in {"GET_GLOBAL", "SET_GLOBAL"} -> Ins[2] \notin DOMAIN globals
      [] Ins[1] \in {"LESS", "GREATER", "SUBTRACT", "MULTIPLY"} -> ~Numbers
      [] Ins[1] = "ADD" -> ~Numbers /\ ~(IsString(Peek(0)) /\ IsString(Peek(1)))
      [] Ins[1] = "NEGATE" -> ~IsNumber(Peek(0))
      [] Ins[1] \in {"LOOP_INCR_LESS", "LOOP_INCR_LEQ"} ->
            ~IsNumber(Slot(Ins[2])) \/ ~IsNumber(Slot(Ins[3]))
      [] Ins[1] = "CALL" -> CallRefused(Peek(Ins[2]), Ins[2])
      [] Ins[1] = "GET_INDEX" -> ~Within(Peek(1), Peek(0))
      [] Ins[1] = "SET_INDEX" -> ~Within(Peek(2), Peek(1))
      [] Ins[1] = "SIMD_ARRAY_COPY" -> ~Numbers \/ ~IsArray(Peek(3)) \/ ~IsArray(Peek(2))
      [] Ins[1] = "SIMD_ARRAY_FILL" -> ~Numbers \/ ~IsArray(Peek(3))
      [] OTHER -> FALSE

\* resetStack: nothing on the stack is dropped, and the open upvalues are
\* forgotten where they point.
ResetStack ==
    /\ top' = 0 /\ frameCount' = 0 /\ openUpvalues' = <<>>
    /\ forgotten' = forgotten \cup ToSet(openUpvalues)

\* runtimeError, and run returns; for machine code below it the call was nil.
RuntimeError ==
    /\ Interpreting /\ Refused
    /\ output' = Append(output, "error") /\ ResetStack
    /\ IF Len(acts) = 1 THEN status' = "idle" /\ acts' = <<>>
                        ELSE Answer(Nil) /\ UNCHANGED status
    /\ strayed' = (strayed \/ Len(acts) > 1)
    /\ UNCHANGED <<session, taken, stack, frames, upvalues, heap, globals>>

Next ==
    \/ Interpret \/ Constant \/ Pop \/ GetLocal \/ SetLocal
    \/ GetGlobal \/ DefineGlobal \/ SetGlobal \/ GetUpvalue \/ SetUpvalue
    \/ PrintTop \/ Equal \/ Compare \/ Add \/ Arithmetic \/ Not \/ Negate
    \/ JumpAhead \/ Loop \/ LoopIncr
    \/ MakeClosure \/ CloseUpvalue \/ Call \/ CallNative \/ Return
    \/ BuildArray \/ GetIndex \/ SetIndex \/ ArrayCopy \/ ArrayFill
    \/ RuntimeError
=============================================================================
