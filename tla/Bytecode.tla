------------------------------ MODULE Bytecode ------------------------------
(***************************************************************************)
(* Values, and the discipline of the code that compiler.cpp makes, which   *)
(* vm.cpp and jit.cpp take for granted: nothing at run time tests that an  *)
(* instruction finds its operands, that a slot or an upvalue it names is   *)
(* there, or that a captured local is closed before its slot is given up.  *)
(*                                                                         *)
(* A plan gives, for each function, the instructions that can be reached,  *)
(* with the height of the stack there, slot 0 of the function included,    *)
(* and the slots that a closure may have captured.  Instructions have the  *)
(* form <<op, operand, ...>>.                                              *)
(***************************************************************************)
EXTENDS Integers, Sequences

Nil == <<"nil">>
Num(n) == <<"num", n>>

\* The natives of the model, by the names that the globals give them.
NativeNames == {"len", "array", "push"}

-----------------------------------------------------------------------------
(* What an instruction does to the stack, and what it goes on to *)

Takes(ins) ==
    CASE ins[1] \in {"POP", "DEFINE_GLOBAL", "PRINT", "NOT", "NEGATE", "CLOSE_UPVALUE", "RETURN",
                     "SET_LOCAL", "SET_UPVALUE", "SET_GLOBAL", "JUMP_IF_FALSE"} -> 1
      [] ins[1] \in {"EQUAL", "LESS", "GREATER", "ADD", "SUBTRACT", "MULTIPLY", "GET_INDEX"} -> 2
      [] ins[1] = "SET_INDEX" -> 3
      [] ins[1] \in {"SIMD_ARRAY_COPY", "SIMD_ARRAY_FILL"} -> 4
      [] ins[1] = "CALL" -> ins[2] + 1
      [] ins[1] = "BUILD_ARRAY" -> ins[2]
      [] OTHER -> 0

Leaves(ins) ==
    IF ins[1] \in {"POP", "DEFINE_GLOBAL", "PRINT", "CLOSE_UPVALUE", "RETURN", "SIMD_ARRAY_COPY",
                   "SIMD_ARRAY_FILL", "JUMP", "LOOP", "LOOP_INCR_LESS", "LOOP_INCR_LEQ"} THEN 0 ELSE 1

Nexts(n, ins) ==
    CASE ins[1] = "RETURN" -> {}
      [] ins[1] = "JUMP" -> {n + 1 + ins[2]}
      [] ins[1] = "JUMP_IF_FALSE" -> {n + 1, n + 1 + ins[2]}
      [] ins[1] = "LOOP" -> {n + 1 - ins[2]}
      [] ins[1] \in {"LOOP_INCR_LESS", "LOOP_INCR_LEQ"} -> {n + 1, n + 1 - ins[4]}
      [] OTHER -> {n + 1}

\* The slots captured after an instruction at a height, if these were before.
LocalsOf(fn) == {fn.upvalues[k].index : k \in {j \in 1 .. Len(fn.upvalues) : fn.upvalues[j].isLocal}}
CapturedAfter(ins, height, captured) ==
    CASE ins[1] = "CLOSURE" -> captured \cup LocalsOf(ins[2])
      [] ins[1] = "CLOSE_UPVALUE" -> captured \ {height - 1}
      [] OTHER -> captured

-----------------------------------------------------------------------------
(* The discipline *)

\* Operands name what is there.  A function captured by its own closure has
\* the slot that the closure is about to take.
OperandsFit(fn, ins, height, plans) ==
    /\ ins[1] = "CONSTANT" => ins[2][1] \notin {"obj", "native"}
    /\ ins[1] = "GET_LOCAL" => ins[2] \in 0 .. height - 1
    /\ ins[1] = "SET_LOCAL" => ins[2] \in 1 .. height - 1
    /\ ins[1] \in {"LOOP_INCR_LESS", "LOOP_INCR_LEQ"} =>
          {ins[2], ins[3]} \subseteq 1 .. height - 1 /\ ins[4] \in Int
    /\ ins[1] \in {"GET_UPVALUE", "SET_UPVALUE"} => ins[2] \in 0 .. Len(fn.upvalues) - 1
    /\ ins[1] \in {"CALL", "BUILD_ARRAY"} => ins[2] \in Nat
    /\ ins[1] \in {"JUMP", "JUMP_IF_FALSE", "LOOP"} => ins[2] \in Int
    /\ ins[1] = "CLOSURE" =>
          /\ ins[2] \in DOMAIN plans
          /\ \A k \in 1 .. Len(ins[2].upvalues) :
                LET upvalue == ins[2].upvalues[k]
                IN  upvalue.index \in (IF upvalue.isLocal THEN 0 .. height ELSE 0 .. Len(fn.upvalues) - 1)

\* Each instruction finds its operands above slot 0 and leaves the height and
\* the captures that the plan says of what comes next.
KeepsPlan(fn, n, plans) ==
    LET plan == plans[fn]
        ins == fn.code[n]
        here == plan[n]
    IN  /\ n \in Nat /\ here.height \in Nat /\ here.captured \subseteq 0 .. here.height - 1
        /\ OperandsFit(fn, ins, here.height, plans)
        /\ Takes(ins) < here.height
        /\ \A m \in Nexts(n, ins) :
              /\ m \in DOMAIN plan
              /\ plan[m].height = here.height - Takes(ins) + Leaves(ins)
              /\ CapturedAfter(ins, here.height, here.captured) \subseteq plan[m].captured
              /\ ins[1] = "CALL" => plan[m].height - 1 \notin plan[m].captured

\* A function starts with its callee and parameters on the stack.
Planned(fn, plans) ==
    /\ fn.arity \in Nat /\ Len(fn.upvalues) \in Nat
    /\ 1 \in DOMAIN plans[fn] /\ plans[fn][1].height = fn.arity + 1
    /\ \A n \in DOMAIN plans[fn] : KeepsPlan(fn, n, plans)
=============================================================================
