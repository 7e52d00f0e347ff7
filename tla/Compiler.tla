------------------------------ MODULE Compiler ------------------------------
(***************************************************************************)
(* compiler.cpp: one pass from source to instructions.  Scopes and local   *)
(* slots, upvalues, jumps that are patched later, and the two shapes of    *)
(* for loops that are compiled in a special way.                           *)
(*                                                                         *)
(* A program is a syntax tree here, a tuple whose first element names the  *)
(* construct.  Expressions:                                                *)
(*   lit v, name x, set x e, compound x op e, bin op l r, and l r, or l r, *)
(*   not e, neg e, call f args, array es, index a i, setindex a i e        *)
(* Statements:                                                             *)
(*   var x e, fun x params body, void x params body (a function declared   *)
(*   void), expr e, tail e (no semicolon, the last of a function),         *)
(*   print e, block ds, if c t e, while c b, for init cond incr b,         *)
(*   return, return e                                                      *)
(* Jumps count instructions, not bytes.  Declared types but void only turn *)
(* programs away and are left out, as are structs, pointers, dispatch and  *)
(* a[i][j], whose receiver is a pointer.  Compilation stops at the first   *)
(* error: a program with one is not run, whatever follows it.              *)
(***************************************************************************)
EXTENDS Bytecode, SequencesExt

\* A compiler per function being compiled, the innermost last; bad says that
\* an error was reported.
Current(s) == Last(s.fns)
Chunk(s) == Current(s).code
Emitted(s) == Len(Chunk(s))

Emit(s, ins) == [s EXCEPT !.fns[Len(s.fns)].code = Append(@, ins)]
EmitAll(s, code) == [s EXCEPT !.fns[Len(s.fns)].code = @ \o code]
EmitReturn(s) == EmitAll(s, <<<<"CONSTANT", Nil>>, <<"RETURN">>>>)

\* A jump whose distance is still missing; it is known by the count after it.
EmitJump(s, op) == Emit(s, <<op, 0>>)
PatchJump(s, at) == [s EXCEPT !.fns[Len(s.fns)].code[at][2] = Emitted(s) - at]
EmitLoop(s, loopStart) == Emit(s, <<"LOOP", Emitted(s) + 1 - loopStart>>)

\* A compiler for a function called x, of type "script", "fun", or "void" if it
\* is declared void; slot 0 is the callee's.
InitCompiler(s, type, x) ==
    [s EXCEPT !.fns = Append(@,
        [type |-> type, name |-> x, arity |-> 0, depth |-> 0, code |-> <<>>,
         locals |-> <<[name |-> "", depth |-> 0, captured |-> FALSE]>>, upvalues |-> <<>>])]

\* The finished function; its compiler is dropped by the caller.
EndCompiler(s) ==
    LET f == Current(EmitReturn(s))
    IN  [name |-> f.name, arity |-> f.arity, upvalues |-> f.upvalues, code |-> f.code]

-----------------------------------------------------------------------------
(* Scopes and variables *)

BeginScope(s) == [s EXCEPT !.fns[Len(s.fns)].depth = @ + 1]

\* Pops the locals that are deeper than the scope that is left.
RECURSIVE PopLocals(_)
PopLocals(s) ==
    LET local == Last(Current(s).locals)
        Popped == Emit(s, IF local.captured THEN <<"CLOSE_UPVALUE">> ELSE <<"POP">>)
    IN  IF local.depth > Current(s).depth
        THEN PopLocals([Popped EXCEPT !.fns[Len(s.fns)].locals = Front(@)])
        ELSE s
EndScope(s) == PopLocals([s EXCEPT !.fns[Len(s.fns)].depth = @ - 1])

\* The slot of the innermost local named x, or -1.
ResolveLocal(f, x) ==
    LET Named == {i \in DOMAIN f.locals : f.locals[i].name = x}
    IN  IF Named = {} THEN -1 ELSE Max(Named) - 1

\* The index of an upvalue of the function at level n, added if it is new.
AddUpvalue(s, n, upvalue) ==
    LET known == SelectInSeq(s.fns[n].upvalues, LAMBDA u : u = upvalue)
    IN  IF known # 0
        THEN [s |-> s, index |-> known - 1]
        ELSE [s |-> [s EXCEPT !.fns[n].upvalues = Append(@, upvalue)],
              index |-> Len(s.fns[n].upvalues)]

\* Captures x from an enclosing function, through every function in between.
RECURSIVE ResolveUpvalue(_, _, _)
ResolveUpvalue(s, n, x) ==
    IF n = 1 THEN [s |-> s, index |-> -1]
    ELSE LET local == ResolveLocal(s.fns[n - 1], x)
             outer == ResolveUpvalue(s, n - 1, x)
         IN  CASE local # -1 ->
                    AddUpvalue([s EXCEPT !.fns[n - 1].locals[local + 1].captured = TRUE,
                                         !.bad = @ \/ s.fns[n - 1].locals[local + 1].depth = -1],
                               n, [isLocal |-> TRUE, index |-> local])
               [] local = -1 /\ outer.index # -1 ->
                    AddUpvalue(outer.s, n, [isLocal |-> FALSE, index |-> outer.index])
               [] OTHER -> outer

\* Where a name lives: a local slot, an upvalue, or else a global.
Resolve(s, x) ==
    LET local == ResolveLocal(Current(s), x)
        outer == ResolveUpvalue(s, Len(s.fns), x)
    IN  CASE local # -1 ->
               [s |-> [s EXCEPT !.bad = @ \/ Current(s).locals[local + 1].depth = -1],
                where |-> "local", arg |-> local]
          [] local = -1 /\ outer.index # -1 ->
               [s |-> outer.s, where |-> "upvalue", arg |-> outer.index]
          [] OTHER -> [s |-> s, where |-> "global", arg |-> x]

GetOp == [local |-> "GET_LOCAL", upvalue |-> "GET_UPVALUE", global |-> "GET_GLOBAL"]
SetOp == [local |-> "SET_LOCAL", upvalue |-> "SET_UPVALUE", global |-> "SET_GLOBAL"]
Get(s, x) == LET r == Resolve(s, x) IN Emit(r.s, <<GetOp[r.where], r.arg>>)

AddLocal(s, x) ==
    [s EXCEPT !.fns[Len(s.fns)].locals =
        Append(@, [name |-> x, depth |-> -1, captured |-> FALSE])]

\* A local variable; a second one of its name in the scope is an error.
DeclareVariable(s, x) ==
    LET f == Current(s)
        Taken == \E i \in DOMAIN f.locals :
                    f.locals[i].name = x /\ f.locals[i].depth \in {-1, f.depth}
    IN  IF f.depth = 0 THEN s ELSE AddLocal([s EXCEPT !.bad = @ \/ Taken], x)

MarkInitialized(s) ==
    IF Current(s).depth = 0 THEN s
    ELSE [s EXCEPT !.fns[Len(s.fns)].locals[Len(Current(s).locals)].depth = Current(s).depth]

DefineVariable(s, x) ==
    IF Current(s).depth > 0 THEN MarkInitialized(s) ELSE Emit(s, <<"DEFINE_GLOBAL", x>>)

-----------------------------------------------------------------------------
(* Expressions *)

BinaryCode(op) ==
    CASE op = "==" -> <<<<"EQUAL">>>>
      [] op = "!=" -> <<<<"EQUAL">>, <<"NOT">>>>
      [] op = "<"  -> <<<<"LESS">>>>
      [] op = ">"  -> <<<<"GREATER">>>>
      [] op = "<=" -> <<<<"GREATER">>, <<"NOT">>>>
      [] op = ">=" -> <<<<"LESS">>, <<"NOT">>>>
      [] op = "+"  -> <<<<"ADD">>>>
      [] op = "-"  -> <<<<"SUBTRACT">>>>
      [] op = "*"  -> <<<<"MULTIPLY">>>>

\* After an error nothing more is compiled: the result is not used.
RECURSIVE Expression(_, _), Expressions(_, _)
Expressions(s, es) ==
    IF s.bad \/ es = <<>> THEN s ELSE Expressions(Expression(s, Head(es)), Tail(es))

And(s, l, r) ==
    LET test == EmitJump(Expression(s, l), "JUMP_IF_FALSE")
        right == Expression(Emit(test, <<"POP">>), r)
    IN  PatchJump(right, Emitted(test))

Or(s, l, r) ==
    LET test == EmitJump(Expression(s, l), "JUMP_IF_FALSE")
        skip == EmitJump(test, "JUMP")
        right == Expression(Emit(PatchJump(skip, Emitted(test)), <<"POP">>), r)
    IN  PatchJump(right, Emitted(skip))

Expression(s, e) ==
    IF s.bad THEN s ELSE
    CASE e[1] = "lit" -> Emit(s, <<"CONSTANT", e[2]>>)
      [] e[1] = "name" -> Get(s, e[2])
      [] e[1] = "set" ->
            LET r == Resolve(s, e[2])
            IN  Emit(Expression(r.s, e[3]), <<SetOp[r.where], r.arg>>)
      [] e[1] = "compound" ->
            LET r == Resolve(s, e[2])
                operands == Expression(Emit(r.s, <<GetOp[r.where], r.arg>>), e[4])
            IN  Emit(EmitAll(operands, BinaryCode(e[3])), <<SetOp[r.where], r.arg>>)
      [] e[1] = "bin" -> EmitAll(Expressions(s, <<e[3], e[4]>>), BinaryCode(e[2]))
      [] e[1] = "and" -> And(s, e[2], e[3])
      [] e[1] = "or" -> Or(s, e[2], e[3])
      [] e[1] = "not" -> Emit(Expression(s, e[2]), <<"NOT">>)
      [] e[1] = "neg" -> Emit(Expression(s, e[2]), <<"NEGATE">>)
      [] e[1] = "call" -> Emit(Expressions(s, <<e[2]>> \o e[3]), <<"CALL", Len(e[3])>>)
      [] e[1] = "array" -> Emit(Expressions(s, e[2]), <<"BUILD_ARRAY", Len(e[2])>>)
      [] e[1] = "index" -> Emit(Expressions(s, <<e[2], e[3]>>), <<"GET_INDEX">>)
      [] e[1] = "setindex" -> Emit(Expressions(s, <<e[2], e[3], e[4]>>), <<"SET_INDEX">>)

-----------------------------------------------------------------------------
(* Loops that are recognised by their tokens *)

\* How tightly an expression binds: or, and, equality, comparison, the rest.
Binding(e) ==
    CASE e[1] = "or" -> 1
      [] e[1] = "and" -> 2
      [] e[1] = "bin" /\ e[2] \in {"==", "!="} -> 3
      [] e[1] = "bin" /\ e[2] \in {"<", ">", "<=", ">="} -> 4
      [] OTHER -> 5

\* The place of the left operand, and whether it is written without brackets.
LeftAt(e) == Len(e) - 1
OpenToTheLeft(e) ==
    /\ Binding(e) < 5
    /\ \/ Binding(e[LeftAt(e)]) > Binding(e)
       \/ e[1] = "bin" /\ Binding(e[LeftAt(e)]) = Binding(e)

\* What stands after the tokens i and op that a condition begins with, read as
\* one expression: n of i < n, but also n and x of i < n and x.
RECURSIVE Limits(_, _, _)
Limits(cond, i, op) ==
    IF cond[1] = "bin" /\ cond[2] = op /\ cond[3] = <<"name", i>> THEN {cond[4]}
    ELSE IF OpenToTheLeft(cond)
         THEN {[cond EXCEPT ![LeftAt(cond)] = l] : l \in Limits(cond[LeftAt(cond)], i, op)}
         ELSE {}

\* The literal of the step is accepted if its first digit is 1.
StartsWithOne(e) ==
    /\ e[1] = "lit" /\ e[2][1] = "num"
    /\ \E k \in 0 .. 8 : e[2][2] \div 10 ^ k = 1

\* The step is i = i + 1 or i = 1 + i, or what looks like it.
CountsUp(i, incr) ==
    /\ incr[1] = "set" /\ incr[2] = i
    /\ incr[3][1] = "bin" /\ incr[3][2] = "+"
    /\ \E at \in {3, 4} : incr[3][at] = <<"name", i>> /\ StartsWithOne(incr[3][7 - at])

\* The limits of for (T i = start; i op limit; i = i + 1): one or none.
Counted(init, cond, incr, op) ==
    {limit \in IF init[1] = "var" THEN Limits(cond, init[2], op) ELSE {} : CountsUp(init[2], incr)}

\* The body without its braces.
Bare(body) == IF body[1] = "block" /\ Len(body[2]) = 1 THEN body[2][1] ELSE body

\* The body is dest[i] = ...;
StoresAt(i, body) ==
    /\ Bare(body)[1] = "expr" /\ Bare(body)[2][1] = "setindex"
    /\ Bare(body)[2][2][1] = "name" /\ Bare(body)[2][3] = <<"name", i>>

Copies(i, body) ==
    LET source == Bare(body)[2][4]
    IN  /\ StoresAt(i, body)
        /\ source[1] = "index" /\ source[2][1] = "name" /\ source[3] = <<"name", i>>

\* Whether the name i occurs among the tokens of an expression.
RECURSIVE Mentions(_, _)
Mentions(e, i) ==
    CASE e[1] = "lit" -> FALSE
      [] e[1] = "name" -> e[2] = i
      [] e[1] = "set" -> e[2] = i \/ Mentions(e[3], i)
      [] e[1] = "compound" -> e[2] = i \/ Mentions(e[4], i)
      [] e[1] = "bin" -> Mentions(e[3], i) \/ Mentions(e[4], i)
      [] e[1] \in {"not", "neg"} -> Mentions(e[2], i)
      [] e[1] \in {"and", "or", "index"} -> Mentions(e[2], i) \/ Mentions(e[3], i)
      [] e[1] = "call" -> Mentions(e[2], i) \/ \E n \in DOMAIN e[3] : Mentions(e[3][n], i)
      [] e[1] = "array" -> \E n \in DOMAIN e[2] : Mentions(e[2][n], i)
      [] e[1] = "setindex" -> \E n \in 2 .. 4 : Mentions(e[n], i)

Fills(i, body) == StoresAt(i, body) /\ ~Mentions(Bare(body)[2][4], i)

\* tryOptimizeForLoop compiles start and limit before it knows the loop, with i
\* not yet declared, and takes back their code.
Speculated(s, init, cond) ==
    IF init[1] # "var" THEN s
    ELSE LET n == Len(s.fns)
             tried == Expressions(s, <<init[3]>> \o SetToSeq(Limits(cond, init[2], "<")))
         IN  [tried EXCEPT !.fns[n].code = s.fns[n].code]

\* If the loop is none of its own, it takes back the function's own upvalues too;
\* what they captured stays captured in the functions around it.  (What
\* tryOptimizeCountedForLoop compiles and takes back, with i declared, captures
\* what the general loop captures again.)
RolledBack(s, tried) ==
    [tried EXCEPT !.fns[Len(s.fns)].upvalues = s.fns[Len(s.fns)].upvalues]

\* Its loops: the bounds are compiled once more, after the operands.
ArrayLoop(s, init, limit, body) ==
    LET store == Bare(body)[2]
        dest == Get(s, store[2][2])
    IN  IF Copies(init[2], body)
        THEN Emit(Expressions(Get(dest, store[4][2][2]), <<init[3], limit>>),
                  <<"SIMD_ARRAY_COPY">>)
        ELSE Emit(Expressions(dest, <<store[4], init[3], limit>>), <<"SIMD_ARRAY_FILL">>)

-----------------------------------------------------------------------------
(* Statements *)

RECURSIVE Statement(_, _), Declaration(_, _), Declarations(_, _)
Declarations(s, ds) ==
    IF s.bad \/ ds = <<>> THEN s ELSE Declarations(Declaration(s, Head(ds)), Tail(ds))
Block(s, ds) == EndScope(Declarations(BeginScope(s), ds))

\* tryOptimizeCountedForLoop: the limit is a hidden local, the end of the body
\* one instruction that counts, compares and jumps.
CountedLoop(s, init, op, limit, body) ==
    LET Local(t, x) == MarkInitialized(AddLocal(t, x))
        start == Local(Expression(BeginScope(s), init[3]), init[2])
        bounds == Local(Expression(start, limit), "$limit")
        iterSlot == Len(Current(start).locals) - 1
        limitSlot == Len(Current(bounds).locals) - 1
        test == EmitJump(EmitAll(bounds, <<<<"GET_LOCAL", iterSlot>>, <<"GET_LOCAL", limitSlot>>>>
                                         \o BinaryCode(op)), "JUMP_IF_FALSE")
        enter == Emit(test, <<"POP">>)
        done == Statement(enter, body)
        again == Emit(done, <<IF op = "<=" THEN "LOOP_INCR_LEQ" ELSE "LOOP_INCR_LESS",
                              iterSlot, limitSlot, Emitted(done) + 1 - Emitted(enter)>>)
        leave == EmitJump(again, "JUMP")
        exit == Emit(PatchJump(leave, Emitted(test)), <<"POP">>)
    IN  EndScope(PatchJump(exit, Emitted(leave)))

\* Any other for: the increment stands before the body and is jumped over.
GeneralLoop(s, init, cond, incr, body) ==
    LET start == Declaration(BeginScope(s), init)
        test == EmitJump(Expression(start, cond), "JUMP_IF_FALSE")
        over == EmitJump(Emit(test, <<"POP">>), "JUMP")
        step == EmitLoop(Emit(Expression(over, incr), <<"POP">>), Emitted(start))
        again == EmitLoop(Statement(PatchJump(step, Emitted(over)), body), Emitted(over))
    IN  EndScope(Emit(PatchJump(again, Emitted(test)), <<"POP">>))

ForStatement(s, init, cond, incr, body) ==
    LET less == Counted(init, cond, incr, "<")
        leq == Counted(init, cond, incr, "<=")
        tried == Speculated(s, init, cond)
        back == RolledBack(s, tried)
    IN  CASE less # {} /\ (Copies(init[2], body) \/ Fills(init[2], body)) ->
               ArrayLoop(tried, init, CHOOSE limit \in less : TRUE, body)
          [] less # {} /\ ~(Copies(init[2], body) \/ Fills(init[2], body)) ->
               CountedLoop(back, init, "<", CHOOSE limit \in less : TRUE, body)
          [] leq # {} -> CountedLoop(back, init, "<=", CHOOSE limit \in leq : TRUE, body)
          [] OTHER -> GeneralLoop(back, init, cond, incr, body)

IfStatement(s, cond, then, else) ==
    LET test == EmitJump(Expression(s, cond), "JUMP_IF_FALSE")
        skip == EmitJump(Statement(Emit(test, <<"POP">>), then), "JUMP")
        other == Emit(PatchJump(skip, Emitted(test)), <<"POP">>)
    IN  PatchJump(Statement(other, else), Emitted(skip))

WhileStatement(s, cond, body) ==
    LET test == EmitJump(Expression(s, cond), "JUMP_IF_FALSE")
        again == EmitLoop(Statement(Emit(test, <<"POP">>), body), Emitted(s))
    IN  Emit(PatchJump(again, Emitted(test)), <<"POP">>)

\* return e: one OP_CLOSE_UPVALUE for each captured local, while the result is
\* on top of the stack.
ReturnValue(s, e) ==
    LET result == Expression(s, e)
        captured == SelectSeq(Current(result).locals, LAMBDA l : l.depth > 0 /\ l.captured)
    IN  Emit(EmitAll(result, [i \in DOMAIN captured |-> <<"CLOSE_UPVALUE">>]), <<"RETURN">>)

\* Outside a function there is nothing to return from, and a void function
\* returns no value.
ReturnStatement(s, st) ==
    LET Refused == Current(s).type \in (IF Len(st) = 1 THEN {"script"} ELSE {"script", "void"})
        t == [s EXCEPT !.bad = @ \/ Refused]
    IN  IF Len(st) = 1 THEN EmitReturn(t) ELSE ReturnValue(t, st[2])

\* The last expression of a function, without a semicolon.
TailStatement(s, e) ==
    LET result == Expression(s, e)
    IN  IF Current(s).type = "void" THEN EmitReturn(Emit(result, <<"POP">>))
        ELSE Emit(result, <<"RETURN">>)

Statement(s, st) ==
    IF s.bad THEN s ELSE
    CASE st[1] = "expr" -> Emit(Expression(s, st[2]), <<"POP">>)
      [] st[1] = "tail" -> TailStatement(s, st[2])
      [] st[1] = "print" -> Emit(Expression(s, st[2]), <<"PRINT">>)
      [] st[1] = "block" -> Block(s, st[2])
      [] st[1] = "if" -> IfStatement(s, st[2], st[3], st[4])
      [] st[1] = "while" -> WhileStatement(s, st[2], st[3])
      [] st[1] = "for" -> ForStatement(s, st[2], st[3], st[4], st[5])
      [] st[1] = "return" -> ReturnStatement(s, st)

\* A function: its parameters and body in a compiler of its own, and the
\* instruction that makes the closure in the enclosing one.
Function(s, type, x, params, body) ==
    LET Parameter(t, p) == MarkInitialized(DeclareVariable(t, p))
        begun == BeginScope(InitCompiler(s, type, x))
        entered == [FoldLeft(Parameter, begun, params) EXCEPT
                        !.fns[Len(begun.fns)].arity = Len(params)]
        done == Declarations(entered, body)
    IN  Emit([done EXCEPT !.fns = Front(@)], <<"CLOSURE", EndCompiler(done)>>)

Declaration(s, d) ==
    IF s.bad THEN s ELSE
    CASE d[1] = "var" -> DefineVariable(Expression(DeclareVariable(s, d[2]), d[3]), d[2])
      [] d[1] \in {"fun", "void"} ->
            LET named == MarkInitialized(DeclareVariable(s, d[2]))
            IN  DefineVariable(Function(named, d[1], d[2], d[3], d[4]), d[2])
      [] OTHER -> Statement(s, d)

\* The script's function, and whether an error was reported.
Compile(program) ==
    LET done == Declarations(InitCompiler([fns |-> <<>>, bad |-> FALSE], "script", "script"),
                             program)
    IN  [fn |-> EndCompiler(done), bad |-> done.bad]
=============================================================================
