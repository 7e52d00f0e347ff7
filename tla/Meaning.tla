------------------------------ MODULE Meaning ------------------------------
(***************************************************************************)
(* What a program means: the reference that the answers of Compiler and    *)
(* StackVM are compared with.  It runs on the syntax tree: names are bound *)
(* to locations of a store, a function keeps the bindings it was written   *)
(* under, and a for loop is the while loop it stands for, as SYNTAX.md     *)
(* shows them.  Nothing of stacks, slots, captures or counts is here.      *)
(***************************************************************************)
EXTENDS Integers, Sequences, SequencesExt, TLC

\* The world: store (of locals), globals, arrays, what was printed, how many
\* calls are under way and may be, and whether an error stopped the program.
NewWorld(calls) ==
    [store |-> <<>>, globals |-> [x \in {"len", "array", "push"} |-> <<"native", x>>],
     arrays |-> <<>>, out |-> <<>>, depth |-> 1, calls |-> calls, err |-> FALSE]

LOCAL Num(n) == <<"num", n>>
LOCAL Nil == <<"nil">>
LOCAL False(v) == v = Nil \/ v = <<"bool", FALSE>>
LOCAL IsNum(v) == v[1] = "num"

\* An outcome: the world after, and a value.
Gives(w, v) == [w |-> w, v |-> v]
Stops(w) == Gives([w EXCEPT !.err = TRUE], Nil)
If(ok, r, w) == IF ok THEN r ELSE Stops(w)

Binary(w, op, a, b) ==
    CASE op = "==" -> Gives(w, <<"bool", a = b>>)
      [] op = "!=" -> Gives(w, <<"bool", a # b>>)
      [] op = "+" /\ a[1] = "str" /\ b[1] = "str" -> Gives(w, <<"str", a[2] \o b[2]>>)
      [] op \notin {"==", "!="} /\ ~(op = "+" /\ a[1] = "str" /\ b[1] = "str")
            /\ ~(IsNum(a) /\ IsNum(b)) -> Stops(w)
      [] op = "+" /\ IsNum(a) /\ IsNum(b) -> Gives(w, Num(a[2] + b[2]))
      [] op = "-" /\ IsNum(a) /\ IsNum(b) -> Gives(w, Num(a[2] - b[2]))
      [] op = "*" /\ IsNum(a) /\ IsNum(b) -> Gives(w, Num(a[2] * b[2]))
      [] op = "<" /\ IsNum(a) /\ IsNum(b) -> Gives(w, <<"bool", a[2] < b[2]>>)
      [] op = "<=" /\ IsNum(a) /\ IsNum(b) -> Gives(w, <<"bool", a[2] <= b[2]>>)
      [] op = ">" /\ IsNum(a) /\ IsNum(b) -> Gives(w, <<"bool", a[2] > b[2]>>)
      [] op = ">=" /\ IsNum(a) /\ IsNum(b) -> Gives(w, <<"bool", a[2] >= b[2]>>)

\* Bindings of names to locations; at the outermost level variables are global.
Lookup(w, env, x) ==
    CASE x \in DOMAIN env.at -> Gives(w, w.store[env.at[x]])
      [] x \notin DOMAIN env.at /\ x \in DOMAIN w.globals -> Gives(w, w.globals[x])
      [] OTHER -> Stops(w)

Assign(w, env, x, v) ==
    CASE x \in DOMAIN env.at -> Gives([w EXCEPT !.store[env.at[x]] = v], v)
      [] x \notin DOMAIN env.at /\ x \in DOMAIN w.globals ->
            Gives([w EXCEPT !.globals[x] = v], v)
      [] OTHER -> Stops(w)

NewLocal(w, v) == [w EXCEPT !.store = Append(@, v)]
Bind(env, x, at) == [env EXCEPT !.at = (x :> at) @@ @]
Inner(env) == [env EXCEPT !.outermost = FALSE]

IsArr(v) == v[1] = "arr"
InRange(w, a, i) == IsArr(a) /\ IsNum(i) /\ i[2] \in 0 .. Len(w.arrays[a[2]]) - 1
Fresh(w, items) == Gives([w EXCEPT !.arrays = Append(@, items)], <<"arr", Len(w.arrays) + 1>>)

Builtin(w, name, args) ==
    CASE name = "len" ->
            Gives(w, CASE Len(args) = 1 /\ IsArr(args[1]) -> Num(Len(w.arrays[args[1][2]]))
                       [] Len(args) = 1 /\ args[1][1] = "str" -> Num(Len(args[1][2]))
                       [] OTHER -> Num(0))
      [] name = "array" /\ Len(args) = 2 -> Fresh(w, [i \in 1 .. args[1][2] |-> args[2]])
      [] name = "push" /\ Len(args) = 2 ->
            Gives([w EXCEPT !.arrays[args[1][2]] = Append(@, args[2])], Nil)

-----------------------------------------------------------------------------
(* Expressions *)

RECURSIVE Value(_, _, _), Apply(_, _, _)

\* The values of expressions from left to right, until one stops.
Values(w, env, es) ==
    FoldLeft(LAMBDA r, e : IF r.w.err THEN r
                           ELSE LET next == Value(r.w, env, e)
                                IN  Gives(next.w, Append(r.v, next.v)),
             Gives(w, <<>>), es)

Value(w, env, e) ==
    CASE e[1] = "lit" -> Gives(w, e[2])
      [] e[1] = "name" -> Lookup(w, env, e[2])
      [] e[1] = "set" ->
            LET r == Value(w, env, e[3]) IN If(~r.w.err, Assign(r.w, env, e[2], r.v), r.w)
      [] e[1] = "compound" -> Value(w, env, <<"set", e[2], <<"bin", e[3], <<"name", e[2]>>, e[4]>>>>)
      [] e[1] = "bin" ->
            LET r == Values(w, env, <<e[3], e[4]>>)
            IN  If(~r.w.err, Binary(r.w, e[2], r.v[1], r.v[2]), r.w)
      [] e[1] = "and" ->
            LET r == Value(w, env, e[2]) IN IF r.w.err \/ False(r.v) THEN r ELSE Value(r.w, env, e[3])
      [] e[1] = "or" ->
            LET r == Value(w, env, e[2]) IN IF r.w.err \/ ~False(r.v) THEN r ELSE Value(r.w, env, e[3])
      [] e[1] = "not" ->
            LET r == Value(w, env, e[2]) IN Gives(r.w, <<"bool", False(r.v)>>)
      [] e[1] = "neg" ->
            LET r == Value(w, env, e[2]) IN If(~r.w.err /\ IsNum(r.v), Gives(r.w, Num(-r.v[2])), r.w)
      [] e[1] = "call" ->
            LET r == Values(w, env, <<e[2]>> \o e[3])
            IN  If(~r.w.err, Apply(r.w, Head(r.v), Tail(r.v)), r.w)
      [] e[1] = "array" ->
            LET r == Values(w, env, e[2]) IN If(~r.w.err, Fresh(r.w, r.v), r.w)
      [] e[1] = "index" ->
            LET r == Values(w, env, <<e[2], e[3]>>)
            IN  If(~r.w.err /\ InRange(r.w, r.v[1], r.v[2]),
                   Gives(r.w, r.w.arrays[r.v[1][2]][r.v[2][2] + 1]), r.w)
      [] e[1] = "setindex" ->
            LET r == Values(w, env, <<e[2], e[3], e[4]>>)
            IN  If(~r.w.err /\ InRange(r.w, r.v[1], r.v[2]),
                   Gives([r.w EXCEPT !.arrays[r.v[1][2]][r.v[2][2] + 1] = r.v[3]], r.v[3]), r.w)

-----------------------------------------------------------------------------
(* Statements *)

\* What a statement leaves: bindings that the next ones see, and the value
\* that was returned, if one was.
Leaves(w, env) == [w |-> w, env |-> env, ret |-> <<>>]
Stopped(r) == r.w.err \/ r.ret # <<>>

RECURSIVE Run(_, _, _)
RunAll(w, env, ds) ==
    FoldLeft(LAMBDA r, d : IF Stopped(r) THEN r ELSE Run(r.w, r.env, d), Leaves(w, env), ds)

\* The statement's own bindings end with it.
Within(env, r) == [r EXCEPT !.env = env]

Define(w, env, x, v) ==
    IF env.outermost THEN Leaves([w EXCEPT !.globals = (x :> v) @@ @], env)
    ELSE Leaves(NewLocal(w, v), Bind(env, x, Len(w.store) + 1))

Run(w, env, d) ==
    CASE d[1] \in {"expr", "print", "var", "return", "tail"} /\ Len(d) > 1 ->
            LET r == Value(w, env, d[Len(d)])
            IN (CASE r.w.err -> Leaves(r.w, env)
                  [] ~r.w.err /\ d[1] = "expr" -> Leaves(r.w, env)
                  [] ~r.w.err /\ d[1] = "print" -> Leaves([r.w EXCEPT !.out = Append(@, r.v)], env)
                  [] ~r.w.err /\ d[1] = "var" -> Define(r.w, env, d[2], r.v)
                  [] ~r.w.err /\ d[1] \in {"return", "tail"} ->
                        [Leaves(r.w, env) EXCEPT !.ret = <<r.v>>])
      [] d[1] = "return" /\ Len(d) = 1 -> [Leaves(w, env) EXCEPT !.ret = <<Nil>>]
      [] d[1] \in {"fun", "void"} ->
            \* a local function sees its own name
            LET inside == IF env.outermost THEN Inner(env) ELSE Bind(env, d[2], Len(w.store) + 1)
            IN  Define(w, env, d[2], <<d[1], d[3], d[4], inside>>)
      [] d[1] = "block" -> Within(env, RunAll(w, Inner(env), d[2]))
      [] d[1] = "if" ->
            LET r == Value(w, env, d[2])
            IN  IF r.w.err THEN Leaves(r.w, env)
                ELSE Within(env, Run(r.w, env, IF False(r.v) THEN d[4] ELSE d[3]))
      [] d[1] = "while" ->
            LET r == Value(w, env, d[2])
                body == Within(env, Run(r.w, env, d[3]))
            IN  IF r.w.err \/ False(r.v) THEN Leaves(r.w, env)
                ELSE IF Stopped(body) THEN body ELSE Run(body.w, env, d)
      [] d[1] = "for" ->
            Run(w, env, <<"block", <<d[2], <<"while", d[3],
                                      <<"block", <<d[5], <<"expr", d[4]>>>>>>>>>>>>)

\* A call: the arguments are new locals over the bindings of the function.
Apply(w, f, args) ==
    LET at == Len(w.store)
        entered == [w EXCEPT !.store = @ \o args, !.depth = @ + 1]
        bound == [f[4] EXCEPT !.at = [i \in {f[2][n] : n \in DOMAIN f[2]} |->
                                         at + CHOOSE n \in DOMAIN f[2] : f[2][n] = i] @@ @]
        done == RunAll(entered, bound, f[3])
    IN  CASE f[1] = "native" -> Builtin(w, f[2], args)
          [] f[1] \in {"fun", "void"} ->
                If(Len(args) = Len(f[2]) /\ w.depth < w.calls /\ ~done.w.err,
                   Gives([done.w EXCEPT !.depth = w.depth],
                         IF f[1] = "void" \/ done.ret = <<>> THEN Nil ELSE done.ret[1]),
                   IF Len(args) = Len(f[2]) /\ w.depth < w.calls THEN done.w ELSE w)
          [] OTHER -> Stops(w)

-----------------------------------------------------------------------------
(* What is not a program: a local that is declared twice in its scope or read *)
(* in its own initializer, a return outside a function, and one with a value   *)
(* in a function declared void.                                               *)

RECURSIVE Reads(_, _)
Reads(e, x) ==
    \/ e[1] = "name" /\ e[2] = x
    \/ e[1] \in {"set", "compound"} /\ (e[2] = x \/ Reads(Last(e), x))
    \/ e[1] = "bin" /\ (Reads(e[3], x) \/ Reads(e[4], x))
    \/ e[1] \in {"and", "or", "index"} /\ (Reads(e[2], x) \/ Reads(e[3], x))
    \/ e[1] \in {"not", "neg"} /\ Reads(e[2], x)
    \/ e[1] = "setindex" /\ \E n \in 2 .. 4 : Reads(e[n], x)
    \/ e[1] = "call" /\ (Reads(e[2], x) \/ \E n \in DOMAIN e[3] : Reads(e[3][n], x))
    \/ e[1] = "array" /\ \E n \in DOMAIN e[2] : Reads(e[2][n], x)

\* names: what is declared in the scope so far; where: "script", "outer" for
\* its blocks, "fun", or "void".
RECURSIVE Wrong(_, _, _), WrongAny(_, _, _)
WrongAny(ds, names, where) ==
    /\ ds # <<>>
    /\ \/ Wrong(Head(ds), names, where)
       \/ WrongAny(Tail(ds), names \cup (IF Head(ds)[1] \in {"var", "fun", "void"} THEN {Head(ds)[2]} ELSE {}),
                   where)

Wrong(d, names, where) ==
    LET inner == IF where = "script" THEN "outer" ELSE where
    IN  \/ /\ d[1] \in {"var", "fun", "void"} /\ where # "script"
           /\ d[2] \in names \/ (d[1] = "var" /\ Reads(d[3], d[2]))
        \/ /\ d[1] \in {"fun", "void"}
           /\ Cardinality(ToSet(d[3])) < Len(d[3]) \/ WrongAny(d[4], ToSet(d[3]), d[1])
        \/ d[1] = "block" /\ WrongAny(d[2], {}, inner)
        \/ d[1] = "if" /\ (Wrong(d[3], {}, inner) \/ Wrong(d[4], {}, inner))
        \/ d[1] = "while" /\ Wrong(d[3], {}, inner)
        \/ d[1] = "for" /\ (Wrong(d[2], {}, inner) \/ Wrong(d[5], {}, inner))
        \/ d[1] = "return" /\ where \notin (IF Len(d) = 1 THEN {"fun", "void"} ELSE {"fun"})

-----------------------------------------------------------------------------

\* What the inputs of a session print, one after the other.
AnswerTo(w, program) ==
    LET r == RunAll([w EXCEPT !.depth = 1], [at |-> <<>>, outermost |-> TRUE], program)
    IN  IF WrongAny(program, {}, "script") THEN [w EXCEPT !.out = Append(@, "refused")]
        ELSE [r.w EXCEPT !.err = FALSE, !.out = IF r.w.err THEN Append(@, "error") ELSE @]
Answers(session, calls) == FoldLeft(AnswerTo, NewWorld(calls), session).out
=============================================================================
