----------------------------- MODULE MCStackVM -----------------------------
(***************************************************************************)
(* Sessions for StackVM and NativeCode, and what is compared with Meaning. *)
(***************************************************************************)
EXTENDS NativeCode, Compiler

M == INSTANCE Meaning

-----------------------------------------------------------------------------
(* Syntax trees *)

Lit(n) == <<"lit", Num(n)>>
True == <<"lit", Bool(TRUE)>>
Name(x) == <<"name", x>>
Bin(op, l, r) == <<"bin", op, l, r>>
Set(x, e) == <<"set", x, e>>
CallOf(f, args) == <<"call", Name(f), args>>
Show(e) == <<"print", e>>
Do(e) == <<"expr", e>>
Var(x, e) == <<"var", x, e>>
Fun(x, params, body) == <<"fun", x, params, body>>
Void(x, params, body) == <<"void", x, params, body>>
Begin(ds) == <<"block", ds>>
Plus(x, n) == Bin("+", Name(x), Lit(n))
ForWhile(i, from, cond, step, body) == <<"for", Var(i, from), cond, Set(i, step), body>>
For(i, from, op, to, step, body) == ForWhile(i, from, Bin(op, Name(i), to), step, body)

\* Operators on every kind of value, the ones they refuse included.
Values == {Lit(0), Lit(2), True, <<"lit", Nil>>, <<"lit", <<"str", "a">>>>}
Simple == Values \cup {<<"not", e>> : e \in Values}
Pairs(es) == {<<op, l, r>> : op \in {"and", "or"}, l \in es, r \in es}
                \cup {Bin(op, l, r) : op \in {"==", "<=", "+"}, l \in es, r \in es}
Expressions1 == {<<<<Show(e)>>>> : e \in Pairs(Simple)}
Expressions2 == {<<<<Show(<<op, l, r>>)>>>> : op \in {"and", "or"},
                     l \in Pairs({Lit(2), <<"lit", Nil>>}), r \in Pairs({True, <<"lit", Nil>>})}
Branches == {<<<<Var("x", Lit(1)),
                 <<"if", c, Begin(<<Var("y", Plus("x", 1)), Do(Set("x", Name("y")))>>),
                   IF else THEN Begin(<<Var("z", Lit(7)), Do(Set("x", Plus("z", 1)))>>)
                   ELSE Begin(<<>>)>>,
                 Show(Name("x"))>>>> :
             c \in Values \cup Pairs({True, <<"lit", Nil>>}), else \in BOOLEAN}

-----------------------------------------------------------------------------
(* Closures *)

\* f's body adds to the variables it captures and answers with one of them.
Adder(f, vs) ==
    Fun(f, <<>>, <<Do(Set(vs[1], Bin("+", Name(vs[1]), Name(Last(vs))))), <<"tail", Name(vs[1])>>>>)

\* A maker whose functions capture its parameter, its local, or both; it keeps
\* one and hands the other over.
Makers ==
    {<<<<Var("keep", Lit(0)),
         Fun("make", <<"p">>,
             <<Var("v", Lit(5)), Adder("f", vs), Adder("g", us), Do(Set("keep", Name("g")))>>
             \o inside \o <<<<"tail", Name("f")>>>>),
         Var("h", CallOf("make", <<Lit(2)>>)),
         Show(CallOf("h", <<>>)), Show(CallOf("keep", <<>>)), Show(CallOf("h", <<>>))>>>> :
        vs \in {<<"v">>, <<"p">>, <<"v", "p">>, <<"p", "v">>},
        us \in {<<"v">>, <<"p">>, <<"p", "v">>},
        inside \in {<<>>, <<Show(CallOf("f", <<>>))>>, <<Do(Set("v", Lit(3)))>>}}

\* A function in a function that captures through the one between.
Nested ==
    {<<<<Fun("outer", <<"p">>,
             <<Fun("middle", <<"q">>,
                   between \o <<Adder("inner", vs), <<"tail", Name("inner")>>>>),
               Var("first", CallOf("middle", <<Lit(10)>>)),
               Show(CallOf("first", <<>>)),
               <<"tail", Name(out)>>>>),
         Var("o", CallOf("outer", <<Lit(1)>>)),
         Var("k", IF out = "middle" THEN CallOf("o", <<Lit(20)>>) ELSE Name("o")),
         Show(CallOf("k", <<>>)), Show(CallOf("k", <<>>))>>>> :
        vs \in {<<"p">>, <<"q">>, <<"p", "q">>, <<"q", "p">>},
        between \in {<<>>, <<Do(Set("p", Plus("p", 4)))>>},
        out \in {"middle", "first"}}

\* Locals of blocks and of loops that are captured before they go.
Scoped ==
    {<<<<Var("keep", Lit(0)), Var("last", Lit(0)),
         Begin(<<Var("a", Lit(1)),
                 Begin(<<Var("b", Lit(2)), Adder("f", vs), Do(Set("keep", Name("f")))>>
                       \o (IF again THEN <<Adder("g", <<"b", "a">>), Do(Set("last", Name("g")))>>
                           ELSE <<>>)),
                 Do(Set("a", Plus("a", 30)))>>),
         Show(CallOf("keep", <<>>))>>
         \o (IF again THEN <<Show(CallOf("last", <<>>))>> ELSE <<>>)
         \o <<Show(CallOf("keep", <<>>))>>>> :
        vs \in {<<"a">>, <<"b">>, <<"a", "b">>, <<"b", "a">>}, again \in BOOLEAN}

InLoops ==
    {<<<<Var("first", <<"lit", Nil>>), Var("last", Lit(0)),
         For("i", Lit(0), "<", Lit(2), step,
             Begin(<<Var("j", Name("i")), Adder("f", vs),
                     <<"if", Bin("==", Name("first"), <<"lit", Nil>>), Do(Set("first", Name("f"))),
                       Begin(<<>>)>>,
                     Do(Set("last", Name("f")))>>)),
         Show(CallOf("first", <<>>)), Show(CallOf("last", <<>>)), Show(CallOf("first", <<>>))>>>> :
        vs \in {<<"i">>, <<"j">>, <<"i", "j">>, <<"j", "i">>},
        step \in {Plus("i", 1), Bin("+", Lit(1), Name("i")), Bin("-", Name("i"), Lit(-1))}}

\* Functions declared void, which return nothing whatever they end with.
Voids ==
    {<<<<Var("keep", Lit(0)),
         Void("note", <<"x">>,
              <<Var("y", Plus("x", 1)), Adder("f", vs), Do(Set("keep", Name("f")))>> \o end),
         Show(CallOf("note", <<Lit(4)>>)), Show(CallOf("keep", <<>>)), Show(CallOf("keep", <<>>))>>,
       <<Show(Lit(99))>>>> :
        vs \in {<<"x">>, <<"y">>, <<"x", "y">>},
        end \in {<<>>, <<<<"tail", Name("y")>>>>, <<<<"return">>>>, <<<<"return", Name("y")>>>>,
                 <<<<"if", Bin("<", Name("x"), Lit(5)), <<"return">>, Begin(<<>>)>>, Do(Set("keep", Lit(0)))>>,
                 <<Fun("g", <<>>, <<<<"return", Name("x")>>>>), <<"tail", CallOf("g", <<>>)>>>>}}

-----------------------------------------------------------------------------
(* Loops *)

Loops ==
    {<<<<Var("s", Lit(0)),
         For("i", Lit(from), op, Lit(to), step,
             Begin(<<Var("t", Name("i")), Do(<<"compound", "s", "+", Name("t")>>)>> \o more)),
         Show(Name("s"))>>>> :
        from \in {0, 2}, to \in {-1, 2, 3}, op \in {"<", "<="},
        step \in {Plus("i", 1), Plus("i", 2), Bin("+", Lit(1), Name("i"))},
        more \in {<<>>,
                  <<<<"if", Bin("==", Name("i"), Lit(1)), Do(Set("i", Plus("i", 1))), Begin(<<>>)>>>>,
                  <<For("k", Lit(0), "<=", Lit(1), Plus("k", 1), Do(<<"compound", "s", "*", Lit(2)>>))>>}}

\* Conditions that begin with a comparison and go on: the limit of the loop is
\* all that follows the comparison's sign.  Here it is the number that a loop as
\* written stops at, too.
Bounded(i, op, n) ==
    LET Inside == Bin(op, Name(i), Lit(n))
    IN  {<<"or", Inside, <<"lit", Nil>>>>, <<"and", Inside, Lit(n)>>,
         <<"or", <<"and", Inside, Lit(n)>>, Bin("==", Name(i), Lit(-1))>>}
Compound ==
    {<<<<Var("s", Lit(0)), Var("a", CallOf("array", <<Lit(3), Lit(0)>>)),
         ForWhile("i", Lit(0), cond, Plus("i", step), body),
         Show(Name("s")), Show(<<"index", Name("a"), Lit(1)>>)>>>> :
        cond \in Bounded("i", "<", 2) \cup Bounded("i", "<=", 1), step \in 1 .. 2,
        body \in {Do(<<"compound", "s", "+", Plus("i", 1)>>),
                  Do(<<"setindex", Name("a"), Name("i"), Lit(4)>>)}}

\* A limit that names the loop's variable, where a variable of that name stands
\* in the function around: it is captured, but not used.
Shadowed(ends) ==
    LET Counting(cond, step) ==
            Fun("count", <<>>,
                <<Var("s", Lit(0)),
                  ForWhile("i", Lit(0), cond, Plus("i", step), Do(<<"compound", "s", "+", Plus("i", 1)>>)),
                  <<"tail", Name("s")>>>>)
        Conditions == {<<"or", Bin("<", Name("i"), Lit(3)), Bin("==", Name("i"), Lit(9))>>}
    IN  {<<<<Fun("outer", <<"i">>, <<Counting(cond, step), Var("c", CallOf("count", <<>>))>> \o end),
             Show(CallOf("outer", <<Lit(5)>>)),
             Begin(<<Var("i", Lit(7)), Counting(cond, step), Show(CallOf("count", <<>>)), Show(Name("i"))>>)>>>> :
            cond \in Conditions, step \in 1 .. 2, end \in ends}
Unused == Shadowed({<<<<"tail", Bin("+", Name("c"), Name("i"))>>>>, <<<<"return", Name("c")>>>>})

Whiles ==
    {<<<<Var("n", Lit(3)), Var("s", <<"lit", <<"str", "">>>>),
         <<"while", <<"and", Bin(">", Name("n"), Lit(0)), <<"not", Bin("==", Name("n"), Lit(stop))>>>>,
           Begin(<<Do(<<"compound", "n", "-", Lit(1)>>),
                   Do(<<"compound", "s", "+", <<"lit", <<"str", "x">>>>>>)>>)>>,
         Show(Name("s")), Show(CallOf("len", <<Name("s")>>)),
         Show(Bin(">=", Name("n"), Lit(1)))>>>> : stop \in 0 .. 3}

-----------------------------------------------------------------------------
(* Arrays *)

Items == {Lit(7), Name("t"), Name("f")}
Changed(changes) ==
    {<<<<Var("t", <<"array", <<Lit(1)>>>>), Fun("f", <<"x">>, <<<<"tail", Name("x")>>>>),
         Var("a", <<"array", <<i, Lit(2), j>>>>), Var("b", CallOf("array", <<Lit(4), k>>)),
         change,
         Do(<<"setindex", Name("a"), Lit(1), <<"index", Name("b"), Lit(0)>>>>),
         Do(Set("t", Lit(0))), Do(Set("b", <<"lit", Nil>>)),
         Show(CallOf("len", <<Name("a")>>)),
         Show(CallOf("len", <<<<"index", Name("a"), Lit(1)>>>>)),
         Do(Set("a", Lit(0)))>>>> : i \in Items, j \in Items, k \in Items, change \in changes}
ArrayLoops ==
    Changed({For("n", Lit(0), "<", Lit(2), Plus("n", 1),
                 Begin(<<Do(<<"setindex", Name("b"), Name("n"), <<"index", Name("a"), Name("n")>>>>)>>)),
             For("n", Lit(1), "<", CallOf("len", <<Name("b")>>), Bin("+", Lit(1), Name("n")),
                 Do(<<"setindex", Name("b"), Name("n"), Name("t")>>))})
Pushes == Changed({Do(CallOf("push", <<Name("b"), CallOf("f", <<Name("t")>>)>>))})

\* An array that a closure holds, and goes with it.
Held ==
    {<<<<Var("keep", Lit(0)),
         Fun("make", <<"n">>,
             <<Var("a", CallOf("array", <<Name("n"), Lit(1)>>)),
               Fun("swap", <<"x">>, <<Var("old", Name("a")), Do(Set("a", Name("x"))), <<"tail", Name("old")>>>>),
               Do(Set("keep", Name("swap"))), <<"return">>>>),
         Do(CallOf("make", <<Lit(2)>>)),
         Var("b", CallOf("keep", <<new>>)),
         Show(<<"index", Name("b"), Lit(1)>>),
         Show(CallOf("len", <<CallOf("keep", <<Name("b")>>)>>)),
         Do(Set("keep", Lit(0)))>>>> :
        new \in {<<"array", <<>>>>, <<"array", <<Lit(4)>>>>, Lit(3)}}

-----------------------------------------------------------------------------
(* Errors, and the input after them *)

Countdown(n) == Fun("down", <<"n">>,
    <<<<"if", Bin("<=", Name("n"), Lit(0)), <<"return", Lit(0)>>, Begin(<<>>)>>,
      <<"return", Bin("+", Name("n"), CallOf("down", <<Plus("n", -1)>>))>>>>)
Faults ==
    {Show(Name("nobody")), Do(Set("nobody", Lit(1))), Show(<<"neg", True>>),
     Show(Bin("<", Lit(1), True)), Show(Bin("*", Lit(1), <<"lit", Nil>>)),
     Show(Bin("+", Lit(1), <<"lit", <<"str", "a">>>>)),
     Do(<<"call", Lit(1), <<>>>>), Do(CallOf("down", <<>>)), Do(CallOf("down", <<Lit(1), Lit(2)>>)),
     Show(<<"index", Name("a"), Lit(1)>>), Show(<<"index", Name("a"), Lit(-1)>>),
     Do(<<"setindex", Name("a"), Lit(1), Lit(0)>>), Show(<<"index", Lit(0), Lit(0)>>),
     For("i", Lit(0), "<", <<"lit", Nil>>, Plus("i", 1), Show(Name("i"))),
     For("i", Lit(0), "<", Lit(2), Plus("i", 1), Do(Set("i", <<"lit", Nil>>))),
     For("i", Lit(0), "<", Lit(1), Plus("i", 1), Do(<<"setindex", Lit(5), Name("i"), Lit(0)>>)),
     For("i", Lit(0), "<", Lit(1), Plus("i", 1), Do(<<"setindex", Name("down"), Name("i"), Lit(0)>>)),
     For("i", Lit(0), "<", Lit(1), Plus("i", 1),
         Do(<<"setindex", Name("a"), Name("i"), <<"index", Name("down"), Name("i")>>>>))}
Failing ==
    {<<<<Countdown(1), Var("a", <<"array", <<Lit(9)>>>>),
         Fun("fail", <<"x">>, <<Var("y", Name("a")), Begin(<<Var("z", Name("y")), fault, <<"return", Name("z")>>>>)>>),
         Show(CallOf("down", <<Lit(2)>>)), Show(CallOf("fail", <<Name("a")>>)), Show(Lit(99))>>,
       <<Show(<<"index", Name("a"), Lit(0)>>), Show(CallOf("down", <<Lit(1)>>))>>>> : fault \in Faults}
\* Names that are declared again, or read too early, in scopes of every kind.
Declared ==
    {<<<<Var("x", Lit(1)), Var("x", Plus("x", 4)),
         Begin(<<Var("x", e), decl, Show(Name("x"))>>), Show(Name("x"))>>, <<Show(Name("x"))>>>> :
        e \in {Lit(2), Name("x"), CallOf("len", <<Set("x", Lit(3))>>), <<"not", Name("y")>>},
        decl \in {Var("x", Lit(5)), Var("y", Name("x")), Fun("x", <<>>, <<>>), <<"return">>,
                  Begin(<<Var("x", Lit(6)), Show(Name("x"))>>), Begin(<<Var("x", Name("x"))>>),
                  Begin(<<Fun("f", <<"x">>, <<Show(Name("x"))>>), Do(CallOf("f", <<Lit(7)>>))>>),
                  Fun("f", <<"x">>, <<Var("x", Lit(8))>>), Fun("f", <<"x", "x">>, <<>>),
                  Fun("f", <<>>, <<Var("x", Lit(8)), <<"return">>>>),
                  <<"while", Bin("<", Name("x"), Lit(3)), Begin(<<Var("y", Lit(9)), Do(Set("x", Name("y")))>>)>>}}

\* Functions that the JIT declines, because they make an array, run interpreted.
RECURSIVE Declined(_)
Declined(d) ==
    LET All(ds) == [n \in DOMAIN ds |-> Declined(ds[n])]
    IN  CASE d[1] \in {"fun", "void"} -> [d EXCEPT ![4] = <<Do(<<"array", <<>>>>)>> \o All(@)]
          [] d[1] = "block" -> Begin(All(d[2]))
          [] d[1] = "for" -> [d EXCEPT ![5] = Declined(@)]
          [] OTHER -> d
Interpreted(sessions) == {[n \in DOMAIN s |-> [m \in DOMAIN s[n] |-> Declined(s[n][m])]] : s \in sessions}

\* Functions that call each other, each compiled or not, and hand on what a
\* closure of the script's makes of its captured variable.
Mutual ==
    {<<<<Var("keep", Lit(0)),
         Begin(<<Var("a", Lit(n)), Adder("f", <<"a">>), Do(Set("keep", Name("f")))>>),
         IF 1 \in declined THEN Declined(even) ELSE even, IF 2 \in declined THEN Declined(odd) ELSE odd,
         Show(CallOf("even", <<Lit(n), Lit(5)>>)), Show(CallOf("odd", <<Lit(1), Lit(n)>>)),
         Show(CallOf("keep", <<>>))>>>> :
        n \in 0 .. 2, declined \in SUBSET {1, 2},
        even \in {Fun("even", <<"n", "p">>,
            <<<<"if", Bin("<=", Name("n"), Lit(0)), <<"return", Name("p")>>, Begin(<<>>)>>,
              Var("q", CallOf("odd", <<Plus("n", -1), Bin("+", Name("p"), last)>>)),
              <<"return", Bin("-", Name("q"), Name("n"))>>>>) : last \in {Lit(1), CallOf("keep", <<>>)}},
        odd \in {Fun("odd", <<"n", "p">>,
            <<Var("s", Name("p")),
              For("i", Lit(0), "<", Name("n"), Plus("i", 1), Do(<<"compound", "s", "+", Name("i")>>)),
              <<"while", Bin(">", Name("n"), Lit(0)), Begin(<<<<"return", CallOf("even", <<Plus("n", -1), Name("s")>>)>>>>)>>,
              <<"return", <<"neg", Name("s")>>>>>>)}}
Deep(limit) == {<<<<Countdown(1), Show(CallOf("down", <<Lit(n)>>)), Show(Lit(99))>>,
                  <<Show(CallOf("down", <<Lit(1)>>))>>>> : n \in 0 .. limit}

-----------------------------------------------------------------------------
(* Compiled code and its errors *)

Work == {Bin(op, Name("x"), Name("y")) : op \in {"+", "-", "*", "==", "<", ">"}}
            \cup {<<"not", Name("x")>>, <<"neg", Name("x")>>, CallOf("x", <<Name("y")>>),
                  CallOf("len", <<Name("x")>>), CallOf("w", <<Name("y")>>), Set("nobody", Name("x")),
                  <<"index", Name("a"), Name("x")>>, <<"setindex", Name("a"), Name("x"), Name("y")>>,
                  <<"index", Name("x"), Name("y")>>, <<"setindex", Name("x"), Name("y"), Lit(3)>>}
Compiled ==
    {<<<<Var("a", <<"array", <<Lit(7), Lit(8)>>>>),
         Fun("w", <<"x">>, <<<<"return", Name("x")>>>>),
         Fun("work", <<"x", "y">>, <<Var("z", e), <<"return", <<"not", <<"not", Name("z")>>>>>>>>),
         Show(CallOf("work", <<i, j>>)), Show(Lit(99))>>,
       <<Show(Name("nobody")), Show(<<"index", Name("a"), Lit(1)>>)>>>> :
        e \in Work, i \in Values, j \in Values \ {Lit(0)}}

\* An error at the end of a chain of calls, and what the script calls after it.
Chains ==
    LET Hand(x, y) == Fun(x, <<"v">>, <<Var("r", CallOf(y, <<Name("v")>>)), <<"return", Name("r")>>>>)
        Bad(fault) == Fun("bad", <<"v">>, <<fault, <<"return", Name("v")>>>>)
        Kinds(f) == {f, Declined(f)}
    IN  {<<<<Declined(Fun("id", <<"v">>, <<<<"return", Name("v")>>>>)),
             Declined(Fun("twice", <<"v">>, <<<<"return", CallOf("id", <<CallOf("id", <<Name("v")>>)>>)>>>>)),
             bad, one, two, Show(CallOf("two", <<Lit(5)>>))>> \o after,
           <<Show(CallOf("id", <<Lit(6)>>))>>>> :
            bad \in UNION {Kinds(Bad(f)) : f \in {Show(<<"neg", True>>), Do(CallOf("id", <<>>)),
                                                 Show(Bin("<", <<"lit", <<"str", "a">>>>, <<"lit", <<"str", "x">>>>)),
                                                 Show(<<"not", Name("bad")>>)}},
            one \in Kinds(Hand("one", "bad")), two \in Kinds(Hand("two", "one")),
            after \in {<<>>, <<Show(CallOf("twice", <<Lit(1)>>)), Show(Lit(99))>>}}

\* A function that calls itself with too few or too many arguments, after its
\* name was given to another, or in turn with one that needs a frame each time.
Selves ==
    {<<<<Fun("f", <<"n", "m">>,
             <<<<"if", Bin("<=", Name("n"), Lit(0)), <<"return", Name("m")>>, Begin(<<>>)>>,
               <<"return", CallOf("f", <<Plus("n", -1)>> \o more)>>>>)>> \o given
       \o <<Show(CallOf("f", <<Lit(2), Lit(5)>>)), Show(CallOf("f", <<Lit(3)>>))>>>> :
        more \in {<<>>, <<Plus("m", 1)>>, <<Name("m"), Lit(8)>>},
        given \in {<<>>, <<Var("g", Name("f")), Fun("f", <<"n", "m">>, <<<<"return", Lit(77)>>>>),
                          Show(CallOf("g", <<Lit(1), Lit(4)>>))>>}}
    \cup {<<<<Fun("f", <<"n">>,
             <<<<"if", Bin("<=", Name("n"), Lit(0)), <<"return", Lit(0)>>, Begin(<<>>)>>,
               <<"return", Bin("+", CallOf("g", <<Plus("n", -1)>>), Lit(1))>>>>),
         Declined(Fun("g", <<"n">>, <<<<"return", CallOf("f", <<Name("n")>>)>>>>)),
         Show(CallOf("f", <<Lit(n)>>)), Show(CallOf("f", <<Lit(1)>>))>>>> : n \in {1, FramesMax, FramesMax + 1}}

-----------------------------------------------------------------------------
(* return e in a function with captured locals *)

\* A maker that returns its function, and whether locals follow it.
Returned(captured, locals) ==
    {<<<<Fun("make", <<"p">>,
             <<Var("v", Lit(5)), Adder("f", vs)>> \o after \o <<<<"return", Name("f")>>>>),
         Var("h", CallOf("make", <<Lit(10)>>)),
         Show(CallOf("h", <<>>)), Show(CallOf("h", <<>>))>>>> : vs \in captured, after \in locals}
OneCaptured == Returned({<<"p">>, <<"v">>}, {<<>>})
SeveralCaptured == Returned({<<"p", "v">>, <<"v", "p">>}, {<<>>})
                        \cup Returned({<<"p">>, <<"v">>}, {<<Var("w", Lit(8))>>})

-----------------------------------------------------------------------------
(* Loops that are taken for something else, and a capture that should not be *)

\* What a loop adds up, and how often it runs.
Summing(cond, step) ==
    <<<<Var("s", Lit(0)), Var("ok", True),
        ForWhile("i", Lit(0), cond, step, Do(<<"compound", "s", "+", Plus("i", 1)>>)),
        Show(Name("s")), Show(Lit(99))>>>>
TenSteps == {Summing(Bin("<", Name("i"), Lit(12)), step) :
                step \in {Plus("i", 10), Bin("+", Lit(10), Name("i"))}}
CompoundLimits == {Summing(<<"and", Bin("<", Name("i"), Lit(3)), Name("ok")>>, Plus("i", 1))}
UnusedReturned == Shadowed({<<<<"return", Bin("+", Name("c"), Name("i"))>>>>})

-----------------------------------------------------------------------------
(* Plans, and sessions *)

\* The functions in a function's code, itself included.
RECURSIVE FunctionsIn(_)
FunctionsIn(fn) ==
    {fn} \cup UNION {FunctionsIn(fn.code[n][2]) : n \in {m \in DOMAIN fn.code : fn.code[m][1] = "CLOSURE"}}

\* The plan of a function, found by following its code from the start; what
\* several paths have captured at an instruction is put together.
RECURSIVE Follow(_, _, _)
Follow(fn, plan, todo) ==
    IF todo = {} THEN plan
    ELSE LET n == CHOOSE m \in todo : TRUE
             ins == fn.code[n]
             captured == CapturedAfter(ins, plan[n].height, plan[n].captured)
             Known(m) == IF m \in DOMAIN plan THEN plan[m].captured ELSE {}
             new == {m \in Nexts(n, ins) : m \notin DOMAIN plan \/ ~(captured \subseteq Known(m))}
             found == [m \in new |-> [height |-> plan[n].height - Takes(ins) + Leaves(ins),
                                      captured |-> captured \cup Known(m)]]
         IN  Follow(fn, found @@ plan, (todo \ {n}) \cup new)
PlanOf(fn) == Follow(fn, 1 :> [height |-> fn.arity + 1, captured |-> {}], {1})
Plans(code) == [fn \in UNION {FunctionsIn(code[n].fn) : n \in {m \in DOMAIN code : ~code[m].bad}} |-> PlanOf(fn)]

\* The inputs of a session, what compiling them gives, and what they mean when
\* so many calls may be under way.
Prepared(inputs, calls) ==
    LET code == [n \in DOMAIN inputs |-> Compile(inputs[n])]
    IN  [inputs |-> inputs, code |-> code, plan |-> Plans(code), answers |-> M!Answers(inputs, calls)]

MCLeftovers == {Nil, Num(0)}

MCSessions ==
    LET WithoutCalls == Expressions1 \cup Expressions2 \cup Branches \cup Loops \cup Compound \cup Whiles
        WithCalls == Makers \cup Nested \cup Scoped \cup InLoops \cup ArrayLoops \cup Pushes
                        \cup Held \cup Failing \cup Declared \cup OneCaptured
                        \cup Voids \cup Unused
    IN  {Prepared(inputs, FramesMax) :
            inputs \in WithoutCalls \cup WithCalls \cup Mutual \cup Compiled \cup Chains \cup Selves
                        \cup Interpreted(WithCalls \cup Deep(FramesMax))}
        \cup {Prepared(inputs, FramesMax + 9) : inputs \in Deep(FramesMax)}

\* The run that shows what return e does to captured locals.  (Chosen is there so
\* that TLC evaluates the programs once.)
ReturnSessions == LET Chosen == SeveralCaptured IN {Prepared(inputs, FramesMax) : inputs \in Chosen}

\* Sessions in the place of these that show the other disagreements of section 6.
StepSessions == LET Chosen == TenSteps IN {Prepared(inputs, FramesMax) : inputs \in Chosen}
LimitSessions == LET Chosen == CompoundLimits IN {Prepared(inputs, FramesMax) : inputs \in Chosen}
RollbackSessions == LET Chosen == UnusedReturned IN {Prepared(inputs, FramesMax) : inputs \in Chosen}

-----------------------------------------------------------------------------

\* When all inputs are done, what was printed is what the program means, and no
\* engine has to say anything else, unless compiled code met an error: what
\* compile, run and the machine code do together, for the programs of a run.
\* Sections 6 and 7 of the README name programs of which it does not hold.
AnswersAsWritten == Finished /\ ~strayed => output = session.answers

\* Every session comes to its end: the code that the compiler makes of loops
\* that end does end, in both engines, and recursion meets its limit.
Halts == <>(Finished \/ strayed)
=============================================================================
