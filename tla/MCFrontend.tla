----------------------------- MODULE MCFrontend -----------------------------
(***************************************************************************)
(* Programs that reach every parse function, every pair of operators, every *)
(* scope and every operation on objects.                                   *)
(***************************************************************************)
EXTENDS Frontend


\* One character for a run of letters.
Letters == Keywords \cup {"x", "y", "f", "a", "b", "c", "C", "of", "as", "get", "set", "constructor", "status",
                          "assert", "k", "T", "Set", "Record", "void", "object", "p", "console", "log", "error",
                          "Object", "keys", "values", "entries", "assign", "hasOwn", "fetch", "text", "json",
                          "undefined", "null", "length", "push", "slice", "map", "forEach", "readonly", "name",
                          "process", "exit", "parseInt", "run", "g", "n", "u", "t", "q"}
Numerals == {"0", "1", "2"}

---------------------------------------------------------------------------
(* Trees, in short.                                                      *)

N(kind, kids) == Node(kind, <<>>, kids)
Nm(x) == Leaf("Name", <<x>>)
V(x) == Leaf("Ident", <<x>>)
One == Leaf("Int", <<"1">>)
Number == Leaf("Type", <<"number">>)
Str == Leaf("String", <<"k">>)
Let(x, e) == N("Let", <<Leaf("Keyword", <<"let">>), Nm(x), e>>)
Const(x, e) == N("Let", <<Leaf("Keyword", <<"const">>), Nm(x), e>>)
Typed(x, t, e) == N("Let", <<Leaf("Keyword", <<"let">>), Nm(x), t, e>>)
Assigns(x, e) == N("Assign", <<Nm(x), e>>)
Call(f, args) == N("Call", <<Nm(f)>> \o args)
Does(e) == N("ExprStmt", <<e>>)
Log(e) == Does(N("Builtin", <<Leaf("Group", <<"console">>), Nm("log"), e>>))
ObjectCall(m, args) == N("Builtin", <<Leaf("Group", <<"Object">>), Nm(m)>> \o args)
Bl(stmts) == N("Block", stmts)
Pm(x) == N("Param", <<Nm(x)>>)
Fun(f, ps, stmts) == N("Fn", <<Nm(f)>> \o ps \o <<Bl(stmts)>>)
Arrow(ps, body) == N("Arrow", ps \o <<body>>)
Bin(o, l, r) == N("Binary", <<l, Leaf("Op", <<o>>), r>>)
Prog(stmts) == N("Program", stmts)

---------------------------------------------------------------------------
(* Texts.                                                                *)

Quoted(spelt, lit) == Written("#string", <<"\"">> \o spelt \o <<"\"">>, lit)
Backed(spelt, lit) == Written("#template", <<"bq">> \o spelt \o <<"bq">>, lit)
TokenPool == {Word(s) : s \in Symbols \cup {Spelling[p] : p \in Pairs \cup Triples}}
    \cup {Word("let"), Word("if"), Id(<<"a">>), Id(<<"a", "1">>), NewLine,
          Comment(<<"/", "/", "a", "\n">>), Comment(<<"/", "*", "/", "*", "*", "/">>), Written("#int", <<"1">>, <<"1">>),
          Written("#float", <<"1", ".", "2">>, <<"1", ".", "2">>),
          Quoted(<<"\\", "n", "'">>, <<"\n", "'">>), Quoted(<<"\\", "\"", "\\", "\\">>, <<"\"", "\\">>),
          Quoted(<<"\\", "\n", "\\", "\r", "\n", "q">>, <<"q">>),
          Quoted(<<"\\", "u", "0", "0", "1", "2", "\\", "x", "1", "2">>,
                 <<"rune", "0", "0", "1", "2", "byte", "1", "2">>),
          Backed(<<"$", "{", "f", "(", "{", "}", ")", "}", "\\", "$", "{">>,
                 <<"$", "{", "f", "(", "{", "}", ")", "}", "\\", "$", "{">>)}
Dense == {Word(s) : s \in {".", "?", "=", "!", "<", "+", "-", "*", "|", "??", "==", "===", "..."}}
    \cup {Written("#int", <<"1">>, <<"1">>), Id(<<"a">>)}
LexicalTexts == {<<t, u>> : t, u \in TokenPool} \cup {<<t, u, v>> : t, u, v \in Dense}

---------------------------------------------------------------------------
(* Expressions.                                                          *)

Binaries == {"??", "||", "&&", "===", "<", "+", "-", "*", "%"}
Few == {"??", "&&", "<", "-", "*"}
Chains ==
    LET A == V("a") B == V("b") C == V("c") D == V("x") IN
    {Bin(o, Bin(p, A, B), C) : o, p \in Binaries} \cup {Bin(o, A, Bin(p, B, C)) : o, p \in Binaries}
    \cup UNION {{Bin(o, Bin(p, A, B), Bin(q, C, D)), Bin(o, Bin(p, Bin(q, A, B), C), D),
                 Bin(o, A, Bin(p, B, Bin(q, C, D))), Bin(o, A, Bin(p, Bin(q, B, C), D)),
                 Bin(o, Bin(p, A, Bin(q, B, C)), D)} : o, p, q \in Few}
\* Each form of expression, with a hole.
Forms(e) ==
    {Bin("+", e, V("a")), Bin("+", V("a"), e), Bin("===", e, V("a")), Bin("===", V("a"), e),
     N("Unary", <<Leaf("Op", <<"!">>), e>>), N("Unary", <<Leaf("Op", <<"-">>), e>>),
     N("Ternary", <<e, V("a"), V("b")>>), N("Ternary", <<V("a"), e, V("b")>>), N("Ternary", <<V("a"), V("b"), e>>),
     N("Property", <<e, Nm("length")>>), N("Method", <<e, Nm("map"), V("f")>>), N("Method", <<V("a"), Nm("map"), e>>),
     N("Optional", <<N("Property", <<e, Nm("length")>>)>>), N("Index", <<e, V("a")>>), N("Index", <<V("a"), e>>),
     N("OptionalIndex", <<V("a"), e>>),
     Call("f", <<e>>), Call("f", <<e, V("a")>>), N("List", <<e, V("b")>>), N("List", <<N("Spread", <<e>>)>>),
     N("Object", <<N("Field", <<Nm("k"), e>>), N("Spread", <<V("a")>>)>>),
     Arrow(<<Pm("p")>>, e), Arrow(<<>>, e), Arrow(<<Pm("p"), Pm("q")>>, Bl(<<N("Return", <<e>>)>>)),
     N("Cmd", <<Str, e>>), N("As", <<e, Leaf("Type", <<"number">>)>>),
     N("Builtin", <<Leaf("Group", <<"Object">>), Nm("keys"), e>>), N("Builtin", <<Nm("parseInt"), e>>)}
Atoms == {V("x"), One, Leaf("Float", <<"1", ".", "2">>), Str, Leaf("Bool", <<"true">>), Leaf("Nothing", <<"null">>),
          N("List", <<>>), N("Object", <<>>), N("New", <<Nm("Set")>>), Call("f", <<>>),
          Node("Template", <<"$", "{", "a", " ", "+", " ", "1", "}">>, <<Bin("+", V("a"), One)>>)}
Nested == Atoms \cup UNION {Forms(e) : e \in Atoms} \cup UNION {Forms(e) : e \in Forms(V("x"))}
ExpressionPrograms == {Prog(<<Let("y", e)>>) : e \in Chains \cup Nested}

---------------------------------------------------------------------------
(* Statements: each of the parse functions, one after another.           *)

ListNumber == N("ListType", <<Number>>)
Mem(kids) == N("Member", kids)
Things == {
    Let("x", V("a")), Const("x", Call("f", <<>>)), Typed("x", ListNumber, N("List", <<One>>)),
    Typed("x", N("SetType", <<Number>>), N("New", <<Nm("Set")>>)),
    Typed("x", N("ObjectType", <<Number>>), N("Object", <<>>)),
    Typed("f", N("FunctionType", <<Number, N("ListType", <<Number>>)>>), Arrow(<<Pm("p")>>, N("List", <<V("p")>>))),
    N("Destructure", <<Leaf("Keyword", <<"let">>), Nm("a"), Nm("b"), V("c")>>),
    Assigns("x", N("Propagate", <<Call("f", <<>>)>>)), Assigns("x", N("Ternary", <<V("a"), V("b"), V("c")>>)),
    N("Incr", <<Nm("x"), Leaf("Op", <<"--">>)>>), N("Compound", <<Nm("x"), Leaf("Op", <<"*=">>), Bin("+", V("a"), One)>>),
    N("IndexAssign", <<Nm("x"), V("a"), One>>), N("PropertyAssign", <<Nm("x"), Nm("k"), One>>),
    Does(N("Update", <<Leaf("Op", <<"++">>), Nm("x")>>)), Does(Call("f", <<V("a")>>)), Log(Str),
    Does(N("Method", <<V("x"), Nm("push"), One>>)), Does(N("Method", <<N("Cmd", <<Str>>), Nm("run")>>)),
    Does(N("Optional", <<N("Method", <<V("x"), Nm("map"), V("f")>>)>>)),
    N("If", <<V("a"), Bl(<<Assigns("x", One)>>), N("ElseIf", <<V("b"), Bl(<<>>)>>),
            N("Else", <<Bl(<<Assigns("x", V("a"))>>)>>)>>),
    N("If", <<V("a"), N("Bare", <<Assigns("x", One)>>), N("Else", <<N("Bare", <<N("Return", <<One>>)>>)>>)>>),
    N("While", <<V("a"), N("Bare", <<N("ForEach", <<Nm("x"), V("b"), N("Bare", <<Log(V("x"))>>)>>)>>)>>),
    N("Alias", <<Nm("T"), ListNumber>>), N("Interface", <<Nm("T"), Number>>), N("Ambient", <<Nm("x"), Number>>),
    N("ForEach", <<Nm("x"), V("a"), Bl(<<Leaf("Continue", <<>>), Log(V("x"))>>)>>),
    N("ForC", <<Let("x", One), Bin("<", V("x"), V("a")), N("Incr", <<Nm("x"), Leaf("Op", <<"++">>)>>),
              Bl(<<Log(V("x"))>>)>>),
    N("ForC", <<Assigns("x", One), V("a"), N("Compound", <<Nm("x"), Leaf("Op", <<"+=">>), One>>), Bl(<<>>)>>),
    N("While", <<V("a"), Bl(<<Leaf("Break", <<>>)>>)>>),
    N("Try", <<Bl(<<Assigns("x", One)>>), Nm("p"), Bl(<<Log(V("p"))>>)>>),
    N("Switch", <<V("a"), N("Case", <<One, Bl(<<Assigns("x", One), Leaf("Break", <<>>)>>)>>),
                  N("Case", <<Leaf("DefaultCase", <<"default">>), Bl(<<Assigns("x", V("b"))>>)>>)>>),
    Fun("f", <<N("Param", <<Nm("p"), Number>>), Pm("q")>>, <<N("Return", <<V("p")>>)>>),
    N("Fn", <<Nm("f"), ListNumber, Bl(<<N("Return", <<>>)>>)>>),
    N("DeclareFn", <<Nm("f"), Pm("p"), Number>>),
    N("Class", <<Nm("C"), Mem(<<Nm("k"), Number>>), Mem(<<Leaf("Static", <<"static">>), Nm("n"), Number, One>>),
                 Mem(<<Leaf("Constructor", <<"constructor">>), Pm("p"),
                           Bl(<<N("PropertyAssign", <<Nm("this"), Nm("k"), V("p")>>)>>)>>),
                 Mem(<<Leaf("Accessor", <<"get">>), Nm("x"), Number, Bl(<<N("Return", <<One>>)>>)>>),
                 Mem(<<Leaf("Static", <<"static">>), Nm("f"), Pm("p"), Bl(<<Log(V("p"))>>)>>)>>),
    N("Export", <<Let("x", One)>>), N("Export", <<Fun("f", <<>>, <<>>)>>), N("Export", <<N("Default", <<V("a")>>)>>),
    N("Import", <<Nm("a"), Nm("b"), Leaf("Source", <<"k">>)>>)}
StatementPrograms == {Prog(<<s>>) : s \in Things} \cup {Prog(<<s, t>>) : s, t \in Things}
    \cup {Prog(<<N("If", <<V("a"), Bl(<<s, Log(One)>>)>>)>>) : s \in {s \in Things : s.kind \notin {"Import", "Export"}}}

---------------------------------------------------------------------------
(* Names: a statement, one in a nested scope, another statement.         *)

Declares == {Let("x", One), Const("x", One), Let("y", V("x")), Fun("x", <<>>, <<>>), Log(One),
             N("Export", <<Const("x", One)>>)}
Inner == {Let("x", V("x")), Const("x", One), Let("y", V("x")), Fun("x", <<>>, <<>>), Log(V("x"))}
         \cup {Assigns("x", One), N("PropertyAssign", <<Nm("x"), Nm("k"), One>>), Does(Call("x", <<>>)),
               Does(N("Update", <<Leaf("Op", <<"++">>), Nm("x")>>)), Leaf("Break", <<>>), N("Return", <<One>>),
               N("Destructure", <<Leaf("Keyword", <<"const">>), Nm("x"), Nm("y"), N("List", <<One, One>>)>>)}
Around(s) ==
    {s, N("If", <<One, Bl(<<s, Const("x", One)>>)>>), N("If", <<One, Bl(<<Fun("g", <<>>, <<s>>), Const("x", One)>>)>>),
     N("If", <<One, Bl(<<s>>)>>), N("If", <<One, Bl(<<>>), N("Else", <<Bl(<<s>>)>>)>>), N("While", <<One, Bl(<<s>>)>>),
     N("ForEach", <<Nm("x"), N("List", <<One>>), Bl(<<s>>)>>), N("ForEach", <<Nm("y"), N("List", <<One>>), Bl(<<s>>)>>),
     N("ForC", <<Let("x", One), V("x"), N("Incr", <<Nm("x"), Leaf("Op", <<"++">>)>>), Bl(<<s>>)>>),
     N("ForC", <<Assigns("x", One), One, Assigns("x", One), Bl(<<s>>)>>),
     N("Try", <<Bl(<<s>>), Nm("x"), Bl(<<Log(V("x"))>>)>>), N("Try", <<Bl(<<>>), Nm("x"), Bl(<<s>>)>>),
     N("Switch", <<One, N("Case", <<One, Bl(<<s>>)>>)>>),
     Fun("f", <<>>, <<s>>), Fun("f", <<Pm("x")>>, <<s>>), Fun("f", <<>>, <<s, Let("x", One)>>),
     N("While", <<One, Bl(<<Fun("f", <<>>, <<s>>)>>)>>),
     Let("f", Arrow(<<Pm("y")>>, Bl(<<s>>))), Let("f", Arrow(<<Pm("x")>>, Bl(<<s>>))),
     N("Class", <<Nm("C"), Mem(<<Nm("f"), Bl(<<s>>)>>)>>)}
Follows == {Log(V("x")), Assigns("x", One), Let("x", One), Does(Call("f", <<>>))}
ScopePrograms == {Prog(<<s, w, t>>) : s \in Declares, w \in UNION {Around(i) : i \in Inner}, t \in Follows}

---------------------------------------------------------------------------
(* Objects: two names, what becomes of them, and an operation.           *)

Fd(e) == N("Field", <<Nm("k"), e>>)
Spr(e) == N("Spread", <<e>>)
Flat == N("Object", <<Fd(One)>>)
Mixed == N("Object", <<Fd(N("List", <<One>>))>>)
Fetch == N("Builtin", <<Nm("fetch"), Str>>)
MethodCall(x, m, args) == N("Method", <<x, Nm(m)>> \o args)
Shower == Arrow(<<Pm("p")>>, N("Builtin", <<Leaf("Group", <<"console">>), Nm("log"), V("p")>>))
FirstValues == {Flat, Mixed, N("List", <<One>>), Fetch}
SecondValues == {Flat, Fetch, One, V("a"), N("Object", <<Spr(V("a"))>>), N("As", <<V("a"), Number>>),
                 ObjectCall("assign", <<V("a"), Flat>>), ObjectCall("assign", <<Flat, V("a")>>)}
Changes == {N("PropertyAssign", <<Nm(x), Nm("k"), N("List", <<One>>)>>) : x \in {"a", "b"}}
    \cup {N("PropertyAssign", <<Nm("a"), Nm("k"), One>>),
          N("PropertyAssign", <<Nm("b"), Nm("k"), N("Object", <<Spr(V("a"))>>)>>),
          Assigns("a", One), Assigns("b", Mixed), Assigns("b", N("List", <<>>)), 
          Assigns("a", V("b")), Assigns("b", V("a")),
          Does(ObjectCall("assign", <<V("a"), V("b")>>))}
Operations == UNION {{Let("c", ObjectCall("values", <<V(x)>>)), Let("c", MethodCall(V(x), "text", <<>>)),
                      Does(MethodCall(V(x), "forEach", <<Shower>>))} : x \in {"a", "b"}}
    \cup {Let("c", ObjectCall("keys", <<V("b")>>)), Let("c", N("Object", <<Spr(V("b"))>>)),
          Let("c", MethodCall(V("a"), "forEach", <<Shower>>)), Let("c", N("Property", <<V("b"), Nm("k")>>))}
ObjectPrograms == {Prog(<<Let("a", u), Let("b", v), w, t>>) :
                   u \in FirstValues, v \in SecondValues, w \in Changes, t \in Operations}
AllPrograms == ExpressionPrograms \cup StatementPrograms \cup ScopePrograms \cup ObjectPrograms

---------------------------------------------------------------------------
(* Two statements, with a new line after each and no semicolon.          *)

LinePrograms == {Prog(<<s, t>>) : s, t \in Things}
=============================================================================
