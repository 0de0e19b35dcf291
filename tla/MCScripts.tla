----------------------------- MODULE MCScripts -----------------------------
(***************************************************************************)
(* Programs in which numbers become known and unknown in every kind of     *)
(* block, and functions that call one another from every kind of statement. *)
(***************************************************************************)
EXTENDS Scripts

End == <<Word("end")>>
Else == <<Word("else")>>
Block2(open, first, second) == <<open>> \o first \o Else \o second \o End
Block1(open, body) == <<open>> \o body \o End

\* What may happen to x, and to what is known of it.
Simple == {<<Set("x", Lit(2))>>, <<Set("x", Plus("x"))>>, <<Let("y", Var("x"))>>, <<Let("y", Plus("x"))>>,
           <<Let("y", Up("x"))>>, <<Set("y", Up("x"))>>, <<Set("y", Var("x"))>>, <<Log(Plus("x"))>>, <<Log(Plus("y"))>>}
Inner == Simple \cup {<<Word("fail")>>, <<Word("break")>>, <<Word("continue")>>,
                      <<Let("z", Lit(1)), Set("z", Plus("z")), Log(Plus("z"))>>,
                      <<Word("fail"), Log(Lit(7))>>}
Counting == <<Set("x", Plus("x"))>>
BlocksOf(bodies) ==
    UNION {{Block1(If(Less("x", 1)), b), Block1(While(Less("x", 2)), b \o Counting), Block1(For("i", 2), b),
            Block1(Each("l", 2), b), Block1(Each("l", 0), b), Block2(Try("e"), b, <<Log(Plus("e"))>>)} : b \in bodies}
    \cup {Block2(If(Less("x", 1)), b, c) : b \in bodies, c \in {<<Set("x", Lit(2))>>, <<Log(Plus("x"))>>}}
Nested == UNION {{Block1(If(Less("x", 2)), b), Block1(While(Less("x", 2)), b \o Counting), Block1(For("j", 2), b \o <<Log(Var("j"))>>),
                  Block1(Each("m", 2), b \o <<Log(Var("m"))>>),
                  Block2(Try("c"), b \o <<Word("fail")>>, <<Log(Var("c"))>>)} :
                 b \in BlocksOf({<<Log(Plus("x"))>>, <<Set("x", Plus("x"))>>, <<Word("break")>>, <<Word("continue")>>, <<Word("fail")>>})}
Program(middle) == <<Let("x", Lit(0))>> \o middle \o <<Log(Plus("x"))>>
Straight == {Program(a \o b) : a \in Simple \cup BlocksOf(Inner), b \in Simple}
    \cup {Program(a \o b) : a \in Simple, b \in BlocksOf(Inner)}
    \cup {Program(a) : a \in Nested}

\* Functions f and g, where g may call f, and the main program.
FBodies == {<<Return(Var("p"))>>, <<Return(Plus("p"))>>, <<Let("r", Plus("p")), Return(Plus("r"))>>, <<Log(Plus("p"))>>,
            <<Set("p", Lit(4)), Log(Plus("p")), Return(Var("p"))>>,
            <<If(Less("p", 1)), Return(Lit(5)), Word("end"), Return(Var("p"))>>,
            <<For("i", 2), Log(Plus("i")), If(Less("p", 1)), Return(Var("i")), Word("end"), Word("end"), Return(Var("p"))>>,
            <<Word("fail"), Return(Var("p"))>>}
GBodies == {<<Return(CallOf("f", "q"))>>, <<Let("s", CallOf("f", "q")), Return(Plus("s"))>>,
            <<Let("s", Lit(3)), Set("s", CallOf("f", "q")), Return(Plus("s"))>>,
            <<Let("s", CallOf("f", "q")), Let("t", CallOf("f", "s")), Log(Plus("q")), Return(Var("s"))>>,
            <<Call(CallOf("f", "q")), Return(Plus("q"))>>, <<Call(CallOf("f", "q"))>>,
            <<Each("l", 2), Let("m", CallOf("f", "l")), Log(Plus("m")), Word("end"), Return(Var("q"))>>}
Mains == {<<Let("a", CallOn("g", 0)), Log(Plus("a"))>>, <<Let("a", Lit(1)), Set("a", CallOn("g", 2)), Log(Plus("a"))>>,
          <<Call(CallOn("g", 1))>>, <<Call(CallOn("f", 1))>>,
          <<Let("a", CallOn("f", 1)), Let("b", CallOf("g", "a")), Log(Plus("a")), Log(Plus("b"))>>,
          <<Each("k", 2), Let("a", CallOf("g", "k")), Log(Plus("a")), Word("end"), Let("b", CallOn("f", 0)), Log(Plus("b"))>>,
          <<Try("e"), Let("a", CallOn("g", 0)), Log(Plus("a")), Word("fail"), Word("else"), Log(Plus("e")), Word("end")>>}
Called == {<<Fn("f", "p")>> \o fb \o End \o <<Fn("g", pg)>> \o gb \o End \o m :
             fb \in FBodies, gb \in GBodies, pg \in {"q"}, m \in Mains}

\* A function on the variables of the program, one that calls itself, and one
\* that is called before its declaration.
SharedBodies == {<<Set("x", Plus("x"))>>, <<Log(Plus("x"))>>, <<Log(Plus("x")), Return(Var("x"))>>,
                 <<Set("x", Plus("x")), Return(Plus("x"))>>, <<If(Less("x", 2)), Set("x", Plus("x")), Word("end"), Return(Plus("x"))>>}
SharedMains == {<<Call(CallOn("f", 0))>>, <<Let("y", CallOn("f", 0)), Log(Plus("y"))>>, <<Set("x", CallOn("f", 0))>>,
                <<Set("x", CallOf("f", "x"))>>, <<Let("y", Lit(1)), Set("y", CallOf("f", "y")), Log(Plus("y"))>>,
                <<Set("x", Lit(2)), Call(CallOn("f", 0))>>}
Shared == {Program(Block1(Fn("f", "p"), b) \o m) : b \in SharedBodies,
             m \in SharedMains \cup UNION {{Block1(If(Less("x", 1)), n \o <<Set("x", Lit(3))>>), Block1(For("i", 2), n), Block1(Each("l", 2), n)} : n \in SharedMains}}
Recursive == {Block1(Fn("f", "p"), <<If(Less("p", 2)), Let("q", Plus("p")), Let("r", CallOf("f", "q")), Log(Var("p")),
                                     Word("end"), Return(Var("p"))>>) \o <<Let("a", CallOn("f", 0))>>}

Early == {m \o Block1(Fn("f", "p"), <<Log(Plus("p")), Return(Lit(4))>>) : m \in
    {<<Call(CallOn("f", 0))>>, <<Let("a", CallOn("f", 0)), Log(Plus("a"))>>,
     <<Try("e"), Let("a", CallOn("f", 0)), Word("else"), Log(Var("e")), Word("end")>>}}

SupportedPrograms == {p \in Straight \cup Called \cup Shared \cup Recursive \cup Early : IsProgram(p) /\ Supported(p)}

\* for (let x = 0; x < 2; x++) { if (x < 1) continue; console.log(x) }
ContinuedFor == {<<For("x", 2), If(Less("x", 1)), Word("continue"), Word("end"), Log(Var("x")), Word("end")>>}
=============================================================================
