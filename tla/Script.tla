------------------------------- MODULE Script -------------------------------
(***************************************************************************)
(* The programs the code generator is modelled on: a flat sequence of      *)
(* statements over numbers, whose blocks run from an opening statement to  *)
(* the "end" that closes it; an "else" starts the second part of an if, or *)
(* the catch of a try.  Functions have one parameter.                      *)
(***************************************************************************)
EXTENDS Naturals, Sequences, FiniteSets, FiniteSetsExt

VARIABLE prog         \* the program that is compiled and run

\* Expressions: a number, a variable, x + 1, ++x, x < n, f(x) and f(n).
Exp(k, x, n, f) == [k |-> k, x |-> x, n |-> n, f |-> f]
Lit(n) == Exp("lit", "", n, "")
Var(x) == Exp("var", x, 0, "")
Plus(x) == Exp("plus", x, 0, "")
Up(x) == Exp("up", x, 0, "")
Less(x, n) == Exp("less", x, n, "")
CallOf(f, x) == Exp("call", x, 0, f)
CallOn(f, n) == Exp("call", "", n, f)

St(op, x, e) == [op |-> op, x |-> x, e |-> e]
Let(x, e) == St("let", x, e)
Set(x, e) == St("set", x, e)
Log(e) == St("log", "", e)
Call(e) == St("call", "", e)
Return(e) == St("return", "", e)
If(e) == St("if", "", e)
While(e) == St("while", "", e)
For(x, n) == St("for", x, Less(x, n))    \* for (let x = 0; x < n; x++)
Each(x, n) == St("each", x, Lit(n))      \* for (x of a command that prints 1 ... n)
Try(x) == St("try", x, Lit(0))           \* try ... catch (x: status)
Fn(f, p) == St("fn", p, CallOn(f, 0))
Word(op) == St(op, "", Lit(0))           \* fail, break, continue, else, end

Openers == {"if", "while", "for", "each", "try", "fn"}
Loops == {"while", "for", "each"}

---------------------------------------------------------------------------
(* The blocks of a program p.                                            *)

Count(p, i, j, ops) == Cardinality({k \in i..j : p[k].op \in ops})
Close(p, b) == CHOOSE j \in (b + 1)..Len(p) :
    /\ Count(p, b, j, Openers) = Count(p, b, j, {"end"})
    /\ \A k \in (b + 1)..(j - 1) : Count(p, b, k, Openers) # Count(p, b, k, {"end"})
\* The blocks around statement i, and the innermost of them (0: the program).
Around(p, i) == {b \in 1..(i - 1) : p[b].op \in Openers /\ i < Close(p, b)}
Block(p, i) == Max(Around(p, i) \cup {0})
\* The opening statement that an "else" or "end" at i belongs to.
Opener(p, i) == IF p[i].op = "end" THEN CHOOSE b \in 1..(i - 1) : p[b].op \in Openers /\ Close(p, b) = i
                ELSE Block(p, i)
LoopAround(p, i) == Max({b \in Around(p, i) : p[b].op \in Loops})
ElseOf(p, b) == {j \in (b + 1)..Close(p, b) : p[j].op = "else" /\ Block(p, j) = b}
\* Where an if goes on when its condition fails, and a try when a command does.
Otherwise(p, b) == IF ElseOf(p, b) = {} THEN Close(p, b) ELSE Max(ElseOf(p, b)) + 1
Within(p, i, op) == {b \in Around(p, i) : p[b].op = op}
\* The function statement i belongs to, 0 outside.
FnOf(p, i) == IF p[i].op = "fn" THEN i ELSE Max(Within(p, i, "fn") \cup {0})
FnAt(p, f) == CHOOSE b \in DOMAIN p : p[b].op = "fn" /\ p[b].e.f = f
BodyOf(p, f) == (FnAt(p, f) + 1)..(Close(p, FnAt(p, f)) - 1)
FunctionsOf(p) == {p[b].e.f : b \in {b \in DOMAIN p : p[b].op = "fn"}}
Gives(p) == {f \in FunctionsOf(p) : \E i \in BodyOf(p, f) : p[i].op = "return"}
Calls(st) == st.op # "fn" /\ st.e.k = "call"

---------------------------------------------------------------------------
(* The declaration a name at i denotes in JavaScript: the last visible     *)
(* let before i, or what opens a block around i: a parameter, the variable *)
(* of a loop, that of a catch.                                             *)

Second(p, b, i) == ElseOf(p, b) # {} /\ i > Max(ElseOf(p, b))
Visible(p, j, i) == LET b == Block(p, j) IN
    /\ j < i
    /\ b = 0 \/ (b \in Around(p, i) /\ Second(p, b, j) = Second(p, b, i))
Opens(p, b, x) == p[b].op \in {"fn", "for", "each", "try"} /\ p[b].x = x
Declarations(p, i, x) ==
    {j \in DOMAIN p : p[j].op = "let" /\ p[j].x = x /\ Visible(p, j, i)}
        \cup {b \in Around(p, i) : Opens(p, b, x) /\ (p[b].op = "try" => Second(p, b, i))}
Declared(p, i, x) == Max(Declarations(p, i, x))
NamesOf(p) == {p[i].x : i \in {i \in DOMAIN p : p[i].op \in {"let", "fn", "for", "each", "try"}}}
Reads(p, i) == IF p[i].op \in {"fn", "for"} THEN {} ELSE {p[i].e.x} \ {""}
Writes(p, i) == (IF p[i].op = "set" THEN {p[i].x} ELSE {}) \cup (IF p[i].e.k = "up" THEN {p[i].e.x} ELSE {})
Uses(p, i) == Reads(p, i) \cup Writes(p, i)

---------------------------------------------------------------------------
(* Programs JavaScript accepts, that end: blocks are closed, names are     *)
(* declared once in a scope and before they are used, functions are given  *)
(* at the top, those whose value is used return one at their end, and a    *)
(* while counts its variable up.                                           *)

Closed(p) == /\ Count(p, 1, Len(p), Openers) = Count(p, 1, Len(p), {"end"})
             /\ \A k \in DOMAIN p : Count(p, 1, k, Openers) >= Count(p, 1, k, {"end"})
ElsesOk(p) ==
    /\ \A j \in DOMAIN p : p[j].op = "else" =>
          Block(p, j) # 0 /\ p[Block(p, j)].op \in {"if", "try"} /\ ElseOf(p, Block(p, j)) = {j}
    /\ \A b \in DOMAIN p : p[b].op = "try" => ElseOf(p, b) # {}
NamesOk(p) == \A i \in DOMAIN p :
    /\ \A x \in Uses(p, i) : Declarations(p, i, x) # {}
    /\ \A j \in DOMAIN p : p[i].op = "let" /\ j # i /\ Block(p, j) = Block(p, i) =>
          ~(p[j].op = "let" /\ p[j].x = p[i].x) /\ (j < i => p[i].x \notin Uses(p, j))
FunctionsOk(p) == \A i \in DOMAIN p :
    /\ p[i].op = "fn" => Block(p, i) = 0 /\ \A j \in DOMAIN p : p[j].op = "fn" /\ p[j].e.f = p[i].e.f => j = i
    /\ p[i].op = "return" => Within(p, i, "fn") # {}
    /\ Calls(p[i]) => /\ p[i].e.f \in FunctionsOf(p)
                      /\ p[i].op # "call" => p[Close(p, FnAt(p, p[i].e.f)) - 1].op = "return"
LoopsOk(p) == \A i \in DOMAIN p :
    /\ p[i].op = "while" => /\ p[Close(p, i) - 1] = Set(p[i].e.x, Plus(p[i].e.x)) /\ Block(p, Close(p, i) - 1) = i
                            /\ \A j \in i..Close(p, i) : p[j].op # "let"
    /\ p[i].op \in {"break", "continue"} => \E b \in Around(p, i) : p[b].op \in Loops
    /\ p[i].op = "continue" => p[LoopAround(p, i)].op # "while"
    /\ p[i].op = "for" => \A j \in i..Close(p, i) : p[i].x \notin Writes(p, j)
IsProgram(p) == Closed(p) /\ ElsesOk(p) /\ NamesOk(p) /\ FunctionsOk(p) /\ LoopsOk(p)
=============================================================================
