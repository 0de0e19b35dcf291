------------------------------ MODULE Scripts ------------------------------
(***************************************************************************)
(* A program is compiled, then it and its script run side by side, a       *)
(* statement of the one and a line of the other in turn.                   *)
(***************************************************************************)
EXTENDS SourceRun, ShellRun

VARIABLE turn
vars == <<prog, genVars, sourceVars, shellVars, turn>>

Init == GenInit /\ SourceInit /\ ShellInit /\ turn = "source"

Generate == GenStep /\ UNCHANGED <<prog, sourceVars, shellVars, turn>>
RunSource ==
    /\ Generated /\ (turn = "source" \/ ShellEnded)
    /\ SourceStep
    /\ turn' = "shell" /\ UNCHANGED <<prog, genVars, shellVars>>
RunScript ==
    /\ Generated /\ (turn = "shell" \/ Ended)
    /\ ShellStep
    /\ turn' = "source" /\ UNCHANGED <<prog, genVars, sourceVars>>
Next == Generate \/ RunSource \/ RunScript
Spec == Init /\ [][Next]_vars /\ WF_vars(Next)

---------------------------------------------------------------------------
(* The programs the generator is right about, as far as these runs go.     *)

\* A variable of the program that a function uses is always or never written
\* in blocks, and no call gives it its value.
Own(p, i, x) == FnOf(p, Declared(p, i, x)) = FnOf(p, i)
FunctionsShare(p) == \A i \in DOMAIN p : \A x \in Uses(p, i) : ~Own(p, i, x) =>
    \A j \in DOMAIN p : /\ x \in Writes(p, j) => x \in ControlAssigned(p)
                        /\ Calls(p[j]) /\ p[j].op = "set" => p[j].x # x
\* No name is declared twice in a function, nor twice outside, nor in both.
DeclaredIn(p, i) == IF p[i].op = "let" \/ Opens(p, i, p[i].x) THEN {p[i].x} ELSE {}
NoShadow(p) == \A i, j \in DOMAIN p : i # j /\ DeclaredIn(p, i) \cap DeclaredIn(p, j) # {} =>
    FnOf(p, i) # FnOf(p, j) /\ 0 \notin {FnOf(p, i), FnOf(p, j)}
\* ++x only where x is assigned by any number of rounds anyway.
UpdatesInBlocks(p) == \A i \in DOMAIN p : p[i].e.k = "up" => InControl(p, i) /\ p[i].op \in {"let", "set"}
\* A process of its own assigns only variables of its own, also by its calls.
KeepsOuter(p) == \A i \in DOMAIN p : \A b \in Around(p, i) :
    p[b].op = "each" \/ (p[b].op = "try" /\ ~Second(p, b, i)) =>
        /\ \A x \in Writes(p, i) : Declared(p, i, x) >= b
        /\ Calls(p[i]) => \A j \in DOMAIN p : \A x \in Writes(p, j) : Own(p, j, x)
NoReturnInside(p) == \A i \in DOMAIN p : p[i].op \in {"return", "break", "continue"} =>
    \A b \in Around(p, i) : /\ p[b].op = "try" => Second(p, b, i) /\ p[i].op # "return"
                            /\ p[b].op = "each" => p[i].op # "return"
\* A for is not continued, a call does not read what it is assigned to.
NoContinueInFor(p) == \A i \in DOMAIN p : p[i].op = "continue" => p[LoopAround(p, i)].op # "for"
NoSelfArgument(p) == \A i \in DOMAIN p : Calls(p[i]) /\ p[i].op = "set" => p[i].x # p[i].e.x
\* A value that is returned is used.
NoDropped(p) == \A i \in DOMAIN p : Calls(p[i]) /\ p[i].op = "call" => p[i].e.f \notin Gives(p)
\* A function is called after its end only: not by itself, and not before sh
\* has read it.
CalledAfter(p) == \A i \in DOMAIN p : Calls(p[i]) => Close(p, FnAt(p, p[i].e.f)) < i
\* No try within another, nor in a function.
TryOnce(p) == \A i \in DOMAIN p : p[i].op = "try" =>
    \A b \in Around(p, i) : p[b].op # "fn" /\ (p[b].op = "try" => Second(p, b, i))
Supported(p) ==
    /\ FunctionsShare(p) /\ NoShadow(p) /\ UpdatesInBlocks(p) /\ KeepsOuter(p) /\ NoReturnInside(p)
    /\ NoContinueInFor(p) /\ NoSelfArgument(p) /\ NoDropped(p) /\ CalledAfter(p) /\ TryOnce(p)

---------------------------------------------------------------------------
(* Properties.                                                           *)

\* Generator and machines keep their types: every name stands for a shell
\* variable of the program, and a line that stores something names one.
ScriptsTypeOK ==
    /\ at \in 1..(Len(prog) + 1) /\ pc \in 1..(Len(prog) + 1) /\ spc \in 1..(Len(prog) + 1)
    /\ paramMap \in [NamesOf(prog) -> ShellVars(prog)]
    /\ consts \in [ShellVars(prog) -> Nat \cup {Unknown}]
    /\ sh.vars \in [ShellVars(prog) -> Nat \cup {Empty}]
    /\ \A i \in DOMAIN lines : lines[i].op \in {"let", "set", "return", "for", "each"} => lines[i].to # NoVar
    /\ env \in [DOMAIN prog -> Nat]

InTurn == Generated /\ turn = "source"

\* A number written in place of a variable or a condition (genBinaryRHS,
\* staticComparisonResult) is the value it has whenever the line is run.
FoldsTrue == InTurn /\ ~Ended /\ pc = spc /\ ~Pending /\ St0.op \in {"let", "set", "log", "return", "if", "while"} =>
    (Run.e.k = "lit" => Run.e.n = ValueIn(St0.e))

\* The script prints what the program means to print, line for line.
PrintsAsMeant == InTurn => out = meant

\* The script is at the statement the program is at, in the same calls,
\* loops and try blocks.
StaysInStep == InTurn =>
    /\ pc = spc /\ Len(frames) = Len(stack)
    /\ \A k \in DOMAIN frames : k \in DOMAIN stack => frames[k].kind = stack[k].kind /\ frames[k].at = stack[k].at

\* The variables the code at pc can name hold in the script what they hold in
\* the program, those apart that a call under way will give their value: no
\* other call, process or variable has changed them.
ScopeOf(d) == IF FnOf(prog, d) = 0 THEN "" ELSE prog[FnOf(prog, d)].e.f
Named(d) == /\ prog[d].op \in {"let", "fn", "for", "each", "try"}
            /\ d \in Declarations(prog, pc, prog[d].x)
Awaited == {lines[stack[k].at].to : k \in {k \in DOMAIN stack : stack[k].kind = "call"}}
VariablesAgree == InTurn /\ ~Ended /\ got = NoValue => \A d \in DOMAIN prog :
    LET v == ShellVar(ScopeOf(d), prog[d].x)
    IN  Named(d) /\ v \notin Awaited => sh.vars[v] = env[d]

\* The return slot names the target of the innermost call that wants a value,
\* and nothing outside such calls: what nested calls put aside comes back.
ReturnsReachTheirCall ==
    LET wanting == {k \in DOMAIN stack : stack[k].kind = "call" /\ Into(stack[k].at)}
    IN  sh.slot = IF wanting = {} THEN NoVar ELSE lines[stack[Max(wanting)].at].to

\* Every script ends, as its program does.
ScriptEnds == <>(Generated /\ Ended /\ ShellEnded)
=============================================================================
