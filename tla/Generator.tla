----------------------------- MODULE Generator -----------------------------
(***************************************************************************)
(* The code generator over the programs of Script (internal/codegen): each *)
(* statement becomes a line of sh.  It keeps the shell variable every name *)
(* stands for and the numbers it knows variables to hold, which it writes  *)
(* in place of the variables.                                              *)
(***************************************************************************)
EXTENDS Script, Integers

CONSTANT Programs     \* the programs that are compiled
ASSUME ProgramsAssumption ==
    Programs \subseteq Seq([op : STRING, x : STRING, e : [k : STRING, x : STRING, n : Nat, f : STRING]])

VARIABLES at,         \* the statement to generate
          lines,      \* the line of each statement
          paramMap,   \* the shell variable of each name declared so far
          outer,      \* paramMap outside the function being generated
          currentFn,  \* that function
          consts      \* numConstMap: the number each shell variable is known to hold

genVars == <<at, lines, paramMap, outer, currentFn, consts>>

Unknown == -1

---------------------------------------------------------------------------
(* Shell variables: a global has its name, a local also that of its        *)
(* function, and a return keeps its value in a variable of its own.        *)

ShellVar(f, x) == <<f, x, 0>>
NoVar == ShellVar("", "")
ReturnValue(i) == <<"return", "", i>>
GlobalVars(p) == {p[i].x : i \in {i \in DOMAIN p : p[i].op = "let" /\ Block(p, i) = 0}}
ShellVars(p) == {ReturnValue(i) : i \in DOMAIN p} \cup {NoVar}
    \cup {ShellVar(f, x) : f \in FunctionsOf(p) \cup {""}, x \in NamesOf(p)}

\* Mutant: the variables of functions are named as those outside.
ResolveUnqualified(x) == IF paramMap[x] # NoVar THEN paramMap[x] ELSE ShellVar("", x)
\* Mutant: a name first met in a function has no variable.
ResolveKnown(x) == IF x \in GlobalVars(prog) THEN ShellVar("", x) ELSE paramMap[x]
ResolveVarName(x) ==
    CASE paramMap[x] # NoVar -> paramMap[x]
      [] paramMap[x] = NoVar /\ x \in GlobalVars(prog) -> ShellVar("", x)
      [] OTHER -> ShellVar(currentFn, x)

\* The names assigned where control may pass any number of times: their
\* values are not known anywhere in the program.
InControl(p, i) == \E b \in Around(p, i) : p[b].op # "fn"
\* Mutant: the update of a for is taken for a statement outside the loop.
AssignedWithoutUpdates(p) == UNION {Writes(p, i) : i \in {i \in DOMAIN p : p[i].op # "log" /\ InControl(p, i)}}
ControlAssigned(p) ==
    UNION {Writes(p, i) : i \in {i \in DOMAIN p : p[i].op # "log" /\ InControl(p, i)}}
        \cup {p[i].x : i \in {i \in DOMAIN p : p[i].op = "for"}}

---------------------------------------------------------------------------
(* Folding.                                                              *)

\* The number x is known to hold.
StaticNumber(x) == IF x \in ControlAssigned(prog) THEN Unknown ELSE consts[ResolveVarName(x)]
StaticValue(e) ==
    CASE e.k = "lit" -> e.n
      [] e.k = "var" -> StaticNumber(e.x)
      [] e.k = "plus" /\ StaticNumber(e.x) # Unknown -> StaticNumber(e.x) + 1
      [] OTHER -> Unknown
\* Mutant: the boundary is taken to be below itself.
StaticConditionLoose(e) == IF StaticNumber(e.x) = Unknown THEN Unknown ELSE IF StaticNumber(e.x) <= e.n THEN 1 ELSE 0
StaticCondition(e) ==
    CASE StaticNumber(e.x) = Unknown -> Unknown
      [] StaticNumber(e.x) < e.n -> 1
      [] OTHER -> 0

\* Expressions of sh: v is a shell variable.
Sh(k, v, n, f) == [k |-> k, v |-> v, n |-> n, f |-> f]
Number(n) == Sh("lit", NoVar, n, "")
ExprRHS(e) ==
    CASE e.k = "plus" /\ StaticValue(e) # Unknown -> Number(StaticValue(e))
      [] e.x = "" -> Sh(e.k, NoVar, e.n, e.f)
      [] OTHER -> Sh(e.k, ResolveVarName(e.x), e.n, e.f)
Condition(e) == IF StaticCondition(e) # Unknown THEN Number(StaticCondition(e))
                ELSE Sh("less", ResolveVarName(e.x), e.n, "")

---------------------------------------------------------------------------
(* One statement at a time.                                              *)

Line(op, to, e) == [op |-> op, to |-> to, e |-> e]
NoLine == Line("", NoVar, Number(0))

GenInit ==
    /\ prog \in Programs
    /\ at = 1 /\ lines = [i \in DOMAIN prog |-> NoLine]
    /\ paramMap = [x \in NamesOf(prog) |-> NoVar] /\ outer = paramMap /\ currentFn = ""
    /\ consts = [v \in ShellVars(prog) |-> Unknown]

Cur == prog[at]
GenReady(op) == at <= Len(prog) /\ Cur.op = op
Emit(to, e) == lines' = [lines EXCEPT ![at] = Line(Cur.op, to, e)]
EmitWord == Emit(NoVar, Number(0))
KeepFn == UNCHANGED <<outer, currentFn>>

\* Mutant: what is known of a variable outlives a call into it.
KnownAfterKept(e, v) == IF e.k = "call" THEN consts[v] ELSE StaticValue(e)
\* updateStaticNumberBinding; after a call into it nothing is known.
KnownAfter(e, v) == IF e.k = "call" THEN Unknown ELSE StaticValue(e)

GenLetDecl ==
    LET v == ResolveVarName(Cur.x)
    IN  /\ GenReady("let")
        /\ paramMap' = [paramMap EXCEPT ![Cur.x] = v]
        /\ consts' = [consts EXCEPT ![v] = KnownAfter(Cur.e, v)]
        /\ Emit(v, ExprRHS(Cur.e))
        /\ at' = at + 1 /\ KeepFn

GenAssignment ==
    LET v == ResolveVarName(Cur.x)
    IN  /\ GenReady("set")
        /\ consts' = [consts EXCEPT ![v] = KnownAfter(Cur.e, v)]
        /\ Emit(v, ExprRHS(Cur.e))
        /\ at' = at + 1 /\ KeepFn /\ UNCHANGED paramMap

GenExprStmt ==
    /\ GenReady("log") \/ GenReady("call")
    /\ Emit(NoVar, ExprRHS(Cur.e))
    /\ at' = at + 1 /\ KeepFn /\ UNCHANGED <<paramMap, consts>>

GenReturn ==
    /\ GenReady("return")
    /\ Emit(ReturnValue(at), ExprRHS(Cur.e))
    /\ at' = at + 1 /\ KeepFn /\ UNCHANGED <<paramMap, consts>>

GenWord ==
    /\ \E op \in {"fail", "break", "continue"} : GenReady(op)
    /\ EmitWord /\ at' = at + 1 /\ KeepFn /\ UNCHANGED <<paramMap, consts>>

\* genStaticIf: the branch of an if whose condition is known.
FoldedIf(e) == IF e.n # 0 THEN at + 1 ELSE Otherwise(prog, at)
GenIf ==
    LET e == Condition(Cur.e)
    IN  /\ GenReady("if")
        /\ Emit(NoVar, e)
        /\ at' = IF e.k = "lit" THEN FoldedIf(e) ELSE at + 1
        /\ KeepFn /\ UNCHANGED <<paramMap, consts>>
\* The second part of an if is left out when the first is known to run.
GenElse ==
    LET b == Block(prog, at)
    IN  /\ GenReady("else") /\ prog[b].op = "if"
        /\ EmitWord
        /\ at' = IF lines[b].e.k = "lit" THEN Close(prog, b) ELSE at + 1
        /\ KeepFn /\ UNCHANGED <<paramMap, consts>>

GenWhile ==
    /\ GenReady("while")
    /\ Emit(NoVar, Condition(Cur.e))
    /\ at' = at + 1 /\ KeepFn /\ UNCHANGED <<paramMap, consts>>

\* genCStyleFor: the let, then a while; the update ends its body.
GenCStyleFor ==
    LET v == ResolveVarName(Cur.x)
    IN  /\ GenReady("for")
        /\ paramMap' = [paramMap EXCEPT ![Cur.x] = v]
        /\ consts' = [consts EXCEPT ![v] = 0]
        /\ Emit(v, IF Cur.x \in ControlAssigned(prog) THEN Sh("less", v, Cur.e.n, "")
                   ELSE Number(IF 0 < Cur.e.n THEN 1 ELSE 0))
        /\ at' = at + 1 /\ KeepFn
GenUpdate ==
    LET b == Opener(prog, at)
    IN  /\ GenReady("end") /\ prog[b].op = "for"
        /\ consts' = [consts EXCEPT ![lines[b].to] = StaticValue(Plus(prog[b].x))]
        /\ Emit(lines[b].to, ExprRHS(Plus(prog[b].x)))
        /\ at' = at + 1 /\ KeepFn /\ UNCHANGED paramMap

\* genForShell and genTry: the variable of the loop is known in its body,
\* that of the catch in the catch, where it is also given its shell variable.
GenForShell ==
    LET v == ResolveVarName(Cur.x)
    IN  /\ GenReady("each")
        /\ paramMap' = [paramMap EXCEPT ![Cur.x] = v]
        /\ Emit(v, Number(Cur.e.n))
        /\ at' = at + 1 /\ KeepFn /\ UNCHANGED consts
GenTry ==
    /\ GenReady("try")
    /\ EmitWord /\ at' = at + 1 /\ KeepFn /\ UNCHANGED <<paramMap, consts>>
GenCatch ==
    LET x == prog[Block(prog, at)].x
        v == ResolveVarName(x)
    IN  /\ GenReady("else") /\ prog[Block(prog, at)].op = "try"
        /\ paramMap' = [paramMap EXCEPT ![x] = v]
        /\ Emit(v, Number(0))
        /\ at' = at + 1 /\ KeepFn /\ UNCHANGED consts

\* genModuleFnDecl: the body in a paramMap of its own.  What is known of
\* variables is not put back after it.
GenFnDecl ==
    /\ GenReady("fn")
    /\ outer' = paramMap /\ currentFn' = Cur.e.f
    /\ paramMap' = [x \in DOMAIN paramMap |-> IF x = Cur.x THEN ShellVar(Cur.e.f, x) ELSE NoVar]
    /\ Emit(ShellVar(Cur.e.f, Cur.x), Number(0))
    /\ at' = at + 1 /\ UNCHANGED consts

GenEnd ==
    LET b == Opener(prog, at)
    IN  /\ GenReady("end") /\ prog[b].op # "for"
        /\ EmitWord
        /\ paramMap' = CASE prog[b].op = "fn" -> outer
                         [] prog[b].op \in {"each", "try"} -> [paramMap EXCEPT ![prog[b].x] = NoVar]
                         [] OTHER -> paramMap
        /\ currentFn' = IF prog[b].op = "fn" THEN "" ELSE currentFn
        /\ at' = at + 1 /\ UNCHANGED <<outer, consts>>

Generated == at > Len(prog)
GenStep ==
    \/ GenLetDecl \/ GenAssignment \/ GenExprStmt \/ GenReturn \/ GenWord \/ GenIf \/ GenElse
    \/ GenWhile \/ GenCStyleFor \/ GenUpdate \/ GenForShell \/ GenTry \/ GenCatch \/ GenFnDecl \/ GenEnd
=============================================================================
