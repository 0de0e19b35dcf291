------------------------------ MODULE ShellRun ------------------------------
(***************************************************************************)
(* The generated script run by sh, one line of Generator at a time.  The   *)
(* body of a loop over a command and that of a try are processes of their  *)
(* own, whose variables are lost when they end.                            *)
(***************************************************************************)
EXTENDS Generator

VARIABLES spc,     \* the line to run
          sh,      \* the process: variables, functions, the return slot, slots put aside
          stack,   \* the calls and the processes entered
          out,     \* what is printed
          back     \* has the call of this line returned?

shellVars == <<spc, sh, stack, out, back>>

Empty == -1
ShellInit ==
    /\ spc = 1 /\ stack = <<>> /\ out = <<>> /\ back = FALSE
    /\ sh = [vars |-> [v \in ShellVars(prog) |-> Empty], fns |-> {}, slot |-> NoVar,
              olds |-> [i \in DOMAIN prog |-> NoVar]]

ShellEnded == spc > Len(prog)
Run == lines[spc]
Num(v) == IF sh.vars[v] = Empty THEN 0 ELSE sh.vars[v]
Result(e) ==
    CASE e.k = "lit" -> e.n
      [] e.k = "var" -> sh.vars[e.v]
      [] e.k \in {"plus", "up"} -> Num(e.v) + 1
      [] e.k = "less" -> IF sh.vars[e.v] # Empty /\ Num(e.v) < e.n THEN 1 ELSE 0
      [] e.k = "call" -> sh.vars[Run.to]
VarsAfter(e) == IF e.k = "up" THEN [sh.vars EXCEPT ![e.v] = Num(e.v) + 1] ELSE sh.vars
With(vars) == [sh EXCEPT !.vars = vars]

To(i) == spc' = i /\ back' = FALSE
Entry(kind, n) == [kind |-> kind, at |-> spc, n |-> n, sh |-> sh]
InnerEntry == stack[Len(stack)]
Under(k) == SubSeq(stack, 1, k - 1)
NoEntry == Under(Len(stack))

MustCall == ~ShellEnded /\ Run.e.k = "call" /\ Run.op # "fn" /\ ~back
Runs(op) == ~ShellEnded /\ Run.op = op /\ ~MustCall

\* Mutant: the slot is not put aside.
SlotForgotten(i) == [sh EXCEPT !.vars[lines[i].to] = Empty, !.slot = lines[i].to]
\* emitCommandIntoVar before the command: the slot is put aside and pointed
\* at the target.
SlotInto(i) == [sh EXCEPT !.olds[i] = sh.slot, !.vars[lines[i].to] = Empty, !.slot = lines[i].to]
\* A call whose value is not used leaves the slot as it is.
Into(i) == lines[i].to # NoVar

\* set -e ends each process a command fails in, up to the outermost try;
\* outside of try the script goes on as step says.
Failing(step) ==
    LET tries == {k \in DOMAIN stack : stack[k].kind = "try"}
        first == stack[Min(tries)]
        catch == Otherwise(prog, first.at)
    IN  IF tries = {} THEN step /\ UNCHANGED stack
        ELSE /\ To(catch) /\ stack' = Under(Min(tries))
             /\ sh' = [first.sh EXCEPT !.vars[lines[catch - 1].to] = 1]

\* emitCommandIntoVar after the command.
Restored(s, i) == IF Into(i) THEN [s EXCEPT !.slot = s.olds[i]] ELSE s
\* A function sh has not read yet is a command that is not found.
ShellCall ==
    LET f     == FnAt(prog, Run.e.f)
        begun == IF Into(spc) THEN SlotInto(spc) ELSE sh
        arg   == IF Run.e.v = NoVar THEN Run.e.n ELSE begun.vars[Run.e.v]
    IN  /\ MustCall
        /\ IF Run.e.f \in sh.fns
           THEN /\ sh' = [begun EXCEPT !.vars[lines[f].to] = arg]
                /\ stack' = Append(stack, Entry("call", 0))
                /\ To(f + 1)
           ELSE Failing(sh' = Restored(begun, spc) /\ back' = TRUE /\ UNCHANGED spc)
        /\ UNCHANGED out

ShellAssign ==
    /\ Runs("let") \/ Runs("set")
    /\ sh' = With([VarsAfter(Run.e) EXCEPT ![Run.to] = Result(Run.e)])
    /\ To(spc + 1)
    /\ UNCHANGED <<stack, out>>

ShellPrint ==
    /\ Runs("log")
    /\ out' = Append(out, <<Result(Run.e), "line">>)
    /\ sh' = With(VarsAfter(Run.e))
    /\ To(spc + 1)
    /\ UNCHANGED stack

\* return leaves a function; in a process of its own it only ends that.
LeaveWith(s) ==
    /\ stack' = NoEntry
    /\ IF InnerEntry.kind = "call"
       THEN spc' = InnerEntry.at /\ back' = TRUE /\ sh' = Restored(s, InnerEntry.at)
       ELSE To(Close(prog, InnerEntry.at) + 1) /\ sh' = InnerEntry.sh
\* Mutant: the value is printed even if the caller gave a variable for it.
ReturnPrinted(vars, v) == LeaveWith(With(vars)) /\ out' = Append(out, <<v, "">>)
\* The lines of genReturn: the value into the variable the slot names.
ReturnValueOf(vars, v) ==
    IF sh.slot = NoVar THEN LeaveWith(With(vars)) /\ out' = Append(out, <<v, "">>)
    ELSE LeaveWith(With([vars EXCEPT ![sh.slot] = v])) /\ UNCHANGED out
ShellReturn ==
    /\ Runs("return")
    /\ ReturnValueOf([VarsAfter(Run.e) EXCEPT ![Run.to] = Result(Run.e)], Result(Run.e))

ShellPass ==
    /\ \/ Runs("call") /\ To(spc + 1)
       \/ Runs("else") /\ prog[Block(prog, spc)].op = "if" /\ To(Close(prog, Block(prog, spc)) + 1)
       \/ Runs("end") /\ prog[Opener(prog, spc)].op \in {"if", "try"} /\ To(spc + 1)
    /\ UNCHANGED <<sh, stack, out>>
ShellFn ==
    /\ Runs("fn") /\ To(Close(prog, spc) + 1)
    /\ sh' = [sh EXCEPT !.fns = @ \cup {prog[spc].e.f}] /\ UNCHANGED <<stack, out>>

ShellTest ==
    /\ Runs("if") \/ Runs("while")
    /\ To(IF Result(Run.e) = 1 THEN spc + 1
          ELSE IF Run.op = "if" THEN Otherwise(prog, spc) ELSE Close(prog, spc) + 1)
    /\ UNCHANGED <<sh, stack, out>>

\* The while of a C-style for at b, with the variables vars.
TestFor(b, vars) ==
    /\ sh' = With(vars)
    /\ To(IF (lines[b].e.k = "lit" /\ lines[b].e.n = 1) \/ (lines[b].e.k = "less" /\ vars[lines[b].to] < lines[b].e.n)
          THEN b + 1 ELSE Close(prog, b) + 1)
ShellFor ==
    /\ Runs("for")
    /\ TestFor(spc, [sh.vars EXCEPT ![Run.to] = 0])
    /\ UNCHANGED <<stack, out>>

ShellEach ==
    /\ Runs("each")
    /\ IF Run.e.n = 0 THEN To(Close(prog, spc) + 1) /\ UNCHANGED <<stack, sh>>
       ELSE To(spc + 1) /\ stack' = Append(stack, Entry("each", 1)) /\ sh' = With([sh.vars EXCEPT ![Run.to] = 1])
    /\ UNCHANGED out
NextRead(b) ==
    IF InnerEntry.n < lines[b].e.n
    THEN /\ To(b + 1)
         /\ stack' = Append(NoEntry, [InnerEntry EXCEPT !.n = @ + 1])
         /\ sh' = With([sh.vars EXCEPT ![lines[b].to] = InnerEntry.n + 1])
    ELSE To(Close(prog, b) + 1) /\ stack' = NoEntry /\ sh' = InnerEntry.sh

\* The end of a loop's body; continue goes on without the update of a for.
ShellDone ==
    LET b == Opener(prog, spc) IN
    /\ Runs("end") /\ prog[b].op \in Loops
    /\ CASE prog[b].op = "for" -> TestFor(b, [sh.vars EXCEPT ![Run.to] = Result(Run.e)]) /\ UNCHANGED stack
         [] prog[b].op = "while" -> To(b) /\ UNCHANGED <<sh, stack>>
         [] prog[b].op = "each" -> NextRead(b)
    /\ UNCHANGED out
ShellContinue ==
    LET b == LoopAround(prog, spc) IN
    /\ Runs("continue")
    /\ CASE prog[b].op = "for" -> TestFor(b, sh.vars) /\ UNCHANGED stack
         [] prog[b].op = "while" -> To(b) /\ UNCHANGED <<sh, stack>>
         [] prog[b].op = "each" -> NextRead(b)
    /\ UNCHANGED out
ShellBreak ==
    LET b == LoopAround(prog, spc) IN
    /\ Runs("break")
    /\ To(Close(prog, b) + 1)
    /\ IF prog[b].op = "each" THEN stack' = NoEntry /\ sh' = InnerEntry.sh ELSE UNCHANGED <<sh, stack>>
    /\ UNCHANGED out

ShellTry == Runs("try") /\ To(spc + 1) /\ stack' = Append(stack, Entry("try", 0)) /\ UNCHANGED <<sh, out>>
ShellTried ==
    LET b == Block(prog, spc) IN
    /\ Runs("else") /\ prog[b].op = "try"
    /\ To(Close(prog, b) + 1) /\ stack' = NoEntry /\ sh' = InnerEntry.sh
    /\ UNCHANGED out
ShellFail == Runs("fail") /\ Failing(To(spc + 1) /\ UNCHANGED sh) /\ UNCHANGED out

ShellEndFn ==
    /\ Runs("end") /\ prog[Opener(prog, spc)].op = "fn"
    /\ LeaveWith(sh) /\ UNCHANGED out

ShellStep ==
    \/ ShellCall \/ ShellAssign \/ ShellPrint \/ ShellReturn \/ ShellPass \/ ShellFn \/ ShellTest \/ ShellFor
    \/ ShellEach \/ ShellDone \/ ShellContinue \/ ShellBreak \/ ShellTry \/ ShellTried \/ ShellFail
    \/ ShellEndFn
=============================================================================
