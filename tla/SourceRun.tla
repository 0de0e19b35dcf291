------------------------------ MODULE SourceRun ------------------------------
(***************************************************************************)
(* A program of Script run as the JavaScript it is written in, one         *)
(* statement at a time.  This is the reference the generated script is     *)
(* compared with; nothing here is taken from the compiler.                 *)
(***************************************************************************)
EXTENDS Script, Integers

VARIABLES pc,         \* the statement to run
          env,        \* the value of each declaration
          frames,     \* the calls, loops over commands and try blocks entered
          meant,      \* what is printed
          got         \* the value of the call at pc that has been made

sourceVars == <<pc, env, frames, meant, got>>

NoValue == -1
St0 == prog[pc]
Ended == pc > Len(prog)

DeclarationOf(x) == Declared(prog, pc, x)
\* The value of e, and the environment after it: ++x is also an assignment.
ValueIn(e) ==
    CASE e.k = "lit" -> e.n
      [] e.k = "var" -> env[DeclarationOf(e.x)]
      [] e.k \in {"plus", "up"} -> env[DeclarationOf(e.x)] + 1
      [] e.k = "less" -> IF env[DeclarationOf(e.x)] < e.n THEN 1 ELSE 0
      [] e.k = "call" -> got
EnvAfter(e) == IF e.k = "up" THEN [env EXCEPT ![DeclarationOf(e.x)] = @ + 1] ELSE env
Argument(e) == IF e.x = "" THEN e.n ELSE env[DeclarationOf(e.x)]

SourceInit ==
    /\ pc = 1 /\ env = [d \in DOMAIN prog |-> 0] /\ frames = <<>>
    /\ meant = <<>> /\ got = NoValue

Goto(i) == pc' = i /\ got' = NoValue
Below(k) == SubSeq(frames, 1, k - 1)
Push(kind, n) == frames' = Append(frames, [kind |-> kind, at |-> pc, n |-> n, env |-> env])
Innermost(kind) == Max({k \in DOMAIN frames : frames[k].kind = kind} \cup {0})

\* A call is made once; its statement is completed with the value it gave.
Pending == ~Ended /\ Calls(St0) /\ got = NoValue
Ready(op) == ~Ended /\ St0.op = op /\ ~Pending

SourceCall ==
    /\ Pending
    /\ Push("call", 0)
    /\ env' = [env EXCEPT ![FnAt(prog, St0.e.f)] = Argument(St0.e)]
    /\ Goto(FnAt(prog, St0.e.f) + 1)
    /\ UNCHANGED meant

SourceBind ==
    /\ Ready("let") \/ Ready("set")
    /\ LET d == IF St0.op = "let" THEN pc ELSE DeclarationOf(St0.x)
       IN  env' = [EnvAfter(St0.e) EXCEPT ![d] = ValueIn(St0.e)]
    /\ Goto(pc + 1)
    /\ UNCHANGED <<frames, meant>>

SourceLog ==
    /\ Ready("log")
    /\ meant' = Append(meant, <<ValueIn(St0.e), "line">>)
    /\ env' = EnvAfter(St0.e)
    /\ Goto(pc + 1)
    /\ UNCHANGED frames

\* The caller goes on with the value; the function's variables are its own.
Leave(value) ==
    LET k == Innermost("call")
        f == prog[frames[k].at].e.f
    IN  /\ pc' = frames[k].at /\ got' = value
        /\ env' = [d \in DOMAIN env |-> IF d \in BodyOf(prog, f) \cup {FnAt(prog, f)} THEN frames[k].env[d] ELSE env[d]]
        /\ frames' = Below(k)
SourceReturn == Ready("return") /\ Leave(ValueIn(St0.e)) /\ UNCHANGED meant

SourcePass ==     \* a call whose value is not used, a declaration of a function, the end of an if
    /\ \/ Ready("call") /\ Goto(pc + 1)
       \/ Ready("fn") /\ Goto(Close(prog, pc) + 1)
       \/ Ready("else") /\ prog[Block(prog, pc)].op = "if" /\ Goto(Close(prog, Block(prog, pc)) + 1)
       \/ Ready("end") /\ prog[Opener(prog, pc)].op \in {"if", "try"} /\ Goto(pc + 1)
    /\ UNCHANGED <<env, frames, meant>>

SourceTest ==
    /\ Ready("if") \/ Ready("while")
    /\ Goto(IF ValueIn(St0.e) # 0 THEN pc + 1
            ELSE IF St0.op = "if" THEN Otherwise(prog, pc) ELSE Close(prog, pc) + 1)
    /\ UNCHANGED <<env, frames, meant>>

\* A for counts from 0; every way to its next round counts on.
Round(b, i) == /\ env' = [env EXCEPT ![b] = i]
               /\ Goto(IF i < prog[b].e.n THEN b + 1 ELSE Close(prog, b) + 1)
SourceFor == Ready("for") /\ Round(pc, 0) /\ UNCHANGED <<frames, meant>>

\* The next round of the loop over a command that printed n lines.
NextLine(b, done) ==
    IF done < prog[b].e.n
    THEN /\ env' = [env EXCEPT ![b] = done + 1] /\ Goto(b + 1)
         /\ frames' = Append(Below(Innermost("each")), [kind |-> "each", at |-> b, n |-> done + 1, env |-> env])
    ELSE env' = env /\ Goto(Close(prog, b) + 1) /\ frames' = Below(Innermost("each"))
SourceEach ==
    /\ Ready("each")
    /\ IF St0.e.n = 0 THEN Goto(Close(prog, pc) + 1) /\ UNCHANGED <<env, frames>>
       ELSE Goto(pc + 1) /\ Push("each", 1) /\ env' = [env EXCEPT ![pc] = 1]
    /\ UNCHANGED meant

NextRound(b) ==
    CASE prog[b].op = "for" -> Round(b, env[b] + 1) /\ UNCHANGED frames
      [] prog[b].op = "while" -> Goto(b) /\ UNCHANGED <<env, frames>>
      [] prog[b].op = "each" -> NextLine(b, frames[Innermost("each")].n)
SourceRepeat ==
    /\ \/ Ready("end") /\ prog[Opener(prog, pc)].op \in Loops /\ NextRound(Opener(prog, pc))
       \/ Ready("continue") /\ NextRound(LoopAround(prog, pc))
    /\ UNCHANGED meant
SourceBreak ==
    /\ Ready("break")
    /\ Goto(Close(prog, LoopAround(prog, pc)) + 1)
    /\ frames' = IF prog[LoopAround(prog, pc)].op = "each" THEN Below(Innermost("each")) ELSE frames
    /\ UNCHANGED <<env, meant>>

SourceTry == Ready("try") /\ Goto(pc + 1) /\ Push("try", 0) /\ UNCHANGED <<env, meant>>
SourceTried ==
    /\ Ready("else") /\ prog[Block(prog, pc)].op = "try"
    /\ Goto(Close(prog, Block(prog, pc)) + 1)
    /\ frames' = Below(Innermost("try"))
    /\ UNCHANGED <<env, meant>>
\* A command that fails ends the innermost try; without one it only fails.
SourceFail ==
    /\ Ready("fail")
    /\ LET k == Innermost("try")
           b == frames[k].at
       IN  IF k = 0 THEN Goto(pc + 1) /\ UNCHANGED <<env, frames>>
           ELSE Goto(Otherwise(prog, b)) /\ frames' = Below(k) /\ env' = [env EXCEPT ![b] = 1]
    /\ UNCHANGED meant

SourceEndFn == Ready("end") /\ prog[Opener(prog, pc)].op = "fn" /\ Leave(0) /\ UNCHANGED meant

SourceStep ==
    \/ SourceCall \/ SourceBind \/ SourceLog \/ SourceReturn \/ SourcePass \/ SourceTest
    \/ SourceFor \/ SourceEach \/ SourceRepeat \/ SourceBreak \/ SourceTry \/ SourceTried
    \/ SourceFail \/ SourceEndFn
=============================================================================
