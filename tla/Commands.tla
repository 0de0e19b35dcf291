------------------------------ MODULE Commands ------------------------------
(***************************************************************************)
(* What becomes of the commands of a program: the analysis, the lines the  *)
(* generator writes for every statement (internal/codegen/codegen.go), and *)
(* the execution of the script, with what the program means kept beside    *)
(* it.                                                                     *)
(*                                                                         *)
(* In the script a command has no existence of its own: a run is a line,   *)
(* and what it gave is in the shell variable named after the command's     *)
(* identity.  In the program a command is an object that variables denote. *)
(***************************************************************************)
EXTENDS CmdAnalysis

CONSTANT MaxRounds   \* bound on the times a block is executed in a row

ASSUME RoundsAssumption == MaxRounds \in Nat \ {0}

VARIABLES
  binding,   \* the generator's cmdScope: one scope for the whole program
  chains,    \* cmdChains: the statement whose value a lazy variable stands for
  code,      \* what the script has for every statement
  clock,     \* number of statements executed
  rounds,    \* times the block being executed was entered
  shell,     \* shell variables: values, and exit codes (<name>_exit)
  env,       \* what the declarations of the program denote
  runs,      \* last run of every object of the program
  did,       \* what the script ran and printed in the last statement
  meant      \* what the program says it should have

generatorVars == <<binding, chains, code>>
executionVars == <<clock, rounds, shell, env, runs, did, meant>>
commandVars == <<analysisVars, generatorVars, executionVars>>

\* The text of a command: the $() it comes from and the chains put upon it.
Text == [site : Index, chained : SUBSET Index]
NoText == [site |-> 0, chained |-> {}]
Plain(n) == [site |-> n, chained |-> {}]
Chain(t, n) == [t EXCEPT !.chained = @ \cup {n}]

\* What is read from a run: which stream, when it ran, what ran.
Value(stream, when, text) == [stream |-> stream, when |-> when, text |-> text]
Empty == Value("none", 0, NoText)

Line == [runs : Text, into : Variable \cup {NoVar}, stream : {"stdout", "stderr"},
         exit : Variable \cup {NoVar}, copy : Variable \cup {NoVar}, from : Variable \cup {NoVar},
         shows : Variable \cup {NoVar}, code : BOOLEAN]

NoLine == [runs |-> NoText, into |-> NoVar, stream |-> "stdout",
           exit |-> NoVar, copy |-> NoVar, from |-> NoVar, shows |-> NoVar, code |-> FALSE]

Silent == [ran |-> NoText, shown |-> Empty]

-----------------------------------------------------------------------------
(* The generator                                                           *)

\* Mutant of ChainText: a name runs the literal of its identity.
RootText(v) == Plain(ids[binding[v]].root)

\* genCmdChain: the text behind name v, through the chains and clones that name
\* other variables; there is none if the names go round.
ChainText(v) ==
  LET text[k \in 0..MaxStatements] ==
        [u \in Variable |->
           LET n == chains[u]
           IN IF n = 0 \/ k = 0 THEN NoText
              ELSE IF prog[n].op = "literal" THEN Plain(n)
              ELSE IF prog[n].op = "chain" THEN Chain(text[k - 1][prog[n].y], n)
              ELSE text[k - 1][prog[n].y]]
  IN text[MaxStatements][v]

\* Mutant of CaptureVar: named after the variable of the literal.
RootCaptureVar(id) == ids[rooted[ids[id].root]].name

\* CaptureVarName; an identity without a name has a variable no program uses.
CaptureVar(id) == ids[id].name

\* genRunCall: the output is kept if something reads it.
RunLine(id, text) ==
  LET kept == ids[id].stderr \/ ids[id].text
  IN [NoLine EXCEPT !.runs = text,
                    !.into = IF kept THEN CaptureVar(id) ELSE NoVar,
                    !.stream = IF ids[id].stderr THEN "stderr" ELSE "stdout",
                    !.exit = IF ids[id].status THEN CaptureVar(id) ELSE NoVar]

\* isLazyCommandBinding: the identity a let registers without a line of script.
LazyId(n) ==
  LET s == prog[n]
  IN IF s.op = "literal" THEN rooted[n]
     ELSE IF s.op = "clone" /\ cloned[n] # NoId THEN cloned[n]
     ELSE binding[s.y]

\* let x = <..>.run().readStdout(): the run, and a copy of what it captured.
TakeLine(s, id, text) ==
  [RunLine(id, text) EXCEPT !.copy = IF CaptureVar(id) = s.x THEN NoVar ELSE s.x,
                            !.from = CaptureVar(id)]

LineOf(s) ==
  CASE s.op \in {"literal", "clone", "chain"} -> NoLine
    [] s.op \in {"run", "runClone"} -> RunLine(binding[s.y], ChainText(s.y))
    [] s.op = "take" -> TakeLine(s, binding[s.y], ChainText(s.y))
    [] s.op = "fetch" -> TakeLine(s, rooted[pc], Plain(pc))
    [] s.op \in {"for", "forRun"} -> [NoLine EXCEPT !.runs = Plain(pc)]
    [] s.op \in Reads -> [NoLine EXCEPT !.shows = CaptureVar(binding[s.y]),
                                        !.code = (s.op = "status")]
    [] s.op = "print" -> [NoLine EXCEPT !.shows = s.y]

Generate ==
  /\ pass = "generate"
  /\ LET s == prog[pc]
     IN /\ code' = Append(code, LineOf(s))
        /\ IF s.op \in {"literal", "clone", "chain"}
           THEN /\ binding' = [binding EXCEPT ![s.x] = LazyId(pc)]
                /\ chains' = [chains EXCEPT ![s.x] = pc]
                /\ ids' = [ids EXCEPT ![LazyId(pc)].name = IF @ = NoVar THEN s.x ELSE @]
           ELSE UNCHANGED <<binding, chains, ids>>
  /\ Advance("generate", "start")
  /\ UNCHANGED <<prog, scope, rooted, cloned, rerun, warned, executionVars>>

-----------------------------------------------------------------------------
(* Execution                                                               *)

\* A block is passed over or entered, and at its end repeated or left.
Entering(n) ==
  IF n <= Len(prog) /\ prog[n].block THEN {n, BlockEnd(prog, n) + 1} ELSE {n}

Following(n) ==
  IF ~prog[n].block THEN Entering(n + 1)
  ELSE IF n < BlockEnd(prog, n) THEN {n + 1}
  ELSE {n + 1} \cup (IF rounds < MaxRounds THEN {BlockStart(prog, n)} ELSE {})

\* One line of the script.
ExecuteLine(line) ==
  LET got == Value(line.stream, clock', line.runs)
      out == IF line.into = NoVar THEN shell.out ELSE [shell.out EXCEPT ![line.into] = got]
  IN /\ shell' = [out |-> IF line.copy = NoVar THEN out
                          ELSE [out EXCEPT ![line.copy] = out[line.from]],
                  exit |-> IF line.exit = NoVar THEN shell.exit
                           ELSE [shell.exit EXCEPT ![line.exit] = Value("status", clock', line.runs)]]
     /\ did' = [ran |-> line.runs,
                shown |-> IF line.shows = NoVar THEN Empty
                          ELSE IF line.code THEN shell.exit[line.shows] ELSE shell.out[line.shows]]

\* The last run of an object, as one of its streams shows it.
LastRun(stream, obj) ==
  IF obj \in DOMAIN runs THEN Value(stream, runs[obj].when, runs[obj].text) ELSE Empty

\* One statement of the program: literals and clones make objects, a chain is a
\* way of running the object it is put upon, a read shows the object's last run.
MeanStatement(s) ==
  LET of == env[DeclOf(prog, s.y, pc)]
      new == <<pc, clock'>>
      ranNow == [when |-> clock', text |-> of.text]
  IN CASE s.op = "literal" ->
            /\ env' = [env EXCEPT ![pc] = [obj |-> new, text |-> Plain(pc), value |-> Empty]]
            /\ meant' = Silent /\ UNCHANGED runs
       [] s.op = "clone" ->
            /\ env' = [env EXCEPT ![pc] = [of EXCEPT !.obj = new]]
            /\ meant' = Silent /\ UNCHANGED runs
       [] s.op = "chain" ->
            /\ env' = [env EXCEPT ![pc] = [of EXCEPT !.text = Chain(@, pc)]]
            /\ meant' = Silent /\ UNCHANGED runs
       [] s.op \in {"run", "take"} ->
            /\ runs' = [o \in DOMAIN runs \cup {of.obj} |-> IF o = of.obj THEN ranNow ELSE runs[o]]
            /\ meant' = [ran |-> of.text, shown |-> Empty]
            /\ env' = IF s.op = "run" THEN env
                      ELSE [env EXCEPT ![pc].value = Value("stdout", clock', of.text)]
       [] s.op = "runClone" -> meant' = [ran |-> of.text, shown |-> Empty] /\ UNCHANGED <<env, runs>>
       [] s.op \in {"fetch", "for", "forRun"} ->
            /\ env' = [env EXCEPT ![pc].value = Value("stdout", clock', Plain(pc))]
            /\ meant' = [ran |-> Plain(pc), shown |-> Empty] /\ UNCHANGED runs
       [] s.op \in Reads ->
            meant' = [ran |-> NoText, shown |-> LastRun(s.op, of.obj)] /\ UNCHANGED <<env, runs>>
       [] s.op = "print" -> meant' = [ran |-> NoText, shown |-> of.value] /\ UNCHANGED <<env, runs>>

Start ==
  /\ pass = "start"
  /\ \E n \in Entering(1) : pc' = n /\ pass' = IF n <= Len(prog) THEN "execute" ELSE "done"
  /\ UNCHANGED <<prog, scope, ids, rooted, cloned, rerun, warned, generatorVars, executionVars>>

Execute ==
  /\ pass = "execute"
  /\ clock' = clock + 1
  /\ ExecuteLine(code[pc])
  /\ MeanStatement(prog[pc])
  /\ \E n \in Following(pc) :
       /\ pc' = n
       /\ rounds' = IF n <= pc THEN rounds + 1
                    ELSE IF prog[pc].block /\ n <= BlockEnd(prog, pc) THEN rounds ELSE 1
       /\ pass' = IF n <= Len(prog) THEN "execute" ELSE "done"
  /\ UNCHANGED <<prog, scope, ids, rooted, cloned, rerun, warned, generatorVars>>

-----------------------------------------------------------------------------
CommandsInit ==
  /\ AnalysisInit
  /\ binding = Unbound /\ chains = [v \in Variable |-> 0] /\ code = << >>
  /\ clock = 0 /\ rounds = 1
  /\ shell = [out |-> [v \in Variable |-> Empty], exit |-> [v \in Variable |-> Empty]]
  /\ env = [n \in Index |-> [obj |-> <<0, 0>>, text |-> NoText, value |-> Empty]]
  /\ runs = << >> /\ did = Silent /\ meant = Silent

CommandsNext ==
  \/ AnalysisNext /\ UNCHANGED <<generatorVars, executionVars>>
  \/ Generate
  \/ Start
  \/ Execute

CommandsSpec == CommandsInit /\ [][CommandsNext]_commandVars

-----------------------------------------------------------------------------
(* Properties                                                              *)

\* Types: every identity has its shape, every statement its line, and what is
\* run and shown is the text and the value of statements of the program.
CommandsTypeOK ==
  /\ prog \in Seq(Statement) /\ Len(prog) <= MaxStatements
  /\ pass \in {"write", "allocate", "scan", "warn", "rejected", "generate", "start", "execute", "done"}
  /\ pc \in 1..(MaxStatements + 1)
  /\ pass \in {"allocate", "scan", "generate", "execute"} => pc <= Len(prog)
  /\ ids \in Seq(Identity) /\ warned \subseteq DOMAIN ids /\ rerun \in BOOLEAN
  /\ \A v \in Variable : {scope.outer[v], scope.inner[v], binding[v]} \subseteq 0..Len(ids)
  /\ \A n \in Index : {rooted[n], cloned[n]} \subseteq 0..Len(ids)
  /\ chains \in [Variable -> Index] /\ code \in Seq(Line)
  /\ pass \in {"start", "execute", "done"} => Len(code) = Len(prog)
  /\ rounds \in 1..MaxRounds
  /\ did.ran \in Text /\ meant.ran \in Text

\* phase2Expr's "command already run" is raised exactly for the programs in which
\* two places run the same command, however many variables, chains, clones and
\* blocks lie between them.
VerdictIsRight ==
  Documented(prog) /\ pass \notin {"write", "allocate", "scan", "warn"}
    => (pass = "rejected" <=> RunsTwice(prog))

\* Every statement of the script runs the command the program runs there, with
\* the chains put upon the variable it is run by (genRunCall, genCmdChain).
RanAsMeant == Documented(prog) => did.ran = meant.ran

\* What the script prints is what the last run of the command read gave, and not
\* what another command, an earlier run or another stream left in the variable
\* (CaptureVarName, genRunCall, the terminal reads).
ShownAsMeant == Documented(prog) => did.shown = meant.shown

\* "command declared but never run" is said of the commands that nothing runs or
\* clones, and of no other (emitWarnings).
WarnsIdle ==
  Documented(prog) /\ pass \in {"start", "execute", "done"}
    => {ids[i].name : i \in warned} = {prog[n].x : n \in Idle(prog)}

=============================================================================
