------------------------------ MODULE Program -------------------------------
(***************************************************************************)
(* A program from its sources to the end of its run: the compilation       *)
(* (module Build), then sh executing what was written, either the bundle   *)
(* or the entry script and the files it sources (internal/codegen/         *)
(* modules.go: emit, emitSplit, buildImportedMaps, rewriteExpr).           *)
(*                                                                         *)
(* Generated text is a sequence of instructions.  A module's body is one   *)
(* of them: it defines the module's functions, which the source declares   *)
(* before its statements, and then makes the calls of its statements.      *)
(***************************************************************************)
EXTENDS Build, Lists

VARIABLES
  started,    \* sh has been started on the script
  frames,     \* sh: the text left to execute of each file being sourced
  guards,     \* sh: the guard variables that are set
  fns,        \* sh: function name -> the file that defined it last
  trace,      \* the roots set and the files whose code ran, in order
  dispatched  \* the calls made: who called what, and the file that answered

shVars == <<started, frames, guards, fns, trace, dispatched>>
programVars == <<buildVars, shVars>>

Instr == [op : {"root", "guard", "source", "shell", "body", "raw"}, path : Path]
Do(op, p) == [op |-> op, path |-> p]

\* Mutant: the guard of a module is named after its output file, whose path is
\* no shell identifier.
GuardByOutput(i) == IF i.op = "guard" THEN <<"lib", OutOf[i.path]>> ELSE <<"sh", i.path>>

\* Guard variables: _BESHT_LOADED_<prefix> of a module, and
\* _BESHT_SHELL_LOADED_<hash of the path> of a raw shell file.
Guard(i) == IF i.op = "guard" THEN <<"lib", PrefixOf[i.path]>> ELSE <<"sh", i.path>>

-----------------------------------------------------------------------------
(* The text of a module. *)

\* An import of a declaration file leaves no trace in the text.
SourcedImports == {imp \in Import : IsShell(imp) \/ imp.path \notin Decl}

ImportText(p) ==
  LET kept == Kept(tree.imports[p], SourcedImports)
  IN [i \in 1..Len(kept) |-> Do(IF IsShell(kept[i]) THEN "shell" ELSE "source", kept[i].path)]

\* Mutant: the library sets no guard.
LibraryTextUnguarded(p) == ImportText(p) \o <<Do("body", p)>>

\* Mutant: the library's own code comes before what it sources.
LibraryTextBodyFirst(p) == <<Do("guard", p), Do("body", p)>> \o ImportText(p)

LibraryText(p) == <<Do("guard", p)>> \o ImportText(p) \o <<Do("body", p)>>

EntryText == <<Do("root", Entry)>> \o ImportText(Entry) \o <<Do("body", Entry)>>

\* emit: modules without statements and imports are left out, Besht imports
\* disappear, and raw shell files are sourced where they are imported.
EmittedInBundle(p) == tree.content[p] # "empty" \/ tree.imports[p] # << >>

ShellText(p) ==
  LET kept == Kept(tree.imports[p], {imp \in Import : IsShell(imp)})
  IN [i \in 1..Len(kept) |-> Do("shell", kept[i].path)]

\* The bundle after each number of modules.
BundleAfter ==
  LET text[n \in 0..Len(modules)] ==
        IF n = 0 THEN << >>
        ELSE IF EmittedInBundle(modules[n])
             THEN text[n - 1] \o ShellText(modules[n]) \o <<Do("body", modules[n])>>
             ELSE text[n - 1]
  IN text

BundleText == BundleAfter[Len(modules)]

-----------------------------------------------------------------------------
(* The names of functions. *)

\* What the import list of p binds n to, import by import.
Binding(p, i, n) ==
  LET imp == tree.imports[p][i] IN
    IF n \notin imp.names THEN {}
    ELSE IF IsShell(imp) \/ imp.path \in Decl THEN {BareKey(n)}
    ELSE IF n \in tree.exports[imp.path] THEN {QualKey(imp.path, n)} ELSE {}

BindingImports(p, n) == {i \in DOMAIN tree.imports[p] : Binding(p, i, n) # {}}

\* Mutant: a function declared anywhere takes the place of the module's own.
CalleeDeclFirst(p, n) ==
  IF BindingImports(p, n) # {} THEN CHOOSE k \in Binding(p, Max(BindingImports(p, n)), n) : TRUE
  ELSE IF n \in decls THEN BareKey(n)
  ELSE QualKey(p, n)

\* The shell function that a call of n in p is rewritten to: the last import
\* that binds n, else the bare name of a function some file declares and p does
\* not define, else p's own prefix.
Callee(p, n) ==
  IF BindingImports(p, n) # {} THEN CHOOSE k \in Binding(p, Max(BindingImports(p, n)), n) : TRUE
  ELSE IF n \in decls \ tree.defs[p] THEN BareKey(n)
  ELSE QualKey(p, n)

-----------------------------------------------------------------------------
(* sh. *)

ProgramInit ==
  /\ BuildInit
  /\ started = FALSE
  /\ frames = << >>
  /\ guards = {}
  /\ fns = [k \in Key |-> NoPath]
  /\ trace = << >>
  /\ dispatched = {}

CompileStep == BuildNext /\ UNCHANGED shVars

\* sh is started on the script that was built, once.
StartScript ==
  /\ stage = "built"
  /\ ~started
  /\ started' = TRUE
  /\ frames' = << IF mode = "bundle" THEN BundleText ELSE EntryText >>
  /\ UNCHANGED <<buildVars, guards, fns, trace, dispatched>>

Depth == Len(frames)
Text == frames[Depth]
Outer == SubSeq(frames, 1, Depth - 1)

\* The next instruction is an op.
Executing(op) == frames # << >> /\ Text # << >> /\ Head(Text).op = op
Operand == Head(Text).path
Rest == Append(Outer, Tail(Text))

\* The end of a sourced file, or of the script.
EndOfFile ==
  /\ frames # << >> /\ Text = << >>
  /\ frames' = Outer
  /\ UNCHANGED <<buildVars, started, guards, fns, trace, dispatched>>

SetRoot ==
  /\ Executing("root")
  /\ frames' = Rest
  /\ trace' = Append(trace, Head(Text))
  /\ UNCHANGED <<buildVars, started, guards, fns, dispatched>>

GuardReturns ==
  /\ Executing("guard")
  /\ Guard(Head(Text)) \in guards
  /\ frames' = Outer
  /\ UNCHANGED <<buildVars, started, guards, fns, trace, dispatched>>

GuardPasses ==
  /\ Executing("guard")
  /\ Guard(Head(Text)) \notin guards
  /\ frames' = Rest
  /\ guards' = guards \cup {Guard(Head(Text))}
  /\ UNCHANGED <<buildVars, started, fns, trace, dispatched>>

\* The text in the output file of p.
FileText(p) == IF disk[OutOf[p]] = Entry THEN EntryText ELSE LibraryText(disk[OutOf[p]])

SourceModule ==
  /\ Executing("source")
  /\ frames' = Append(Rest, FileText(Operand))
  /\ UNCHANGED <<buildVars, started, guards, fns, trace, dispatched>>

\* Mutant: a raw shell file is sourced by every module that imports it.
SourceShellAlways ==
  /\ Executing("shell")
  /\ guards' = guards \cup {Guard(Head(Text))}
  /\ frames' = Append(Rest, <<Do("raw", Operand)>>)
  /\ UNCHANGED <<buildVars, started, fns, trace, dispatched>>

SourceShell ==
  /\ Executing("shell")
  /\ guards' = guards \cup {Guard(Head(Text))}
  /\ frames' = IF Guard(Head(Text)) \in guards THEN Rest ELSE Append(Rest, <<Do("raw", Operand)>>)
  /\ UNCHANGED <<buildVars, started, fns, trace, dispatched>>

\* A raw shell file defines its functions under their own names.
RunShellFile ==
  /\ Executing("raw")
  /\ frames' = Rest
  /\ fns' = [k \in Key |-> IF k[1] = Bare /\ k[2] \in tree.defs[Operand] THEN Operand ELSE fns[k]]
  /\ trace' = Append(trace, Head(Text))
  /\ UNCHANGED <<buildVars, started, guards, dispatched>>

\* A module's code: its functions get their qualified names, and its calls
\* reach whichever file defined the name they were rewritten to.
RunBody ==
  /\ Executing("body")
  /\ frames' = Rest
  /\ fns' = [k \in Key |-> IF k[1] = PrefixOf[Operand] /\ k[2] \in tree.defs[Operand]
                           THEN Operand ELSE fns[k]]
  /\ dispatched' = dispatched \cup
       {[caller |-> Operand, name |-> n, owner |-> fns'[Callee(Operand, n)]] : n \in tree.calls[Operand]}
  /\ trace' = Append(trace, Head(Text))
  /\ UNCHANGED <<buildVars, started, guards>>

ShStep ==
  \/ EndOfFile \/ SetRoot \/ GuardReturns \/ GuardPasses
  \/ SourceModule \/ SourceShell \/ RunShellFile \/ RunBody

ProgramNext == CompileStep \/ StartScript \/ ShStep

ProgramSpec == ProgramInit /\ [][ProgramNext]_programVars

\* The compiler runs until it ends; a script that was built is run, to its end.
FairProgramSpec ==
  /\ ProgramSpec
  /\ WF_programVars(CompileStep)
  /\ WF_programVars(StartScript)
  /\ WF_programVars(ShStep)

-----------------------------------------------------------------------------

Bodies == Kept(trace, {Do("body", p) : p \in Path})
BodyPaths == [i \in 1..Len(Bodies) |-> Bodies[i].path]

\* The modules whose code is part of the output.
CodeModules == {p \in ModuleSet : mode = "split" \/ EmittedInBundle(p)}

\* Every variable of the running script keeps its type.
ProgramTypeOK ==
  /\ started \in BOOLEAN
  /\ \A i \in 1..Len(frames) : frames[i] \in Seq(Instr)
  /\ guards \subseteq ({"lib"} \X Prefix) \cup ({"sh"} \X Path)
  /\ fns \in [Key -> Path \cup {NoPath}]
  /\ trace \in Seq(Instr)
  /\ dispatched \subseteq [caller : Path, name : Name, owner : Path \cup {NoPath}]

\* Diamonds and cycles of imports run nothing twice: neither a module's code,
\* nor a raw shell file, nor the assignment of _BESHT_ROOT.
NothingRunsTwice == \A i, j \in 1..Len(trace) : trace[i] = trace[j] => i = j

\* Bundled or split, the modules' code runs in the order in which the compiler
\* emits them: what sh finds by following the source lines and guards is what
\* load found by following the imports.
RunsInEmitOrder == BodyPaths = SubSeq(Kept(modules, CodeModules), 1, Len(Bodies))

\* The files a call of n in p may mean: those it imports n from, or else p.
Meant(p, n) ==
  LET imported == {imp.path : imp \in {i \in ToSet(tree.imports[p]) :
                     n \in i.names /\ (IsShell(i) \/ n \in tree.exports[i.path])}}
  IN IF imported # {} THEN imported ELSE {p} \cap {q \in Path : n \in tree.defs[q]}

\* A call that means a function of the program's is answered by that function,
\* whatever other modules define, export or declare under the same name; it
\* goes unanswered only around an import cycle, whose first body runs before
\* the functions it imports are defined.
CallsReachMeant ==
  \A c \in dispatched :
    LET meant == Meant(c.caller, c.name) IN
      meant # {} =>
        \/ c.owner \in meant
        \/ c.owner = NoPath /\ \E q \in meant : Reaches(tree, q, c.caller)

\* The program as module ModuleInit sees it.
Needs == IF started
         THEN [p \in CodeModules |->
                {q \in BeshtImports(tree, p) \cap CodeModules : ~Reaches(tree, q, p)}]
         ELSE << >>

Promise == INSTANCE ModuleInit WITH Module <- Path, needs <- Needs, ran <- BodyPaths

\* Each module's code runs exactly once, after the code of the modules it
\* imports, import cycles excepted; and all of it runs.
KeepsPromise == Promise!FairSpec

-----------------------------------------------------------------------------
(* What the repository says of its programs and the code does not keep.    *)

\* README.md: the entry point sets _BESHT_ROOT once, at startup.  The entry
\* script has no include guard, so a module that imports the entry runs it again.
RootSetOnceAtStartup == \A i \in 1..Len(trace) : trace[i].op = "root" => i = 1

\* README.md: Besht imports become source calls, and the guard of a library
\* protects it against being sourced twice.  Two libraries whose paths differ
\* in '-', '.' or '_' share a guard, and the second is never run.
ImportedCodeRuns ==
  started /\ frames = << >> =>
    \A p \in CodeModules : \E i \in 1..Len(trace) : trace[i] = Do("body", p)

\* validator.go: a call of a function that is not declared is an error.  A
\* function exported by any file loaded before counts as declared, imported or
\* not, and the call is then rewritten to the caller's own prefix.
AcceptedCallsAnswered ==
  \A c \in dispatched : c.owner = NoPath => c.name \in decls

=============================================================================
