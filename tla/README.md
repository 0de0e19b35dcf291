# A formal model of the Besht compiler

Besht compiles a small TypeScript-like language (`.bsh`) to POSIX shell. This directory holds TLA+ modules that model the compiler and the scripts it produces, TLC configurations that check them on small instances, and theorems about them that TLAPS checks for every instance. File and line references are to the repository, `src/`.

## The system

| Component | Source | State it keeps | Operations | What makes it correct |
|---|---|---|---|---|
| Module loading | `internal/codegen/modules.go` `load` | visited set, module list, signatures and declarations seen so far, the Go call stack of the recursion | load a file: root check, visited check, automatic `stdlib.d.bsh`, read, parse, imports, validation, registration | every reachable file once, dependencies first, entry last, no correct call rejected, an end for every import graph |
| Module output | `modules.go` `CheckFile`, `emit`, `emitSplit`, `copyFile`; `cmd/besht/main.go` | collisions found, text generated so far, files written | analyse and generate each module, look for colliding outputs, write scripts, copy raw shell files | a rejected program writes nothing; a finished one is complete; a broken-off one leaves no new entry beside old modules |
| Compiled program | the text `emit` and `emitSplit` produce | `_BESHT_ROOT`, include guards, shell functions defined so far | source, guard, run a module's code, call a function | every module's code once and in order; a call reaches the function it means |
| Command analysis | `internal/codegen/cmdanalysis.go` | identities of `$()` commands, scopes from variables to identities, what was run and read | two passes over the statements | a command runs at most once, and what is read was run |
| Code generator | `internal/codegen/codegen.go` | type maps, compile-time constants, aliases of objects, function context, return slot | one method per statement and expression | a constant folded into the text is what the variable holds at run time; a call's result arrives where it is expected |
| Semantic validator | `internal/semantics/` | scopes, constants, loop and callback context | one case per statement | context is restored around every nested scope; no assignment to a constant |
| Lexer, parser | `internal/lexer`, `internal/parser` | position, token lookahead, brace nesting in templates | next token; recursive descent with backtracking | every input ends in a token list or an error; precedence and associativity |
| Viewer | `internal/viewer`, `cmd/besht/visualize.go` | none between calls | pair source lines with shell lines | every shell line beside the source line its comment names |
| Command line | `cmd/besht/main.go` | none | parse flags; compile, check, split, init, visualize | `init` never overwrites a different file without `--force` |
| Standard declarations, skills, Node equivalence tests | `internal/stdlib`, `skills`, `node-eq` | none | none | constant text and test programs |

The components meet in one pipeline. The command line calls `CheckFile`, `CompileFile` or `CompileFileSplit`; each calls `load` on the entry, which calls lexer, parser and validator for every file and recurses over the imports. Then `emit` or `emitSplit` runs the command analysis and the generator over the module list, and writes. What the user runs is a script, or a tree of scripts that source each other; so the order found by the recursion at compile time has to be found again by `sh` at run time, from source lines and guard variables.

### What is hard here

The compiler is sequential and persists nothing but its output, so there are no data races and no recovery. The hazards (listed with their lines in `PROJECT.json`) come from elsewhere:

- **Order.** A depth-first traversal with cycles, diamonds and an implicit file decides the order of the program's code, and decides which names are known when a module is validated. In split mode `sh` decides the order a second time.
- **Names.** Paths become prefixes and guard variables by a map that is not injective, and a name may be defined, exported, declared and imported at once.
- **Partial failure.** Many files are written, one after the other, after work that may fail at any module; outputs may collide with each other or with the sources.
- **State carried along a walk.** The generator and the validator carry maps through a walk over the program and must forget, save and restore them where the program branches, loops, calls or opens a subshell.

## Modules

| Module | Models | Extends |
|---|---|---|
| `SourceTree` | the files of a program, reduced to what the compiler branches on: how each reads, its import list in source order, the functions it defines, exports, declares and calls | |
| `Loader` | `Compiler.load` | `SourceTree` |
| `Build` | the three compile modes up to the files on disk | `Loader` |
| `ModuleInit` | abstract: what a compiled program promises about its modules' code | |
| `Program` | a program from its sources to the end of its run by `sh`; refines `ModuleInit` | `Build` |
| `CmdProgram` | programs that build, run and read commands, and which command object a statement is about | |
| `CmdAnalysis` | `AnalyzeProgram`, the two passes of the command analysis | `CmdProgram` |
| `Commands` | the lines generated for commands and their execution, beside what the program means | `CmdAnalysis` |
| `Lexer` | `Tokenize` and all it calls | |
| `Ast` | the trees of package `ast`, as nodes of one shape, and which children each kind may have | `Lexer` |
| `Grammar`, `Parser` | the token position of the parser; its parse functions | `Ast` |
| `Validator` | `Validator.Validate`: scopes, constants, contexts, signatures | `Parser` |
| `Surfaces` | the object, `forEach` and `fetch` surface checks | `Validator` |
| `JavaScript`, `Meaning` | reference: how a tree is written; which binding a name denotes, what statements do to objects | `Ast` |
| `Frontend` | an author's program, written, lexed, parsed and checked | `Surfaces`, `Meaning` |
| `Script` | statements over numbers, with blocks, functions, loops and `try` | |
| `Generator` | the shell line of each statement, the names of shell variables, the constants known | `Script` |
| `ShellRun` | `sh` on those lines | `Generator` |
| `SourceRun` | reference: the program run as JavaScript | `Script` |
| `Scripts` | a program compiled, then run beside its script | `SourceRun`, `ShellRun` |
| `Lists` | the operators on lists that several modules use (`Kept`: the members that pass a test, in their order) | |
| `LoaderProofs`, `BuildProofs` | theorems | `Loader`, `Build` |
| `ListProofs` | lemmas on lists, and on functions defined by recursion | `Lists` |
| `OrderProofs` | the order of the module list, told from a log of the traversal | `ListProofs`, `BuildProofs` |
| `RunProofs`, `ProgramProofs` | theorems on a program's run: types, order, `ModuleInit`, and calls | `Program`, `OrderProofs` |
| `CommandProofs` | theorems on commands: the analysis, the lines generated, their execution | `Commands`, `ListProofs` |
| `ScriptProofs` | theorem on the return slot | `Scripts`, `ListProofs` |
| `MCLoader`, `MCBuild`, `MCProgram`, `MCFindings`, `MCCommands`, `MCFrontend`, `MCScripts` | instances for TLC | |

### Loader

The Go recursion is an explicit stack. A call `load(p)` is `call = p`; the actions `EnterOutside`, `EnterVisited` and `EnterNew` are its first lines (root check, visited check, mark and go on). A frame then passes through three phases: `LoadStdlib` (only the entry's frame calls `load(stdlib.d.bsh)`), `ReadFails` or `ReadAndParse`, and one action per import (`ImportRejected`, `SkipShellImport`, `LoadImport`, the recursive call). At the end of the list `ValidateRejects` and `UndeclaredCall` are the validator's verdict, and `FinishModule` registers the exported and declared names, appends the module unless it is a declaration file, and returns. `visited`, `modules`, `sigs` and `decls` are the fields of `Compiler`; `sigs` has the two kinds of keys the code uses, the qualified name and the bare one. Exported values and classes are not modelled: `load` treats them as it treats functions, but only functions are registered under a bare name, and that registration is what matters.

Resolution of an import to a path is an input: an import names its file. `Raw` are the paths that end in `.sh`, and the two kinds of import are told apart by it as `validateImport` and `resolveShellImportPath` do. What these two reject by the form of the import alone (a default name, no names, a source that does or does not end in `.sh`) is one kind, `malformed`. A path may have nothing (`missing`) or something that is no file (`directory`): `load` asks only whether there is a `stdlib.d.bsh`, so the second is loaded, and fails.

### Build

`stage` says how far the compilation is. `CheckModules` is `CheckFile` after `load`. A bundle generates all modules and then writes one file (`WriteBundle`, or `BundleFails`). A split compilation first looks for collisions (`SplitCollides`), then generates all modules in memory (`GenerateModule`, `GenerateRejects`), then writes them in module order (`WriteModule`, `WriteFails`), and at last copies raw shell files in the random order of a Go map (`CopyShell`, `CopyFails`). A write that fails leaves the file as it was or truncated. `disk` is the output directory as a map from paths to what they hold; `inPlace` compilations write into the source directory, where a raw shell file is its own destination and `copyFile` leaves it alone.

### Program

The text of a script is a sequence of instructions: `root`, `guard`, `source` (a module), `shell` (a raw file, with its guard), `body`, `raw`. `LibraryText`, `EntryText` and `BundleText` are what `emitSplit` and `emit` write; `frames` is sh's stack of files being sourced. `Callee` is `buildImportedMaps` with `rewriteExpr`: the shell name a call is rewritten to. A body is one step: it defines the module's functions and then makes its calls, so the order of declarations and calls within one module is not modelled here but in `Scripts`.

`ModuleInit` says what a program promises whichever way it is compiled: each module's code runs once, after that of the modules it needs, and all of it runs. `KeepsPromise` is the refinement, with `needs` the imports that are not part of a cycle and `ran` the bodies in `trace`.

### Commands

A command (`$("ls")`) is an object of the source program: it is bound to variables, extended by chains (`.workdir`, `.pipe`, `.env`; all alike here), cloned, run, and read. The script has no such object. `AnalyzeProgram` gives each an identity, and the generator keeps what a run gave in the shell variable named after the identity.

`CmdProgram` lists the statements modelled: bindings of a literal, a clone, a chain, an inline `run().readStdout()` of a literal or of a variable; runs of a variable or of an unbound clone; the three reads; printing a string; `for` over a literal, with and without `.run()`. Each is at the top level or in a block; an `if`, a loop and a callback body are the same to the analysis and the generator, and a block here is executed any number of times, none included. `Write` chooses the program; `Allocate` and `Scan` are `phase1Stmt` and `phase2Stmt`, one statement a step, with `scope` the innermost `cmdScope` and the program's; `EmitWarnings` ends the analysis. `Generate` produces a `Line` per statement, from `binding` and `chains` (`g.cmdScope`, `g.cmdChains`, both flat: the generator opens no inner scopes). `Execute` performs the line of a statement on `shell`, and the statement itself on `env` and `runs`: `did` and `meant` are what each of the two ran and printed.

The properties have the premise `Documented`, the use of commands that the README and the tests show. Each part of it marks a limit that TLC found, by a counterexample without it:

- `NamesOnce`: a name bound again in a block denotes the inner command after the block too, since the generator's scope is flat.
- `ReadsFollowRuns`: a read before the run shows the previous round's output in a loop.
- `OneStream`: run `both_streams` below.
- `ChainsAtTop`: a chain on a variable (`let d = base.workdir("/")`) binds nothing in the second pass. At the top level the binding of the first pass is still there; in a block it is not, and after `let c = base.clone()` a chain on `c` counts as one on `base`. The run is then emitted without capture and the read shows nothing.
- no `forRun` (run `loop_over_run` below) and no `base.clone().run()`, which is rejected after `base.run()` although the message advises to clone.

Not modelled: variables that alias a command (`let y = x`) or are assigned one, `for` over a variable, functions, classes and destructuring.

### Frontend

A text is a sequence of characters, with one character for a run of letters that belong together. `Lexer` is `internal/lexer` function by function; a token is its type and its text. `Ast` gives all nodes one shape (`kind`, `lit`, `kids`), and `IsTree` says which kinds a node of package `ast` may have below it. In `Parser` a parse function is an operator from the parser (its tokens and its position) to a tree and the parser after it, or to a failure; a scan (`ParenArrowAhead`, `ColonAhead`) looks at the tokens ahead and moves nothing. Places where the parser skips tokens without complaint (types, `declare`, type arguments) are modelled as they are, since they decide which statements survive. An interpolation of a template is lexed and parsed anew, as `parseTemplateExpr` does.

`Validator` carries the fields of the Go struct (`scopes`, constants, loop, callback and class flags) through the walk in one record, and `Back` restores what each function of the walk restores. The members of a class are walked as the code walks them, fields, static fields, constructor, methods, accessors, whatever their order in the text (`CheckClass`), since a constant met in one counts for all that follow. `Surfaces` does the same for the three surface validators. Errors have a kind and no wording; of several the first is kept.

The reference side takes nothing from the compiler. `JavaScript` writes a tree down with the parentheses JavaScript needs and no others, and with blanks only where two tokens would otherwise be read as something else. `Meaning` finds the binding of a name by the scope rules of JavaScript, and evaluates a straight line of statements on objects. `Frontend` composes: `Write` writes a program `meant` (or any text of the instance), `Lex`, `ParseTokens` and `CheckTree` are `parser.Parse` and `semantics.Validate`; each stops the compilation when it fails.

The modules were also compared with the repository's own tests: 91 parser tests, 207 cases of the validator tests and 105 `.bsh` programs.

The properties name what the front end does not follow, each found by TLC as a counterexample:

- The parser takes no chained comparison, no `!` or `-` on another unary operator, no arrow as the last part of a ternary, no `?.` in the middle part, no statement that calls a method on the result of a call, and no bare `return` before a semicolon. These are parse errors (`TakesWhatIsMeant`).
- A `declare` statement takes the next statement with it, up to a keyword that ends it. Without semicolons a type alias does so as well (`type T = number[]`, new line, `x = 1` loses the assignment without an error, although README.md:146 has semicolons optional), and `x = f()?` reads on behind its line for the colon of a ternary.
- An assignment in an inner scope that stands before a `const` of the same name in that scope is accepted: the walk has not met the constant and finds the name further out (`WritesEarly`).
- A name that is a constant in one scope may not be written in another one; functions of inner scopes and inner names used before their declaration are reported as undeclared. These programs are refused (`RefusedIsWrong`).
- The object checks lose track of an object that two names share once one of them is assigned, of a value given to a field by its name, and of a name that held a response (`Rebound`, `GivenByName`, `ResponseReplaced`).

### Scripts

A program of `Script` is a flat sequence of statements; `end` closes a block and `else` starts its second part. Statements are those whose compilation depends on more than their own text: `let`, assignment, `console.log`, a call with and without use of its value, `return`, a command that fails, `if`, `while`, C-style `for`, `for` over the lines of a command, `try`, `break`, `continue` and functions of one parameter. Expressions are a number, a variable, `x + 1`, `++x`, `x < n` and a call.

`Generator` compiles a statement a step (`at`), into `lines[at]`. `paramMap`, `currentFn` and `consts` are `g.paramMap`, `g.currentFn` and `g.numConstMap`; `ResolveVarName` and `ControlAssigned` are the functions of these names. A number that is known replaces the expression or the condition; a known `if` compiles one of its branches only (`GenIf`, `GenElse`). The variable of a `catch` is resolved where the catch begins (`GenCatch`) and forgotten at its end. Shell variables are triples instead of the strings `_f_x`.

`ShellRun` is `sh`: one environment of variables for all functions, `slot` the variable `_BESHT_RETURN_SLOT`, `olds` the `_bst_return_slot_…` of each call. A `for` over a command and a `try` push a copy of the process, which is taken back when it ends. `SourceRun` runs the program itself with a variable per declaration and a frame per call. `Scripts` runs the two in turn, a statement and its line.

The properties have the premise `Supported`. Every part of it marks a limit of the generator; without it TLC finds the counterexample:

- `FunctionsShare`: a function's body is compiled where it stands, with the constants known there, and leaves its own behind. A variable of the program that a function uses must be written in blocks or not at all.
- `NoShadow`: blocks have no scope in the script.
- `UpdatesInBlocks`: `let y = ++x` leaves the constant of `x` as it was.
- `KeepsOuter`, `NoReturnInside`: the body of a `for` over a command, and of a `try`, is a process of its own: assignments to outer variables are lost, and `return`, `break` and `continue` end the process only.
- `NoContinueInFor`: run `endless_for` below.
- `NoSelfArgument`: the target of a call is emptied before the call, so `x = f(x)` passes the empty string.
- `NoDropped`: a returned value nobody uses is printed (or, directly in a module's function, executed as a command).
- `CalledAfter`: parameters and locals are shared by all calls of a function, and so is the saved slot of a call statement; and functions are written where the source declares them, so `sh` does not find one that is called before its declaration (`Failing`).
- `TryOnce`: under `set -e` a failure ends the outermost `try`.

So what these premises leave out is not checked by the run, though the script does differ from JavaScript there; the entries under "hazards" in `PROJECT.json` say which of them a property would catch, and which not and why.

Not modelled: text of strings, lists, objects, classes and built-in methods, `switch`, other constant maps than that of numbers (they are kept at the same places), and functions of several modules.

## Runs

| Run | Instance | Shows |
|---|---|---|
| `loader` | entry, two modules, `stdlib.d.bsh`, a shell file; every import graph with up to two imports per file (self-imports, cycles and diamonds included), every single fault (of a file, of a shell file, of an import), and every assignment of roles (defines, exports, declares, calls) to one name | the safety properties of `load` and that it ends |
| `build` | two modules that share an output path, a raw file of the same output path and another one, in three modes, in place or not | rejected programs write nothing, finished ones are complete, the entry comes after its modules |
| `program` | the same kinds of graph, compiled both ways and run to the end, and every assignment of roles to a name with imports between them | modules run once and in emit order, calls reach what they mean, `ModuleInit` is implemented |
| `commands` | all documented programs of up to five command statements over three names; blocks executed up to two times in a row | the analysis rejects exactly second runs and warns of exactly the idle commands; the script runs and prints what the program means |
| `frontend` | all texts of two lexical elements and of three from a smaller set; the trees of every pair of binary operators (every triple of five), every form of expression in every other, every statement and pair of statements (with semicolons, and on lines without), each of 12 statements in 20 kinds of scope between two others, and objects under two names with a change and an operation | tokens, trees and verdicts are those that are meant |
| `scripts` | every simple statement before and after every kind of block, blocks in blocks, two functions that call each other from every kind of statement, functions on the program's variables | constants are true, variables agree, results arrive, both runs go the same way and print the same, and the script ends |
| `loop_over_run` | programs of at most two statements | **violation**: `for (x in $(..).run().readStdoutLines())`, the README's own form, is rejected as a second run |
| `both_streams` | programs of at most four statements | **violation**: `readStdout` gives the error output if `readStderr` is used on the same command |
| `entry_cycle` | a module imports the entry, split | **violation**: the entry script has no include guard and runs twice, `_BESHT_ROOT` is set twice |
| `shared_guard` | two modules with the same prefix (`x-y.bsh`, `x_y.bsh`), split | **violation**: they share an include guard, the second never runs |
| `leaked_name` | a module calls what another exports, without importing it | **violation**: accepted by the validator, answered by no function |
| `endless_for` | `for (let x = 0; x < 2; x++) { if (x < 1) { continue } console.log(x) }` | **violation**: `continue` jumps over the update, the script never ends |

**Bounds.** Three Besht files are enough for the entry, a diamond's two sides or a cycle through or beside the entry, and a module reached both directly and through another; two imports per file give every order of two dependencies. One name suffices because registration, lookup and rewriting treat names one by one, and all the roles it can have in the files are enumerated. The models have no unbounded counter: a traversal and a run of a script are finite, so no bound appears in a guard. `build` includes two failing modules and every combination of the shell files; each file is written once, so more files add no new interleaving. In `program`, split trees do not import the entry back and prefixes are distinct, because these are the programs of the first two findings.

In `commands`, `MaxStatements` bounds the program and `MaxRounds` the rounds of a block. Five statements hold a command, a clone, a run of each and a read, or a chain, two runs and a read; a second round is the first in which a variable may hold an older output. Names are interchangeable, so they are a symmetry set; `DocumentedPrograms` prunes the programs outside the premise as they are written.

In `frontend`, a parse function sees a bounded number of tokens ahead except in its scans, so the trees go one level deeper than the deepest decision: three operators show both sides of every precedence step, two statements show where one ends. Scope programs have one name, since names are looked up one by one, in up to three nested scopes. In `scripts`, the number of a `while` or `for` goes to 2, so that the loop is entered, repeated and left; blocks nest twice, calls three deep (main, `g`, `f`). Numbers only grow by one a step and programs are finite and end, so neither model has a bound in a guard.

**Fairness.** The compiler is a single process that nothing suspends, so weak fairness of its next step is what the operating system gives (`FairLoadSpec`). `FairProgramSpec` adds that a script that was built is started and that `sh`, again one process, goes on. `Spec` of `Scripts` is weakly fair in its next step for the same reason: the compiler, and then two processes that nothing suspends. The `build`, `commands` and `frontend` runs check safety only, under no fairness. Deadlock is not checked: all the behaviours end.

## Proofs

`LoaderProofs` proves, for every set of source trees, all the safety properties of the `loader` run. The inductive invariant is `LoadInv`:

- `StackOK`: the stack is a chain, each frame loaded by the one below, all distinct and visited, the entry at the bottom. Without it a popped frame could be needed again.
- `CallOK`: a pending call comes from the top frame.
- `ProgressOK`: what a frame has asked for so far is visited or pending, and everything a finished file loads is visited. This makes the visited set closed at the end.
- `LeastOK`: every closed set that holds the entry holds all that is visited. This makes it least.
- `ModulesOK`, `EntryOK`: the module list holds the finished files and no other, once each; the entry is last once it is finished.

`LoadsExactlyReachable` needs both directions. `LoadsDepsFirst` needs in addition `ChainOK` and that of two files on the stack the lower reaches the upper, so that an import found on the stack closes a cycle; reachability is stated by closed sets (`Reaches`), which keeps the proof first-order and free of recursion. `LoadRejectsOnlyUndeclared` adds three facts on what the signatures hold.

`BuildProofs` first shows that a compilation is a behaviour of `LoadSpec` (`BuildLoads`) and so inherits all of this. The invariant of the output, `BuildInv`, says stage by stage what the directory holds: untouched before the first write, then the first `next - 1` modules and besides only old files and raw ones, then all modules, then the copies. That the entry is last and that no module is a raw file (from `LeastOK`) turn it into `EntryIsWrittenLast`; that outputs do not collide turns it into `SplitIsComplete`.

`RunProofs` shows that a compiled program and `sh` on it keep their types (`ProgramTypeCorrect`), under no premise. The texts of scripts keep some members of a list (`Kept`: the imports that are sourced) or are put together module by module, both by recursive functions; that these functions are defined, and what `Kept` keeps, is in `ListProofs`.

The other theorems on a program's run have the premise `Followed`. A bundle always meets it. A split tree meets it when the prefixes of the modules are distinct, no visited module imports the entry, and no declaration file imports a module or is the entry. Each part excludes the shape of a defect: the runs `shared_guard` and `entry_cycle`, and the hazard at `modules.go:445` (a module that only a declaration file imports is in the list, but no script sources it). The premise is on states, since only the files visited and the modules count; all the programs of the run `program` meet it. The argument has four parts.

- `OrderProofs`: a load is a depth-first traversal of the imports that scripts source, and each moment of such a traversal determines the next. `LogOK` says that there is a log of the moments a load went through, which ends in its present state, declaration files left out. This needs that a declaration file loads no module: otherwise the load visits a module that no script sources.
- `ProgramProofs`: a split program repeats the log. `SplitOK` says that there is a moment of the log that `sh` `Meets`: the bodies run are its finished files, the guards set are those of the files it has seen, and what is left of each file being sourced begins at the import its visit is at (`Remains`). A step of `sh` stays at its moment or goes on to the next; a guard is found set only if its file has been visited, because prefixes are distinct. Of a bundle `BundleOK` says that `sh` is past the first *j* instructions of its text. In both cases the bodies run are a beginning of the module list, which is `RunsInEmitOrder`.
- `ModuleInit` (the second half of `ProgramProofs`): for `NothingRunsTwice` also raw shell files count (`RawOK`: one is entered only behind a guard that was not set, and its code runs before anything else), and the entry's first line (`RootOK`, which gives `ProgramSetsRootOnce`). `ProgramKeepsPromise` is the refinement but for its liveness: a program that meets `Followed` from its start on is a behaviour of `ModuleInit!Spec`. `StartScript` is `Link`, the step of a body is `Run` (the module has not run, by the order and the module list being without doubles; what it needs has run, by `LoadsDepsFirst`), and every other step stutters.
- `ProgramCallsReachMeant` (the end of `ProgramProofs`) proves `CallsReachMeant`. Its invariant is `CallInv`: the code of a module stands behind the shell files it imports in every text still to be executed, or their guards are set (`LinkOK`), and each function there is has the name that the file it is from gives it (`FnsOK`). So when a body calls, the shell files it imports have run, and so have the modules it needs, by the order proved above, unless they are around a cycle with it. Two premises come on top. `FilesAgree` says what the files of a program are: a module exports only what it defines, a declaration file nothing, a shell file defines what is imported from it, and a file without statements defines nothing. `NamesApart` says that prefixes are distinct, that no two linked shell files define the same function, and that a name imported from a declaration file is neither defined nor imported a second time by the same file. Distinct prefixes are the hazard at `modules.go:1298`. Without `FilesAgree`, without distinct shell functions or without the last part, TLC finds a call that reaches another function on an instance with a second shell file and trees that break the premise; all the trees of the run `program` meet both.

`ScriptProofs` shows `ReturnsReachTheirCall` for every program (`ScriptReturnsReachTheirCall`). Its premise is that JavaScript accepts the program (`IsProgram`) and two of the conditions the run `scripts` puts on programs: no `return` within a loop over a command or a `try` (it would end that process only), and every function is called after its end (a call of a function by itself would put its slot aside twice in one variable). The invariant is `SlotsKept`; its parts:

- Text. A block ends within the block it begins in, and every `end` closes a block (`Nested`, `EndIs`), from how many blocks are open at each statement (`Depth`). `Holds` says which functions, loops over commands and `try` parts sh is within at a line; `HeldAsBlock` and the lemmas after it, that a jump to the start, the end, the `else` or the outside of a block changes none of these but that of the block itself.
- `Reached`: the innermost of those is what the last entry of `stack` stands for. So an `end`, a `break` or a `return` finds the entry it means on top of the stack.
- `StackOK`: the same for the line each entry goes back to, and each call stands below all that was entered after it (`AboveCalls`). So no two calls under way are of one line, and none overwrites the slot that another has put aside.
- `Fits`: a process has the slot of its innermost call that wants a value, and has put aside for each call the slot from before it. This holds also of the processes kept in `stack`, to which sh comes back.
- `LinesOK`: the lines written so far are of the kind of their statements, and only those of calls call.

`StepKept` puts these together, with a lemma per action of sh.

`CommandProofs` proves all the properties of the run `commands`, for programs of any length over any names and blocks repeated any number of times. `CommandsTypeCorrect` holds for every program the validator lets through; the others have the premise of the properties, `Documented`. `VerdictIsRight` speaks of objects, which the analysis does not know; `RanAsMeant` and `ShownAsMeant` compare the last statement only. None is inductive. The invariant is `Typed /\ Compiled /\ Executed`; beyond types its parts are:

- `IdsOK`: the objects met so far and the identities allocated stand one for one, and what an identity records (`hasRun`, what is read, `usedByClone`, `name`) is what the statements walked so far do to its object. The two walks meet the objects in different order, literals in the first and clones in the second, so the set of objects met depends on both (`Known`).
- `OuterOK`, `InnerOK`: each name in scope is bound to the identity of the object its declaration denotes. A clone's name denotes the literal's identity until the second walk has passed it. The inner scope holds only names that blocks bind (`InnerNames`), so by `NamesOnce` it hides none of the program's own.
- `Scanned`: the run of an identity that has run is found exactly when two statements up to there run one object (`TwiceIn`); this becomes `VerdictIsRight` at the end of the walk, and `Recorded` gives `WarnsIdle`.
- `Generated`: the flat maps of the generator agree with the declarations so far (`BoundOK`, `ChainsOK`, where `NamesOnce` is needed), and each line is `MeantLine`, which is stated from the program alone. That `ChainText` ends at the literal uses that a declaration comes before what is chained on it.
- `Performing`: the values the program's variables have (`EnvOK`), and the shell variables beside them (`ShellOK`): the variable of an object holds what its last run gave, in each form that some statement reads. For a command of a block this holds only once it has run in the current round, since the variable still has the output of the round before; `ReadsFollowRuns` keeps a read from seeing that. The step back to the start of a block is where this is needed.

`Compiled` says nothing of the walks of other programs, and `Executed` nothing of their execution.

Induction. Facts for every number or every list (a recursive function is what its equation says; a beginning of a list keeps a beginning) are proved from the least counterexample, as the provers have no induction rule they can instantiate. This does for functions on `Nat`; recursive operators are out of reach.

Assumptions: the named ones in `SourceTree`, `Loader`, `Build`, `CmdProgram`, `Commands` and `Generator`. They say that the entry, `stdlib.d.bsh`, declaration and shell files are paths, that `stdlib.d.bsh` is a declaration file, that prefixes are never the key of bare names, that two raw files never share an output path (their relative path is kept), that no path and no name equals a marker value, that the bounds of `commands` are numbers and a block that is entered is executed at least once, and that a program of `Script` is a sequence of statements. TLC evaluates all of them on the instances.

Model-checked only: `LoadEnds`, the liveness part of `KeepsPromise` and `ScriptEnds` (liveness under fairness); the properties of `Frontend`, whose lexer, parser and walks are recursive over texts and trees; and the other properties of `Scripts`: that the script does what the program does needs an invariant on both machines at once.

## Plan

In this order; each step adds a module, a run and, where it says so, proofs.

1. Proofs for `Scripts`: that every name denotes a shell variable of its function (`ScriptsTypeOK`), then that the script stays in step (`StaysInStep`), for which `Reached` is one half.
2. `Scripts` over several modules: the generator of one with the modules of `Program`, for names shared by functions of two modules.
3. `Pairing`: the viewer's pairing of source and shell lines; `Cli`: flags and `init`.
4. `Commands`: aliases, assignments and functions. `Scripts`: `switch`, the constants of booleans and strings.

Not planned: the text of expressions, built-in methods and helpers (`codegen.go` is mostly that), which is formatting per construct and is tested by the Node equivalence suite; colours, wrapping and terminal handling.
