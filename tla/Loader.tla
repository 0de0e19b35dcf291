------------------------------- MODULE Loader -------------------------------
(***************************************************************************)
(* Compiler.load (internal/codegen/modules.go): the depth-first traversal  *)
(* of the import graph that decides which modules a program has, in which  *)
(* order they are emitted, and what each of them may call.                 *)
(*                                                                         *)
(* The Go call stack is explicit: `stack` holds one frame per active load  *)
(* that is past its visited check, and `call` is the path of a load that   *)
(* has been called and has not done that check yet.                        *)
(***************************************************************************)
EXTENDS SourceTree

CONSTANT Trees   \* the source trees considered

ASSUME TreesAssumption == Trees \subseteq SourceTrees

VARIABLES
  tree,     \* the source tree, fixed for the compilation
  call,     \* the argument of the load call about to start, or NoPath
  stack,    \* active loads, innermost last
  visited,  \* Compiler.visited
  modules,  \* Compiler.modules
  sigs,     \* Compiler.globalSigs: key -> the file whose signature is stored
  decls,    \* Compiler.globalDecls
  result    \* "loading", "loaded", or why load returned an error

loadVars == <<tree, call, stack, visited, modules, sigs, decls, result>>

Phase == {"stdlib", "read", "imports"}
Errors == {"outside", "missing", "directory", "unparsable", "badimport", "invalid", "undeclared"}
Frame == [path : Path, phase : Phase, done : Nat]

Top == stack[Len(stack)]
SetTop(f) == [stack EXCEPT ![Len(stack)] = f]
Below == SubSeq(stack, 1, Len(stack) - 1)

OnStack(p) == \E i \in 1..Len(stack) : stack[i].path = p
IsModule(p) == \E i \in 1..Len(modules) : modules[i] = p
Finished == {p \in visited : ~OnStack(p)}

LoadInit ==
  /\ tree \in Trees
  /\ call = Entry
  /\ stack = << >>
  /\ visited = {}
  /\ modules = << >>
  /\ sigs = [k \in Key |-> NoPath]
  /\ decls = {}
  /\ result = "loading"

Fail(why) ==
  /\ result' = why
  /\ UNCHANGED <<tree, call, stack, visited, modules, sigs, decls>>

\* load(path) of a path outside the compiler root.
EnterOutside ==
  /\ result = "loading" /\ call # NoPath
  /\ tree.content[call] = "outside"
  /\ Fail("outside")

\* Mutant: a load of a file that is still on the stack does not return.
EnterVisitedFinished ==
  /\ result = "loading" /\ call # NoPath
  /\ tree.content[call] # "outside"
  /\ call \in Finished
  /\ call' = NoPath
  /\ UNCHANGED <<tree, stack, visited, modules, sigs, decls, result>>

\* load(path) of a path already seen: finished, or still being loaded.
EnterVisited ==
  /\ result = "loading" /\ call # NoPath
  /\ tree.content[call] # "outside"
  /\ call \in visited
  /\ call' = NoPath
  /\ UNCHANGED <<tree, stack, visited, modules, sigs, decls, result>>

\* Mutant: the path is marked visited only when its load ends, so that a
\* back edge of a cycle starts a second load of a file already on the stack.
EnterNewMarkLate ==
  /\ result = "loading" /\ call # NoPath
  /\ tree.content[call] # "outside"
  /\ call \notin visited
  /\ visited' = visited \cup {stack[i].path : i \in 1..Len(stack)}
  /\ stack' = Append(stack, [path |-> call, phase |-> "stdlib", done |-> 0])
  /\ call' = NoPath
  /\ UNCHANGED <<tree, modules, sigs, decls, result>>

\* load(path) of a new path: it is marked visited before it is read.
EnterNew ==
  /\ result = "loading" /\ call # NoPath
  /\ tree.content[call] # "outside"
  /\ call \notin visited
  /\ visited' = visited \cup {call}
  /\ stack' = Append(stack, [path |-> call, phase |-> "stdlib", done |-> 0])
  /\ call' = NoPath
  /\ UNCHANGED <<tree, modules, sigs, decls, result>>

\* The frame the compiler is working in, when no load call is pending.
Working(phase) ==
  /\ result = "loading" /\ call = NoPath
  /\ stack # << >>
  /\ Top.phase = phase

\* Mutant: stdlib.d.bsh is never auto-loaded.
LoadStdlibNever ==
  /\ Working("stdlib")
  /\ stack' = SetTop([Top EXCEPT !.phase = "read"])
  /\ UNCHANGED <<tree, call, visited, modules, sigs, decls, result>>

\* The entry loads stdlib.d.bsh beside it, when there is one, before its own text.
LoadStdlib ==
  /\ Working("stdlib")
  /\ stack' = SetTop([Top EXCEPT !.phase = "read"])
  /\ call' = IF Top.path = Entry /\ UsesStdlib(tree) THEN Stdlib ELSE NoPath
  /\ UNCHANGED <<tree, visited, modules, sigs, decls, result>>

\* Mutant: a file without statements is taken for an unreadable one.
ReadableNonEmpty(p) == tree.content[p] \notin {"missing", "directory", "unparsable", "empty"}

Readable(p) == tree.content[p] \notin {"missing", "directory", "unparsable"}

ReadFails ==
  /\ Working("read")
  /\ ~Readable(Top.path)
  /\ Fail(tree.content[Top.path])

ReadAndParse ==
  /\ Working("read")
  /\ Readable(Top.path)
  /\ stack' = SetTop([Top EXCEPT !.phase = "imports"])
  /\ UNCHANGED <<tree, call, visited, modules, sigs, decls, result>>

MoreImports == Top.done < Len(tree.imports[Top.path])
NextImport == tree.imports[Top.path][Top.done + 1]

ImportRejected ==
  /\ Working("imports") /\ MoreImports
  /\ ~ImportOk(tree, NextImport)
  /\ Fail("badimport")

SkipShellImport ==
  /\ Working("imports") /\ MoreImports
  /\ ImportOk(tree, NextImport)
  /\ IsShell(NextImport)
  /\ stack' = SetTop([Top EXCEPT !.done = @ + 1])
  /\ UNCHANGED <<tree, call, visited, modules, sigs, decls, result>>

LoadImport ==
  /\ Working("imports") /\ MoreImports
  /\ ImportOk(tree, NextImport)
  /\ ~IsShell(NextImport)
  /\ stack' = SetTop([Top EXCEPT !.done = @ + 1])
  /\ call' = NextImport.path
  /\ UNCHANGED <<tree, visited, modules, sigs, decls, result>>

\* Names the import list of p makes known to its validator: those of shell
\* files, and those of Besht files registered under their qualified name.
ImportedNames(p) ==
  {n \in Name : \E i \in DOMAIN tree.imports[p] :
     LET imp == tree.imports[p][i] IN
       n \in imp.names /\ (IsShell(imp) \/ sigs[QualKey(imp.path, n)] # NoPath)}

\* Mutant: the names of shell imports are not registered with the validator.
KnownNamesNoShell(p) ==
  {n \in Name : sigs[BareKey(n)] # NoPath \/ n \in tree.defs[p] \cup tree.declares[p]}

\* Names the validator of p accepts in a call: every bare signature registered
\* so far, imported by p or not, the imported names, and p's own functions and
\* declarations.
KnownNames(p) ==
  {n \in Name : sigs[BareKey(n)] # NoPath \/ n \in tree.defs[p] \cup tree.declares[p]}
  \cup ImportedNames(p)

AtEnd == Working("imports") /\ ~MoreImports

ValidateRejects ==
  /\ AtEnd
  /\ tree.content[Top.path] = "invalid"
  /\ Fail("invalid")

UndeclaredCall ==
  /\ AtEnd
  /\ tree.content[Top.path] # "invalid"
  /\ ~(tree.calls[Top.path] \subseteq KnownNames(Top.path))
  /\ Fail("undeclared")

\* The signatures after p registers its exported functions under their
\* qualified and their bare name, and its declarations under the bare one.
Register(p) ==
  [k \in Key |-> IF \/ k[1] = Bare /\ k[2] \in tree.exports[p] \cup tree.declares[p]
                    \/ k[1] = PrefixOf[p] /\ k[2] \in tree.exports[p]
                 THEN p ELSE sigs[k]]

\* A declaration file contributes signatures and no module.
AppendModule(p) == IF p \in Decl THEN modules ELSE Append(modules, p)

\* Mutant: a finished module goes to the front, as in a pre-order traversal.
FinishModuleInFront ==
  /\ AtEnd
  /\ tree.content[Top.path] # "invalid"
  /\ tree.calls[Top.path] \subseteq KnownNames(Top.path)
  /\ sigs' = Register(Top.path)
  /\ decls' = decls \cup tree.declares[Top.path]
  /\ modules' = IF Top.path \in Decl THEN modules ELSE <<Top.path>> \o modules
  /\ stack' = Below
  /\ result' = IF Len(stack) = 1 THEN "loaded" ELSE "loading"
  /\ UNCHANGED <<tree, call, visited>>

\* All imports are loaded and the module validates: it is registered and
\* appended after everything it loaded, and the call returns.
FinishModule ==
  /\ AtEnd
  /\ tree.content[Top.path] # "invalid"
  /\ tree.calls[Top.path] \subseteq KnownNames(Top.path)
  /\ sigs' = Register(Top.path)
  /\ decls' = decls \cup tree.declares[Top.path]
  /\ modules' = AppendModule(Top.path)
  /\ stack' = Below
  /\ result' = IF Len(stack) = 1 THEN "loaded" ELSE "loading"
  /\ UNCHANGED <<tree, call, visited>>

LoadNext ==
  \/ EnterOutside \/ EnterVisited \/ EnterNew
  \/ LoadStdlib
  \/ ReadFails \/ ReadAndParse
  \/ ImportRejected \/ SkipShellImport \/ LoadImport
  \/ ValidateRejects \/ UndeclaredCall \/ FinishModule

LoadSpec == LoadInit /\ [][LoadNext]_loadVars

\* The compiler is one process that nothing suspends.
FairLoadSpec == LoadSpec /\ WF_loadVars(LoadNext)

-----------------------------------------------------------------------------

\* Every variable of the traversal keeps its type.
LoadTypeOK ==
  /\ tree \in SourceTrees
  /\ call \in Path \cup {NoPath}
  /\ stack \in Seq(Frame)
  /\ visited \subseteq Path
  /\ modules \in Seq(Path)
  /\ sigs \in [Key -> Path \cup {NoPath}]
  /\ decls \subseteq Name
  /\ result \in Errors \cup {"loading", "loaded"}

\* No file is compiled twice, however many imports name it and whatever cycles
\* they form: the module list, which emit turns into one body per entry, has no
\* repetition.
NoDuplicateModules ==
  \A i, j \in 1..Len(modules) : modules[i] = modules[j] => i = j

\* A file is on the stack, or is in the module list, or is a declaration file,
\* and never two of these: the visited check loses no module and repeats none.
EachFileOnce ==
  \A p \in visited :
    /\ OnStack(p) => ~IsModule(p)
    /\ ~OnStack(p) => (IsModule(p) <=> p \notin Decl)

\* A module stands in the list after every Besht module it imports, so its
\* top-level code may use them; the only exception is an import that closes a
\* cycle.
DepsFirst ==
  \A i \in 1..Len(modules) : \A q \in BeshtImports(tree, modules[i]) :
    q \notin Decl /\ ~Reaches(tree, q, modules[i]) => \E j \in 1..(i - 1) : modules[j] = q

\* A successful load has visited the least set of files that holds the entry
\* and everything its members load: nothing is missed, nothing is added.
LoadsReachable ==
  result = "loaded" =>
    /\ Entry \in visited
    /\ ClosedUnderLoads(tree, visited)
    /\ \A S \in SUBSET Path : Entry \in S /\ ClosedUnderLoads(tree, S) => visited \subseteq S

\* The entry's own code comes last, after that of every other module, also
\* when a module imports the entry back.
EntryLast ==
  result = "loaded" /\ Entry \notin Decl =>
    modules # << >> /\ modules[Len(modules)] = Entry

\* A module's calls are to names it declares itself, imports from a shell
\* file, or imports from a Besht file that exports or declares them and is not
\* in a cycle with the module.
CallsOwnOrImported(p) ==
  \A n \in tree.calls[p] :
    \/ n \in tree.defs[p] \cup tree.declares[p]
    \/ \E i \in DOMAIN tree.imports[p] :
         LET imp == tree.imports[p][i] IN
           /\ n \in imp.names
           /\ \/ IsShell(imp)
              \/ /\ n \in tree.exports[imp.path] \cup tree.declares[imp.path]
                 /\ ~Reaches(tree, imp.path, p)

\* The validator rejects no correct program: a call is reported undeclared only
\* in a module that does not have the name, or has it only from its own cycle.
RejectsOnlyUndeclared == result = "undeclared" => ~CallsOwnOrImported(Top.path)

\* Every compilation ends, with a module list or with an error, cyclic
\* imports included.
LoadEnds == <>(result # "loading")

=============================================================================
