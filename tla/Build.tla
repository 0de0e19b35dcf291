------------------------------- MODULE Build --------------------------------
(***************************************************************************)
(* What CheckFile, CompileFile and CompileFileSplit do with the modules    *)
(* that load found (internal/codegen/modules.go): the command analysis,    *)
(* the generation of shell text, and the files written below the output    *)
(* directory.                                                              *)
(*                                                                         *)
(* The output directory is a function from output paths to what they hold: *)
(* the text generated from a module, a copy of a raw shell file, the whole *)
(* bundle, what was there before ("old"), or a write that broke off        *)
(* ("partial").                                                            *)
(***************************************************************************)
EXTENDS Loader, SequencesExt

CONSTANTS
  Out,        \* paths below the output directory
  OutOf,      \* outDir/<module name>.sh of a Besht file, outDir/<relative path> of a .sh file
  BundleOut   \* the file a bundled compilation writes

\* A raw shell file keeps its relative path.
ASSUME OutAssumption ==
  /\ OutOf \in [Path -> Out]
  /\ BundleOut \in Out
  /\ \A r, s \in Raw : OutOf[r] = OutOf[s] => r = s
  /\ {"old", "partial", "bundle"} \cap Path = {}

Modes == {"check", "bundle", "split"}

CONSTANT Jobs   \* the compilations considered: source tree, mode, whether outDir is the source root

ASSUME JobsAssumption == Jobs \subseteq Trees \X Modes \X BOOLEAN

VARIABLES
  mode,     \* which of the three entry points was called
  inPlace,  \* the output directory is the directory of the sources
  stage,    \* how far the compilation is, or how it ended
  next,     \* index of the next module to generate or write
  copies,   \* raw shell files still to copy
  disk      \* the output directory

outputVars == <<stage, next, copies, disk>>
buildVars == <<loadVars, mode, inPlace, outputVars>>

Stage == {"load", "generate", "write", "copy", "checked", "built", "rejected", "broken"}

ModuleSet == ToSet(modules)

\* Raw shell files imported by a module; those outside the root, which the
\* option admits, are sourced where they are and not copied.
ShellImports(p) == {imp.path : imp \in {i \in ToSet(tree.imports[p]) : IsShell(i)}}
ShellCopies == {s \in UNION {ShellImports(p) : p \in ModuleSet} : tree.content[s] # "outside"}

\* A compilation in place finds its raw shell files where it would copy them.
RawFiles == UNION {ShellImports(p) : p \in Path}
DiskBefore == [o \in Out |->
  IF inPlace /\ \E s \in RawFiles : OutOf[s] = o
  THEN CHOOSE s \in RawFiles : OutOf[s] = o ELSE "old"]

BuildInit ==
  /\ LoadInit
  /\ mode \in Modes
  /\ inPlace \in BOOLEAN
  /\ <<tree, mode, inPlace>> \in Jobs
  /\ stage = "load"
  /\ next = 1
  /\ copies = {}
  /\ disk = DiskBefore

LoadStep ==
  /\ stage = "load"
  /\ LoadNext
  /\ UNCHANGED <<mode, inPlace, outputVars>>

EndAs(s) ==
  /\ stage' = s
  /\ UNCHANGED <<loadVars, mode, inPlace, next, copies, disk>>

LoadRejected ==
  /\ stage = "load"
  /\ result \in Errors
  /\ EndAs("rejected")

Loaded(m) == stage = "load" /\ result = "loaded" /\ mode = m

\* CheckFile: the command analysis of every module and validations with the
\* types of imported values; nothing is generated.
CheckModules ==
  /\ Loaded("check")
  /\ EndAs(IF \E p \in ModuleSet : tree.content[p] \in {"badcmd", "badcheck"}
           THEN "rejected" ELSE "checked")

BeginBundle ==
  /\ Loaded("bundle")
  /\ stage' = "generate"
  /\ UNCHANGED <<loadVars, mode, inPlace, next, copies, disk>>

\* Mutant: only the collisions among compiled modules are looked for.
OutputsCollideCompiledOnly == \E p, q \in ModuleSet : p # q /\ OutOf[p] = OutOf[q]

\* Two compiled modules, or a module and a raw shell copy, share an output path.
OutputsCollide ==
  \/ \E p, q \in ModuleSet : p # q /\ OutOf[p] = OutOf[q]
  \/ \E p \in ModuleSet, s \in ShellCopies : OutOf[p] = OutOf[s]

SplitCollides ==
  /\ Loaded("split")
  /\ OutputsCollide
  /\ EndAs("rejected")

\* Mutant: the destinations are kept in place of the sources.
BeginSplitKeepsDestinations ==
  /\ Loaded("split")
  /\ ~OutputsCollide
  /\ stage' = "generate"
  /\ copies' = {OutOf[s] : s \in ShellCopies}
  /\ UNCHANGED <<loadVars, mode, inPlace, next, disk>>

BeginSplit ==
  /\ Loaded("split")
  /\ ~OutputsCollide
  /\ stage' = "generate"
  /\ copies' = ShellCopies
  /\ UNCHANGED <<loadVars, mode, inPlace, next, disk>>

More == next <= Len(modules)
Current == modules[next]
Generates(p) == tree.content[p] \notin {"badcmd", "badgen"}

\* Mutant: a module is written as soon as it is generated.
GenerateAndWrite ==
  /\ stage = "generate" /\ More
  /\ Generates(Current)
  /\ disk' = [disk EXCEPT ![OutOf[Current]] = Current]
  /\ next' = next + 1
  /\ UNCHANGED <<loadVars, mode, inPlace, stage, copies>>

\* The analysis and generation of one module, in memory.
GenerateModule ==
  /\ stage = "generate" /\ More
  /\ Generates(Current)
  /\ next' = next + 1
  /\ UNCHANGED <<loadVars, mode, inPlace, stage, copies, disk>>

GenerateRejects ==
  /\ stage = "generate" /\ More
  /\ ~Generates(Current)
  /\ EndAs("rejected")

WriteBundle ==
  /\ stage = "generate" /\ ~More /\ mode = "bundle"
  /\ disk' = [disk EXCEPT ![BundleOut] = "bundle"]
  /\ stage' = "built"
  /\ UNCHANGED <<loadVars, mode, inPlace, next, copies>>

\* A write that fails leaves the file as it was or truncated.
BreaksAt(o) ==
  /\ disk' \in {disk, [disk EXCEPT ![o] = "partial"]}
  /\ stage' = "broken"
  /\ UNCHANGED <<loadVars, mode, inPlace, next, copies>>

BundleFails ==
  /\ stage = "generate" /\ ~More /\ mode = "bundle"
  /\ BreaksAt(BundleOut)

BeginWriting ==
  /\ stage = "generate" /\ ~More /\ mode = "split"
  /\ stage' = "write"
  /\ next' = 1
  /\ UNCHANGED <<loadVars, mode, inPlace, copies, disk>>

\* Mutant: the modules are written entry first.
WriteModuleFromEnd ==
  /\ stage = "write" /\ More
  /\ LET p == modules[Len(modules) + 1 - next] IN disk' = [disk EXCEPT ![OutOf[p]] = p]
  /\ next' = next + 1
  /\ UNCHANGED <<loadVars, mode, inPlace, stage, copies>>

WriteModule ==
  /\ stage = "write" /\ More
  /\ disk' = [disk EXCEPT ![OutOf[Current]] = Current]
  /\ next' = next + 1
  /\ UNCHANGED <<loadVars, mode, inPlace, stage, copies>>

WriteFails ==
  /\ stage = "write" /\ More
  /\ BreaksAt(OutOf[Current])

BeginCopying ==
  /\ stage = "write" /\ ~More
  /\ stage' = "copy"
  /\ UNCHANGED <<loadVars, mode, inPlace, next, copies, disk>>

\* copyFile, in the order of a Go map: a file that is its own destination is
\* left alone.
CopyShell ==
  /\ stage = "copy"
  /\ \E s \in copies :
       /\ disk' = IF inPlace THEN disk ELSE [disk EXCEPT ![OutOf[s]] = s]
       /\ copies' = copies \ {s}
  /\ UNCHANGED <<loadVars, mode, inPlace, stage, next>>

\* A destination that is a symlink, lies behind one, or cannot be written.
CopyFails ==
  /\ stage = "copy"
  /\ \E s \in copies : IF inPlace THEN EndAs("broken") ELSE BreaksAt(OutOf[s])

EndSplit ==
  /\ stage = "copy"
  /\ copies = {}
  /\ EndAs("built")

BuildNext ==
  \/ LoadStep \/ LoadRejected
  \/ CheckModules
  \/ BeginBundle \/ SplitCollides \/ BeginSplit
  \/ GenerateModule \/ GenerateRejects
  \/ WriteBundle \/ BundleFails
  \/ BeginWriting \/ WriteModule \/ WriteFails
  \/ BeginCopying \/ CopyShell \/ CopyFails \/ EndSplit

BuildSpec == BuildInit /\ [][BuildNext]_buildVars

-----------------------------------------------------------------------------

\* Every variable of the compilation keeps its type.
BuildTypeOK ==
  /\ mode \in Modes
  /\ inPlace \in BOOLEAN
  /\ stage \in Stage
  /\ next \in 1..(Len(modules) + 1)
  /\ copies \subseteq Path
  /\ disk \in [Out -> Path \cup {"old", "partial", "bundle"}]

\* A program that is rejected, at whatever module and for whatever reason, and
\* a program that is only checked, leave the output directory as it was: no
\* module is written before the last one has been generated.
RejectedWritesNothing == stage \in {"rejected", "checked"} => disk = DiskBefore

\* A finished split compilation has written every module to a file of its own
\* and has every raw shell file the modules source: no output overwrites
\* another one, and no copy destroys its source.
SplitComplete ==
  stage = "built" /\ mode = "split" =>
    \A p \in ModuleSet \cup ShellCopies : disk[OutOf[p]] = p

\* The entry script is replaced after all the modules it may source: a
\* compilation that breaks off leaves no new entry script beside an old or
\* truncated module.
EntryWrittenLast ==
  mode = "split" /\ disk[OutOf[Entry]] = Entry => \A p \in ModuleSet : disk[OutOf[p]] = p

=============================================================================
