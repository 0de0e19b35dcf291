---------------------------- MODULE BuildProofs -----------------------------
(***************************************************************************)
(* Proofs about a compilation for every job.  A compilation is first of    *)
(* all a load, so what LoaderProofs says of the module list holds of it;   *)
(* the output directory is then correct because nothing is written before  *)
(* all modules are generated, because no two outputs share a path, and     *)
(* because the entry is the last module.                                   *)
(***************************************************************************)
EXTENDS Build, LoaderProofs

\* What each stage knows of the load and of the outputs.
StageOK ==
  /\ stage = "load" => next = 1
  /\ stage \notin {"load", "rejected"} => result = "loaded"
  /\ stage \in {"write", "copy"} => mode = "split"
  /\ stage \in {"generate", "write", "copy"} /\ mode = "split" => ~OutputsCollide

\* Before the first write the output directory is as it was.
UntouchedOK == stage \in {"load", "generate", "checked", "rejected"} => disk = DiskBefore

\* While modules are written, the directory holds the ones before `next`, and
\* besides these only what was there.
WritingOK ==
  stage = "write" =>
    /\ \A i \in 1..(next - 1) : disk[OutOf[modules[i]]] = modules[i]
    /\ \A o \in Out : disk[o] \in {"old"} \cup Raw \cup {modules[i] : i \in 1..(next - 1)}

WrittenOK ==
  stage \in {"copy", "built"} /\ mode = "split" =>
    \A p \in ModuleSet : disk[OutOf[p]] = p

\* A raw shell file is in place, or still to be copied, or was there before.
CopiesOK ==
  stage \in {"generate", "write", "copy"} /\ mode = "split" =>
    /\ copies \subseteq ShellCopies
    /\ \A s \in ShellCopies : inPlace \/ s \notin copies => disk[OutOf[s]] = s

\* A compilation that broke off before its end did not write the entry, unless
\* it had written all the modules.
BrokenOK ==
  stage = "broken" /\ mode = "split" /\ disk[OutOf[Entry]] = Entry =>
    \A p \in ModuleSet : disk[OutOf[p]] = p

BuildInv ==
  /\ StageOK /\ UntouchedOK /\ WritingOK /\ WrittenOK /\ CopiesOK
  /\ SplitComplete /\ BrokenOK

-----------------------------------------------------------------------------
(* A compilation loads as module Loader says. *)

LEMMA BuildStepLoads ==
  ASSUME [BuildNext]_buildVars
  PROVE  [LoadNext]_loadVars
  BY DEF BuildNext, buildVars, LoadStep, LoadRejected, CheckModules, BeginBundle, SplitCollides,
         BeginSplit, GenerateModule, GenerateRejects, WriteBundle, BundleFails, BreaksAt,
         BeginWriting, WriteModule, WriteFails, BeginCopying, CopyShell, CopyFails, EndSplit, EndAs

\* The load of a compilation is a behaviour of LoadSpec: everything proved of
\* load holds at every stage of CheckFile, CompileFile and CompileFileSplit.
THEOREM BuildLoads == BuildSpec => LoadSpec
<1>1. BuildInit => LoadInit
  BY DEF BuildInit
<1>2. [BuildNext]_buildVars => [LoadNext]_loadVars
  BY BuildStepLoads
<1>3. QED
  BY <1>1, <1>2, PTL DEF BuildSpec, LoadSpec

LEMMA BuildLoadInv == BuildSpec => [](LoadTypeOK /\ LoadInv)
  BY BuildLoads, LoadInvHolds, PTL

\* A step after the load, and a step of the load.
LEMMA BuildStepKinds ==
  ASSUME [BuildNext]_buildVars
  PROVE  \/ LoadStep
         \/ UNCHANGED <<loadVars, mode, inPlace>>
  BY DEF BuildNext, buildVars, LoadRejected, CheckModules, BeginBundle, SplitCollides,
         BeginSplit, GenerateModule, GenerateRejects, WriteBundle, BundleFails, BreaksAt,
         BeginWriting, WriteModule, WriteFails, BeginCopying, CopyShell, CopyFails, EndSplit, EndAs

LEMMA TreeKept ==
  ASSUME [LoadNext]_loadVars
  PROVE  tree' = tree
  BY DEF LoadNext, loadVars, EnterOutside, EnterVisited, EnterNew, LoadStdlib, ReadFails,
         ReadAndParse, ImportRejected, SkipShellImport, LoadImport, ValidateRejects,
         UndeclaredCall, FinishModule, Fail

-----------------------------------------------------------------------------
(* Facts of the load that the output rests on. *)

\* No raw shell file is ever loaded as a module.
LEMMA NoRawVisited ==
  ASSUME LoadTypeOK, LoadInv
  PROVE  visited \cap Raw = {}
<1> DEFINE S == Path \ Raw
<1>1. Entry \in S /\ Stdlib \in S
  BY PathAssumption
<1>2. \A p \in S : BeshtImports(tree, p) \subseteq S
  <2> SUFFICES ASSUME NEW p \in S, NEW q \in BeshtImports(tree, p) PROVE q \in S
    OBVIOUS
  <2>1. PICK i \in 1..Len(tree.imports[p]) :
          tree.imports[p][i].kind = "besht" /\ tree.imports[p][i].path = q
    BY DEF BeshtImports
  <2>2. tree.imports[p] \in Seq(Import)
    BY DEF LoadTypeOK, SourceTrees
  <2>3. tree.imports[p][i] \in Import
    BY <2>1, <2>2
  <2>4. QED
    BY <2>1, <2>3 DEF Import
<1>3. ClosedUnderLoads(tree, S)
  BY <1>1, <1>2 DEF ClosedUnderLoads, LoadedBy
<1>4. QED
  BY <1>1, <1>3 DEF LoadInv, LeastOK

LEMMA LoadedFacts ==
  ASSUME LoadTypeOK, LoadInv, result = "loaded"
  PROVE  /\ modules \in Seq(Path)
         /\ Len(modules) \in Nat
         /\ \A i \in 1..Len(modules) : modules[i] \in Path \ Raw
         /\ ModuleSet = {modules[i] : i \in 1..Len(modules)}
         /\ \A i, j \in 1..Len(modules) : modules[i] = modules[j] => i = j
         /\ Entry \in ModuleSet => Len(modules) > 0 /\ modules[Len(modules)] = Entry
<1>1. modules \in Seq(Path) /\ Len(modules) \in Nat /\ DOMAIN modules = 1..Len(modules)
  BY DEF LoadTypeOK
<1>2. \A i \in 1..Len(modules) : modules[i] \in visited /\ modules[i] \in Path
  BY <1>1 DEF LoadInv, ModulesOK
<1>3. \A i \in 1..Len(modules) : modules[i] \in Path \ Raw
  BY <1>2, NoRawVisited
<1>4. ModuleSet = {modules[i] : i \in 1..Len(modules)}
  BY <1>1 DEF ModuleSet, ToSet
<1>5. \A i, j \in 1..Len(modules) : modules[i] = modules[j] => i = j
  BY DEF LoadInv, ModulesOK, NoDuplicateModules
<1>6. Entry \in ModuleSet => Len(modules) > 0 /\ modules[Len(modules)] = Entry
  <2> SUFFICES ASSUME Entry \in ModuleSet PROVE Len(modules) > 0 /\ modules[Len(modules)] = Entry
    OBVIOUS
  <2>1. IsModule(Entry) /\ Entry \in visited
    BY <1>2, <1>4 DEF IsModule
  <2>2. stack = << >>
    BY DEF LoadInv, CallOK
  <2>3. ~OnStack(Entry)
    BY <2>2 DEF OnStack
  <2>4. Entry \in Finished /\ Entry \notin Decl
    BY <2>1, <2>3, PathAssumption DEF LoadInv, ModulesOK, EachFileOnce, Finished
  <2>5. modules # << >> /\ modules[Len(modules)] = Entry
    BY <2>4 DEF LoadInv, EntryOK
  <2>6. QED
    BY <1>1, <2>5, EmptySeq
<1>7. QED
  BY <1>1, <1>3, <1>4, <1>5, <1>6

LEMMA SameLoad ==
  ASSUME tree' = tree, modules' = modules
  PROVE  /\ ModuleSet' = ModuleSet
         /\ ShellCopies' = ShellCopies
         /\ OutputsCollide' <=> OutputsCollide
<1>1. ModuleSet' = ModuleSet
  BY DEF ModuleSet
<1>2. \A p : ShellImports(p)' = ShellImports(p)
  BY DEF ShellImports
<1>3. ShellCopies' = ShellCopies
  BY <1>1, <1>2 DEF ShellCopies
<1>4. QED
  BY <1>1, <1>3 DEF OutputsCollide

LEMMA DiskBeforeKept ==
  ASSUME tree' = tree, inPlace' = inPlace
  PROVE  DiskBefore' = DiskBefore
<1>1. \A p : ShellImports(p)' = ShellImports(p)
  BY DEF ShellImports
<1>2. RawFiles' = RawFiles
  BY <1>1 DEF RawFiles
<1>3. QED
  BY <1>2 DEF DiskBefore

\* The raw shell files, and where a compilation in place finds them.
LEMMA RawHome ==
  ASSUME LoadTypeOK
  PROVE  /\ RawFiles \subseteq Raw
         /\ ShellCopies \subseteq RawFiles
         /\ DiskBefore \in [Out -> Raw \cup {"old"}]
         /\ inPlace => \A s \in RawFiles : DiskBefore[OutOf[s]] = s
<1>1. \A p \in Path : ShellImports(p) \subseteq Raw
  <2> SUFFICES ASSUME NEW p \in Path, NEW i \in DOMAIN tree.imports[p], IsShell(tree.imports[p][i])
               PROVE  tree.imports[p][i].path \in Raw
    BY DEF ShellImports, ToSet
  <2>1. tree.imports[p] \in Seq(Import)
    BY DEF LoadTypeOK, SourceTrees
  <2>2. tree.imports[p][i] \in Import
    BY <2>1
  <2>3. QED
    BY <2>2 DEF Import, IsShell
<1>2. RawFiles \subseteq Raw
  BY <1>1 DEF RawFiles
<1>3. ModuleSet \subseteq Path
  BY DEF LoadTypeOK, ModuleSet, ToSet
<1>4. ShellCopies \subseteq RawFiles
  BY <1>3 DEF ShellCopies, RawFiles
<1>5. \A o \in Out : (\E s \in RawFiles : OutOf[s] = o) =>
        (CHOOSE s \in RawFiles : OutOf[s] = o) \in RawFiles /\ OutOf[CHOOSE s \in RawFiles : OutOf[s] = o] = o
  OBVIOUS
<1>6. DiskBefore \in [Out -> Raw \cup {"old"}]
  BY <1>2, <1>5 DEF DiskBefore
<1>7. ASSUME inPlace, NEW s \in RawFiles PROVE DiskBefore[OutOf[s]] = s
  <2>1. s \in Raw /\ s \in Path /\ OutOf[s] \in Out
    BY <1>2, PathAssumption, OutAssumption
  <2>2. DiskBefore[OutOf[s]] = CHOOSE r \in RawFiles : OutOf[r] = OutOf[s]
    BY <1>7, <2>1 DEF DiskBefore
  <2>3. DiskBefore[OutOf[s]] \in RawFiles /\ OutOf[DiskBefore[OutOf[s]]] = OutOf[s]
    BY <1>5, <2>1, <2>2
  <2>4. QED
    BY <1>2, <2>1, <2>3, OutAssumption
<1>8. QED
  BY <1>2, <1>4, <1>6, <1>7

-----------------------------------------------------------------------------
(* Types. *)

LEMMA TypeKept ==
  ASSUME LoadTypeOK, LoadTypeOK', StageOK, BuildTypeOK, [BuildNext]_buildVars
  PROVE  BuildTypeOK'
<1> USE DEF BuildTypeOK
<1>0. Len(modules) \in Nat /\ Len(modules') \in Nat /\ modules \in Seq(Path)
  BY DEF LoadTypeOK
<1>1. CASE LoadStep
  BY <1>0, <1>1 DEF LoadStep, outputVars, StageOK
<1>2. CASE LoadRejected \/ CheckModules \/ SplitCollides \/ GenerateRejects \/ EndSplit
  BY <1>2 DEF LoadRejected, CheckModules, SplitCollides, GenerateRejects, EndSplit, EndAs, loadVars, Stage
<1>3. CASE BeginBundle \/ BeginCopying
  BY <1>3 DEF BeginBundle, BeginCopying, loadVars, Stage
<1>4. CASE BeginSplit
  <2>1. ShellCopies \subseteq Path
    BY RawHome, PathAssumption
  <2>2. QED
    BY <1>4, <2>1 DEF BeginSplit, loadVars, Stage
<1>5. CASE GenerateModule
  BY <1>0, <1>5 DEF GenerateModule, More, loadVars, Stage
<1>6. CASE WriteBundle
  BY <1>6, OutAssumption DEF WriteBundle, loadVars, Stage
<1>7. CASE BundleFails
  BY <1>7, OutAssumption DEF BundleFails, BreaksAt, loadVars, Stage
<1>8. CASE BeginWriting
  BY <1>0, <1>8 DEF BeginWriting, loadVars, Stage
<1>9. CASE WriteModule
  <2>1. Current \in Path
    BY <1>0, <1>9 DEF WriteModule, More, Current
  <2>2. disk' \in [Out -> Path \cup {"old", "partial", "bundle"}]
    BY <1>9, <2>1 DEF WriteModule
  <2>3. modules' = modules /\ next' \in 1..(Len(modules) + 1)
    BY <1>0, <1>9 DEF WriteModule, More, loadVars
  <2>4. QED
    BY <1>9, <2>2, <2>3 DEF WriteModule, Stage
<1>10. CASE WriteFails
  BY <1>10 DEF WriteFails, BreaksAt, loadVars, Stage
<1>11. CASE CopyShell
  BY <1>11 DEF CopyShell, loadVars, Stage
<1>12. CASE CopyFails
  BY <1>12 DEF CopyFails, EndAs, BreaksAt, loadVars, Stage
<1>13. CASE UNCHANGED buildVars
  BY <1>13 DEF buildVars, loadVars, outputVars
<1>14. QED
  BY <1>1, <1>2, <1>3, <1>4, <1>5, <1>6, <1>7, <1>8, <1>9, <1>10, <1>11, <1>12, <1>13 DEF BuildNext

-----------------------------------------------------------------------------
(* The invariant of the output directory. *)

LEMMA StageKept ==
  ASSUME StageOK, [BuildNext]_buildVars
  PROVE  StageOK'
<1>1. CASE LoadStep
  BY <1>1 DEF StageOK, LoadStep, outputVars
<1>2. CASE UNCHANGED <<loadVars, mode, inPlace>>
  <2>1. OutputsCollide' <=> OutputsCollide
    BY <1>2, SameLoad DEF loadVars
  <2>2. result' = result /\ mode' = mode
    BY <1>2 DEF loadVars
  <2>3. QED
    BY <2>1, <2>2 DEF StageOK, BuildNext, buildVars, LoadStep, LoadRejected, CheckModules, BeginBundle,
         SplitCollides, BeginSplit, GenerateModule, GenerateRejects, WriteBundle, BundleFails, BreaksAt,
         BeginWriting, WriteModule, WriteFails, BeginCopying, CopyShell, CopyFails, EndSplit, EndAs,
         Loaded, outputVars, Errors
<1>3. QED
  BY <1>1, <1>2, BuildStepKinds

LEMMA UntouchedKept ==
  ASSUME UntouchedOK, [BuildNext]_buildVars
  PROVE  UntouchedOK'
<1>1. tree' = tree /\ inPlace' = inPlace
  BY BuildStepKinds, BuildStepLoads, TreeKept DEF LoadStep
<1>2. DiskBefore' = DiskBefore
  BY <1>1, DiskBeforeKept
<1>3. stage' \in {"load", "generate", "checked", "rejected"} =>
        stage \in {"load", "generate", "checked", "rejected"} /\ disk' = disk
  BY DEF BuildNext, buildVars, LoadStep, LoadRejected, CheckModules, BeginBundle,
         SplitCollides, BeginSplit, GenerateModule, GenerateRejects, WriteBundle, BundleFails, BreaksAt,
         BeginWriting, WriteModule, WriteFails, BeginCopying, CopyShell, CopyFails, EndSplit, EndAs,
         Loaded, outputVars
<1>4. QED
  BY <1>2, <1>3 DEF UntouchedOK

\* The outputs of two modules, or of a module and a raw shell file, differ.
LEMMA OutputsDiffer ==
  ASSUME ~OutputsCollide
  PROVE  /\ \A p, q \in ModuleSet : p # q => OutOf[p] # OutOf[q]
         /\ \A p \in ModuleSet, s \in ShellCopies : OutOf[p] # OutOf[s]
  BY DEF OutputsCollide

\* What is known when a module is about to be written.
LEMMA WriteFacts ==
  ASSUME LoadTypeOK, LoadInv, BuildTypeOK, StageOK, stage = "write", More
  PROVE  /\ next \in 1..Len(modules)
         /\ Current = modules[next] /\ Current \in ModuleSet /\ Current \in Path \ Raw
         /\ \A i \in 1..(next - 1) : modules[i] \in ModuleSet /\ OutOf[modules[i]] # OutOf[Current]
         /\ \A s \in ShellCopies : OutOf[s] # OutOf[Current]
<1>1. result = "loaded" /\ ~OutputsCollide
  BY DEF StageOK
<1>2. /\ Len(modules) \in Nat
      /\ ModuleSet = {modules[i] : i \in 1..Len(modules)}
      /\ \A i \in 1..Len(modules) : modules[i] \in Path \ Raw
      /\ \A i, j \in 1..Len(modules) : modules[i] = modules[j] => i = j
  BY <1>1, LoadedFacts
<1>3. next \in 1..Len(modules)
  BY <1>2 DEF BuildTypeOK, More
<1>4. \A i \in 1..(next - 1) : i \in 1..Len(modules) /\ i # next
  BY <1>2, <1>3
<1>5. Current \in ModuleSet /\ Current \in Path \ Raw
  BY <1>2, <1>3 DEF Current
<1>6. \A i \in 1..(next - 1) : modules[i] \in ModuleSet /\ modules[i] # Current
  BY <1>2, <1>3, <1>4 DEF Current
<1>7. QED
  BY <1>1, <1>3, <1>5, <1>6, OutputsDiffer DEF Current

LEMMA WritingKept ==
  ASSUME LoadTypeOK, LoadInv, BuildTypeOK, StageOK, UntouchedOK, WritingOK, [BuildNext]_buildVars
  PROVE  WritingOK'
<1> SUFFICES ASSUME stage' = "write" PROVE WritingOK'
  BY DEF WritingOK
<1>1. BeginWriting \/ WriteModule \/ (UNCHANGED buildVars /\ stage = "write")
  BY DEF BuildNext, buildVars, LoadStep, LoadRejected, CheckModules, BeginBundle,
         SplitCollides, BeginSplit, GenerateModule, GenerateRejects, WriteBundle, BundleFails, BreaksAt,
         WriteFails, BeginCopying, CopyShell, CopyFails, EndSplit, EndAs, outputVars
<1>2. CASE BeginWriting
  <2>1. disk' = DiskBefore /\ next' = 1
    BY <1>2 DEF BeginWriting, UntouchedOK
  <2>2. DiskBefore \in [Out -> Raw \cup {"old"}]
    BY RawHome
  <2>3. QED
    BY <2>1, <2>2 DEF WritingOK
<1>3. CASE WriteModule
  <2>1. /\ next \in 1..Len(modules)
        /\ Current = modules[next]
        /\ \A i \in 1..(next - 1) : modules[i] \in ModuleSet /\ OutOf[modules[i]] # OutOf[Current]
    BY <1>3, WriteFacts DEF WriteModule
  <2>2. /\ disk' = [disk EXCEPT ![OutOf[Current]] = Current]
        /\ next' = next + 1 /\ modules' = modules /\ stage = "write"
    BY <1>3 DEF WriteModule, loadVars
  <2>3. disk \in [Out -> Path \cup {"old", "partial", "bundle"}] /\ Len(modules) \in Nat
    BY DEF BuildTypeOK, LoadTypeOK
  <2>4. Current \in Path /\ OutOf[Current] \in Out /\ disk'[OutOf[Current]] = Current
    BY <1>3, <2>2, <2>3, WriteFacts, OutAssumption DEF WriteModule
  <2>5. \A o \in Out : o # OutOf[Current] => disk'[o] = disk[o]
    BY <2>2, <2>3
  <2>6. \A i \in 1..(next' - 1) : i = next \/ i \in 1..(next - 1)
    BY <2>1, <2>2
  <2>7. \A i \in 1..(next' - 1) : disk'[OutOf[modules[i]]] = modules[i]
    <3> SUFFICES ASSUME NEW i \in 1..(next' - 1) PROVE disk'[OutOf[modules[i]]] = modules[i]
      OBVIOUS
    <3>1. CASE i = next
      BY <2>1, <2>4, <3>1
    <3>2. CASE i \in 1..(next - 1)
      <4>1. modules[i] \in Path /\ OutOf[modules[i]] \in Out
        BY <2>1, <3>2, OutAssumption DEF LoadTypeOK, ModuleSet, ToSet
      <4>2. QED
        BY <2>1, <2>2, <2>5, <3>2, <4>1 DEF WritingOK
    <3>3. QED
      BY <2>6, <3>1, <3>2
  <2>8. next \in 1..(next' - 1) /\ \A i \in 1..(next - 1) : i \in 1..(next' - 1)
    BY <2>1, <2>2
  <2>9. \A o \in Out : disk'[o] \in {"old"} \cup Raw \cup {modules[i] : i \in 1..(next' - 1)}
    <3> SUFFICES ASSUME NEW o \in Out
                 PROVE  disk'[o] \in {"old"} \cup Raw \cup {modules[i] : i \in 1..(next' - 1)}
      OBVIOUS
    <3>1. CASE o = OutOf[Current]
      BY <2>1, <2>4, <2>8, <3>1
    <3>2. CASE o # OutOf[Current]
      BY <2>2, <2>5, <2>8, <3>2 DEF WritingOK
    <3>3. QED
      BY <3>1, <3>2
  <2>10. QED
    BY <2>2, <2>7, <2>9 DEF WritingOK
<1>4. CASE UNCHANGED buildVars /\ stage = "write"
  BY <1>4 DEF WritingOK, buildVars, loadVars, outputVars
<1>5. QED
  BY <1>1, <1>2, <1>3, <1>4

\* What is known of a raw shell file that is about to be copied.
LEMMA CopyFacts ==
  ASSUME LoadTypeOK, BuildTypeOK, StageOK, CopiesOK, stage = "copy", NEW s \in copies
  PROVE  /\ s \in ShellCopies /\ OutOf[s] \in Out
         /\ \A p \in ModuleSet : OutOf[p] \in Out /\ OutOf[p] # OutOf[s]
         /\ \A r \in ShellCopies : OutOf[r] \in Out /\ (r # s => OutOf[r] # OutOf[s])
<1>1. mode = "split" /\ ~OutputsCollide
  BY DEF StageOK
<1>2. s \in ShellCopies
  BY <1>1 DEF CopiesOK
<1>3. ModuleSet \subseteq Path
  BY DEF LoadTypeOK, ModuleSet, ToSet
<1>4. ShellCopies \subseteq Raw /\ ShellCopies \subseteq Path
  BY RawHome, PathAssumption
<1>5. \A p \in ModuleSet : OutOf[p] \in Out /\ OutOf[p] # OutOf[s]
  BY <1>1, <1>2, <1>3, OutputsDiffer, OutAssumption
<1>6. \A r \in ShellCopies : OutOf[r] \in Out /\ (r # s => OutOf[r] # OutOf[s])
  BY <1>2, <1>4, OutAssumption
<1>7. QED
  BY <1>2, <1>5, <1>6

LEMMA WrittenKept ==
  ASSUME LoadTypeOK, LoadInv, BuildTypeOK, StageOK, WritingOK, WrittenOK, CopiesOK,
         [BuildNext]_buildVars
  PROVE  WrittenOK'
<1> SUFFICES ASSUME stage' \in {"copy", "built"}, mode' = "split" PROVE WrittenOK'
  BY DEF WrittenOK
<1>1. BeginCopying \/ CopyShell \/ EndSplit \/ UNCHANGED buildVars
  BY DEF BuildNext, buildVars, LoadStep, LoadRejected, CheckModules, BeginBundle,
         SplitCollides, BeginSplit, GenerateModule, GenerateRejects, WriteBundle, BundleFails, BreaksAt,
         WriteModule, WriteFails, BeginWriting, CopyFails, EndAs, outputVars
<1>2. UNCHANGED <<loadVars, mode, inPlace>>
  BY <1>1 DEF BeginCopying, CopyShell, EndSplit, EndAs, buildVars
<1>3. ModuleSet' = ModuleSet /\ tree' = tree /\ mode' = mode
  BY <1>2, SameLoad DEF loadVars
<1>4. CASE BeginCopying
  <2>1. result = "loaded"
    BY <1>4 DEF BeginCopying, StageOK
  <2>2. Len(modules) \in Nat /\ ModuleSet = {modules[i] : i \in 1..Len(modules)}
    BY <2>1, LoadedFacts
  <2>3. \A i \in 1..Len(modules) : i \in 1..(next - 1)
    BY <1>4, <2>2 DEF BeginCopying, More, BuildTypeOK
  <2>4. \A p \in ModuleSet : disk[OutOf[p]] = p
    BY <1>4, <2>2, <2>3 DEF BeginCopying, WritingOK
  <2>5. QED
    BY <1>3, <1>4, <2>4 DEF BeginCopying, WrittenOK
<1>5. CASE CopyShell
  <2>1. PICK s \in copies : disk' = IF inPlace THEN disk ELSE [disk EXCEPT ![OutOf[s]] = s]
    BY <1>5 DEF CopyShell
  <2>2. stage = "copy"
    BY <1>5 DEF CopyShell
  <2>3. \A p \in ModuleSet : OutOf[p] \in Out /\ OutOf[p] # OutOf[s]
    BY <2>2, CopyFacts
  <2>4. DOMAIN disk = Out
    BY DEF BuildTypeOK
  <2>5. \A p \in ModuleSet : disk'[OutOf[p]] = disk[OutOf[p]]
    BY <2>1, <2>3, <2>4
  <2>6. \A p \in ModuleSet : disk[OutOf[p]] = p
    BY <2>2 DEF WrittenOK, StageOK
  <2>7. QED
    BY <1>3, <2>5, <2>6 DEF WrittenOK
<1>6. CASE EndSplit
  BY <1>3, <1>6 DEF EndSplit, EndAs, WrittenOK
<1>7. CASE UNCHANGED buildVars
  BY <1>3, <1>7 DEF buildVars, outputVars, WrittenOK
<1>8. QED
  BY <1>1, <1>4, <1>5, <1>6, <1>7

LEMMA CopiesKept ==
  ASSUME LoadTypeOK, LoadInv, BuildTypeOK, StageOK, UntouchedOK, CopiesOK, [BuildNext]_buildVars
  PROVE  CopiesOK'
<1> SUFFICES ASSUME stage' \in {"generate", "write", "copy"}, mode' = "split" PROVE CopiesOK'
  BY DEF CopiesOK
<1>1. \/ BeginSplit \/ WriteModule \/ CopyShell
      \/ /\ stage \in {"generate", "write", "copy"}
         /\ UNCHANGED <<loadVars, mode, inPlace, copies, disk>>
  BY DEF BuildNext, buildVars, LoadStep, LoadRejected, CheckModules, BeginBundle,
         SplitCollides, BeginSplit, GenerateModule, GenerateRejects, WriteBundle, BundleFails, BreaksAt,
         BeginWriting, WriteFails, BeginCopying, CopyFails, EndSplit, EndAs, outputVars, Loaded
<1>2. UNCHANGED <<loadVars, mode, inPlace>>
  BY <1>1 DEF BeginSplit, WriteModule, CopyShell
<1>3. ShellCopies' = ShellCopies /\ inPlace' = inPlace /\ mode = "split"
  BY <1>2, SameLoad DEF loadVars
<1>4. CASE BeginSplit
  <2>1. disk' = DiskBefore /\ copies' = ShellCopies
    BY <1>4 DEF BeginSplit, Loaded, UntouchedOK
  <2>2. \A s \in ShellCopies : inPlace => DiskBefore[OutOf[s]] = s
    BY RawHome
  <2>3. QED
    BY <1>3, <2>1, <2>2 DEF CopiesOK
<1>5. CASE WriteModule
  <2>1. stage = "write" /\ copies' = copies /\ disk' = [disk EXCEPT ![OutOf[Current]] = Current]
    BY <1>5 DEF WriteModule
  <2>2. \A s \in ShellCopies : OutOf[s] \in Out /\ OutOf[s] # OutOf[Current]
    BY <1>5, WriteFacts, RawHome, PathAssumption, OutAssumption DEF WriteModule
  <2>3. \A s \in ShellCopies : disk'[OutOf[s]] = disk[OutOf[s]]
    BY <2>1, <2>2 DEF BuildTypeOK
  <2>4. QED
    BY <1>3, <2>1, <2>3 DEF CopiesOK
<1>6. CASE CopyShell
  <2>1. PICK s \in copies : /\ disk' = IF inPlace THEN disk ELSE [disk EXCEPT ![OutOf[s]] = s]
                            /\ copies' = copies \ {s}
    BY <1>6 DEF CopyShell
  <2>2. stage = "copy"
    BY <1>6 DEF CopyShell
  <2>3. /\ s \in ShellCopies /\ OutOf[s] \in Out
        /\ \A r \in ShellCopies : OutOf[r] \in Out /\ (r # s => OutOf[r] # OutOf[s])
    BY <2>2, CopyFacts
  <2>4. CASE inPlace
    BY <1>3, <2>1, <2>2, <2>4 DEF CopiesOK
  <2>5. CASE ~inPlace
    <3>1. disk'[OutOf[s]] = s
      BY <2>1, <2>3, <2>5 DEF BuildTypeOK
    <3>2. \A r \in ShellCopies : r # s => disk'[OutOf[r]] = disk[OutOf[r]]
      BY <2>1, <2>3, <2>5 DEF BuildTypeOK
    <3>3. QED
      BY <1>3, <2>1, <2>2, <2>5, <3>1, <3>2 DEF CopiesOK
  <2>6. QED
    BY <2>4, <2>5
<1>7. CASE /\ stage \in {"generate", "write", "copy"}
           /\ UNCHANGED <<loadVars, mode, inPlace, copies, disk>>
  BY <1>3, <1>7 DEF CopiesOK
<1>8. QED
  BY <1>1, <1>4, <1>5, <1>6, <1>7

LEMMA CompleteKept ==
  ASSUME WrittenOK, StageOK, CopiesOK, SplitComplete, [BuildNext]_buildVars
  PROVE  SplitComplete'
<1> SUFFICES ASSUME stage' = "built", mode' = "split" PROVE SplitComplete'
  BY DEF SplitComplete
<1>1. EndSplit \/ UNCHANGED buildVars
  BY DEF BuildNext, buildVars, LoadStep, LoadRejected, CheckModules, BeginBundle,
         SplitCollides, BeginSplit, GenerateModule, GenerateRejects, WriteBundle, BundleFails, BreaksAt,
         BeginWriting, WriteModule, WriteFails, BeginCopying, CopyShell, CopyFails, EndAs, outputVars
<1>2. UNCHANGED <<loadVars, mode, inPlace, disk>>
  BY <1>1 DEF EndSplit, EndAs, buildVars, outputVars
<1>3. ModuleSet' = ModuleSet /\ ShellCopies' = ShellCopies /\ mode = "split" /\ disk' = disk
  BY <1>2, SameLoad DEF loadVars
<1>4. CASE EndSplit
  <2>1. stage = "copy" /\ copies = {}
    BY <1>4 DEF EndSplit
  <2>2. \A p \in ModuleSet \cup ShellCopies : disk[OutOf[p]] = p
    BY <1>3, <2>1 DEF WrittenOK, CopiesOK
  <2>3. QED
    BY <1>3, <2>2 DEF SplitComplete
<1>5. CASE UNCHANGED buildVars
  BY <1>3, <1>5 DEF SplitComplete, buildVars, outputVars
<1>6. QED
  BY <1>1, <1>4, <1>5

\* Before the last module is written no output is the entry's.
LEMMA EntryStillAbsent ==
  ASSUME LoadTypeOK, LoadInv, BuildTypeOK, StageOK, WritingOK, stage = "write", More
  PROVE  disk[OutOf[Entry]] # Entry
<1> SUFFICES ASSUME disk[OutOf[Entry]] = Entry PROVE FALSE
  OBVIOUS
<1>1. result = "loaded"
  BY DEF StageOK
<1>2. /\ Len(modules) \in Nat
      /\ ModuleSet = {modules[i] : i \in 1..Len(modules)}
      /\ \A i, j \in 1..Len(modules) : modules[i] = modules[j] => i = j
      /\ Entry \in ModuleSet => Len(modules) > 0 /\ modules[Len(modules)] = Entry
  BY <1>1, LoadedFacts
<1>3. next \in 1..Len(modules)
  BY WriteFacts
<1>4. Entry \in Path /\ Entry \notin Raw /\ Entry # "old" /\ OutOf[Entry] \in Out
  BY PathAssumption, OutAssumption
<1>5. PICK i \in 1..(next - 1) : modules[i] = Entry
  BY <1>4 DEF WritingOK
<1>6. i \in 1..Len(modules) /\ i < Len(modules)
  BY <1>2, <1>3
<1>7. QED
  BY <1>2, <1>5, <1>6

LEMMA BrokenKept ==
  ASSUME LoadTypeOK, LoadInv, BuildTypeOK, StageOK, WritingOK, WrittenOK, CopiesOK, BrokenOK,
         [BuildNext]_buildVars
  PROVE  BrokenOK'
<1> SUFFICES ASSUME stage' = "broken", mode' = "split", disk'[OutOf[Entry]] = Entry
             PROVE  BrokenOK'
  BY DEF BrokenOK
<1>1. WriteFails \/ CopyFails \/ UNCHANGED buildVars
  BY DEF BuildNext, buildVars, LoadStep, LoadRejected, CheckModules, BeginBundle,
         SplitCollides, BeginSplit, GenerateModule, GenerateRejects, WriteBundle, BundleFails, BreaksAt,
         BeginWriting, WriteModule, BeginCopying, CopyShell, EndSplit, EndAs, outputVars
<1>2. UNCHANGED <<loadVars, mode, inPlace>>
  BY <1>1 DEF WriteFails, CopyFails, BreaksAt, EndAs, buildVars
<1>3. ModuleSet' = ModuleSet /\ mode = "split"
  BY <1>2, SameLoad DEF loadVars
<1>4. Entry \in Path /\ Entry # "partial" /\ OutOf[Entry] \in Out
  BY PathAssumption, OutAssumption
<1>5. CASE WriteFails
  <2>1. disk[OutOf[Entry]] # Entry
    BY <1>5, EntryStillAbsent DEF WriteFails
  <2>2. disk'[OutOf[Entry]] # Entry
    BY <1>4, <1>5, <2>1 DEF WriteFails, BreaksAt, BuildTypeOK
  <2>3. QED
    BY <2>2
<1>6. CASE CopyFails
  <2>1. stage = "copy"
    BY <1>6 DEF CopyFails
  <2>2. PICK s \in copies : disk' \in {disk, [disk EXCEPT ![OutOf[s]] = "partial"]}
    BY <1>6 DEF CopyFails, EndAs, BreaksAt
  <2>3. \A p \in ModuleSet : OutOf[p] \in Out /\ OutOf[p] # OutOf[s]
    BY <2>1, CopyFacts
  <2>4. DOMAIN disk = Out
    BY DEF BuildTypeOK
  <2>5. \A p \in ModuleSet : disk'[OutOf[p]] = disk[OutOf[p]]
    BY <2>2, <2>3, <2>4
  <2>6. \A p \in ModuleSet : disk[OutOf[p]] = p
    BY <2>1 DEF WrittenOK, StageOK
  <2>7. QED
    BY <1>3, <2>5, <2>6 DEF BrokenOK
<1>7. CASE UNCHANGED buildVars
  BY <1>3, <1>7 DEF BrokenOK, buildVars, outputVars
<1>8. QED
  BY <1>1, <1>5, <1>6, <1>7

-----------------------------------------------------------------------------

LEMMA BuildStarts ==
  ASSUME BuildInit
  PROVE  LoadTypeOK => BuildTypeOK /\ BuildInv
<1> SUFFICES ASSUME LoadTypeOK PROVE BuildTypeOK /\ BuildInv
  OBVIOUS
<1>1. DiskBefore \in [Out -> Path \cup {"old", "partial", "bundle"}]
  BY RawHome, PathAssumption
<1>2. Len(modules) \in Nat
  BY DEF LoadTypeOK
<1>3. BuildTypeOK
  BY <1>1, <1>2 DEF BuildInit, BuildTypeOK, Stage
<1>4. BuildInv
  BY DEF BuildInit, BuildInv, StageOK, UntouchedOK, WritingOK, WrittenOK, CopiesOK, SplitComplete, BrokenOK
<1>5. QED
  BY <1>3, <1>4

\* Types and the invariant of the output directory hold of every job.
LEMMA BuildInvHolds == BuildSpec => [](LoadTypeOK /\ LoadInv /\ BuildTypeOK /\ BuildInv)
<1> DEFINE L == LoadTypeOK /\ LoadInv
           B == BuildTypeOK /\ BuildInv
<1>1. BuildInit /\ L => B
  BY BuildStarts
<1>2. L /\ L' /\ B /\ [BuildNext]_buildVars => B'
  <2> SUFFICES ASSUME LoadTypeOK, LoadInv, LoadTypeOK', BuildTypeOK, BuildInv, [BuildNext]_buildVars
               PROVE  BuildTypeOK' /\ BuildInv'
    OBVIOUS
  <2> USE DEF BuildInv
  <2>1. BuildTypeOK'
    BY TypeKept
  <2>2. StageOK' /\ UntouchedOK'
    BY StageKept, UntouchedKept
  <2>3. WritingOK' /\ WrittenOK'
    BY WritingKept, WrittenKept
  <2>4. CopiesOK' /\ SplitComplete'
    BY CopiesKept, CompleteKept
  <2>5. BrokenOK'
    BY BrokenKept
  <2>6. QED
    BY <2>1, <2>2, <2>3, <2>4, <2>5
<1>3. BuildSpec => []L
  BY BuildLoadInv
<1> HIDE DEF L, B
<1>4. BuildSpec => []B
  BY <1>1, <1>2, <1>3, PTL DEF BuildSpec
<1>5. L /\ B => LoadTypeOK /\ LoadInv /\ BuildTypeOK /\ BuildInv
  BY DEF L, B
<1>6. QED
  BY <1>3, <1>4, <1>5, PTL

\* The state of every compilation keeps its type.
THEOREM BuildTypeCorrect == BuildSpec => []BuildTypeOK
  BY BuildInvHolds, PTL

\* A compilation that rejects its program, or only checks it, leaves the output
\* directory as it was.
THEOREM RejectedLeavesDisk == BuildSpec => []RejectedWritesNothing
<1>1. BuildInv => RejectedWritesNothing
  BY DEF BuildInv, UntouchedOK, RejectedWritesNothing
<1>2. QED
  BY <1>1, BuildInvHolds, PTL

\* A split compilation that ends well has all its outputs, each as it was made.
THEOREM SplitIsComplete == BuildSpec => []SplitComplete
<1>1. BuildInv => SplitComplete
  BY DEF BuildInv
<1>2. QED
  BY <1>1, BuildInvHolds, PTL

\* Whenever a split compilation stops, by its end or by a failed write, a new
\* entry script stands beside new modules only.
THEOREM EntryIsWrittenLast == BuildSpec => []EntryWrittenLast
<1>1. LoadTypeOK /\ LoadInv /\ BuildTypeOK /\ BuildInv => EntryWrittenLast
  <2> SUFFICES ASSUME LoadTypeOK, LoadInv, BuildTypeOK, BuildInv,
                      mode = "split", disk[OutOf[Entry]] = Entry
               PROVE  \A p \in ModuleSet : disk[OutOf[p]] = p
    BY DEF EntryWrittenLast
  <2> USE DEF BuildInv
  <2>1. Entry \in Path /\ Entry \notin Raw /\ Entry # "old" /\ OutOf[Entry] \in Out
    BY PathAssumption, OutAssumption
  <2>2. CASE stage \in {"load", "generate", "checked", "rejected"}
    BY <2>1, <2>2, RawHome DEF UntouchedOK
  <2>3. CASE stage = "write"
    <3>1. ~More
      BY <2>3, EntryStillAbsent
    <3>2. Len(modules) \in Nat /\ ModuleSet = {modules[i] : i \in 1..Len(modules)}
      BY <2>3, LoadedFacts DEF StageOK
    <3>3. \A i \in 1..Len(modules) : i \in 1..(next - 1)
      BY <3>1, <3>2 DEF More, BuildTypeOK
    <3>4. QED
      BY <2>3, <3>2, <3>3 DEF WritingOK
  <2>4. CASE stage \in {"copy", "built"}
    BY <2>4 DEF WrittenOK
  <2>5. CASE stage = "broken"
    BY <2>5 DEF BrokenOK
  <2>6. QED
    BY <2>2, <2>3, <2>4, <2>5 DEF BuildTypeOK, Stage
<1>2. QED
  BY <1>1, BuildInvHolds, PTL

=============================================================================
