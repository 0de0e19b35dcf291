----------------------------- MODULE RunProofs ------------------------------
(***************************************************************************)
(* Proofs about the script and sh for every program: what the generated    *)
(* texts are made of, and the types of the running script.  A compilation  *)
(* and the run of what it wrote are first of all a compilation, so all of  *)
(* BuildProofs holds of them.                                              *)
(***************************************************************************)
EXTENDS OrderProofs, BuildProofs

-----------------------------------------------------------------------------
(* The compiler's part. *)

LEMMA ProgramStepBuilds ==
  ASSUME [ProgramNext]_programVars
  PROVE  [BuildNext]_buildVars
  BY DEF ProgramNext, programVars, CompileStep, StartScript, ShStep, EndOfFile, SetRoot, GuardReturns,
         GuardPasses, SourceModule, SourceShell, RunShellFile, RunBody

LEMMA ProgramBuilds == ProgramSpec => BuildSpec
<1>1. ProgramInit => BuildInit
  BY DEF ProgramInit
<1>2. [ProgramNext]_programVars => [BuildNext]_buildVars
  BY ProgramStepBuilds
<1>3. QED
  BY <1>1, <1>2, PTL DEF ProgramSpec, BuildSpec

\* A check generates nothing.
ModeOK == stage \in {"generate", "write", "copy", "built"} => mode \in {"bundle", "split"}

LEMMA ModeHolds == BuildSpec => []ModeOK
<1>1. BuildInit => ModeOK
  BY DEF BuildInit, ModeOK
<1>2. ModeOK /\ [BuildNext]_buildVars => ModeOK'
  BY DEF ModeOK, BuildNext, buildVars, outputVars, LoadStep, LoadRejected, CheckModules, Loaded, BeginBundle,
         SplitCollides, BeginSplit, GenerateModule, GenerateRejects, WriteBundle, BundleFails, BreaksAt,
         BeginWriting, WriteModule, WriteFails, BeginCopying, CopyShell, CopyFails, EndSplit, EndAs
<1>3. QED
  BY <1>1, <1>2, PTL DEF BuildSpec

CompilerInv == LoadTypeOK /\ TraversalInv /\ DepsFirst /\ BuildTypeOK /\ BuildInv /\ ModeOK

LEMMA CompilerHolds == ProgramSpec => []CompilerInv
<1>1. ProgramSpec => BuildSpec
  BY ProgramBuilds
<1>2. BuildSpec => LoadSpec
  BY BuildLoads
<1>3. LoadTypeOK /\ TraversalInv /\ DepsFirst /\ BuildTypeOK /\ BuildInv /\ ModeOK => CompilerInv
  BY DEF CompilerInv
<1>4. QED
  BY <1>1, <1>2, <1>3, TraversalHolds, LoadsDepsFirst, BuildInvHolds, ModeHolds, PTL

\* The compilation is over when sh runs.
LEMMA BuiltStays ==
  ASSUME stage = "built", [BuildNext]_buildVars
  PROVE  UNCHANGED buildVars
  BY DEF BuildNext, buildVars, LoadStep, LoadRejected, CheckModules, Loaded, BeginBundle, SplitCollides,
         BeginSplit, GenerateModule, GenerateRejects, WriteBundle, BundleFails,
         BeginWriting, WriteModule, WriteFails, BeginCopying, CopyShell, CopyFails, EndSplit, EndAs

\* What a finished compilation leaves to sh.
LEMMA Finally ==
  ASSUME CompilerInv, stage = "built"
  PROVE  /\ mode \in {"bundle", "split"}
         /\ result = "loaded" /\ stack = << >> /\ call = NoPath /\ Finished = visited
         /\ modules \in Seq(Path) /\ Len(modules) \in Nat
         /\ \A i, j \in 1..Len(modules) : modules[i] = modules[j] => i = j
         /\ ModuleSet = {modules[i] : i \in 1..Len(modules)}
         /\ ModuleSet = visited \ Decl /\ ModuleSet \subseteq Path \ Raw
         /\ Entry \in visited
         /\ mode = "split" => \A p \in ModuleSet : disk[OutOf[p]] = p
<1> USE DEF CompilerInv, TraversalInv
<1>1. result = "loaded"
  BY DEF BuildInv, StageOK
<1>2. stack = << >> /\ call = NoPath /\ Entry \in visited
  BY <1>1 DEF LoadInv, CallOK
<1>3. \A p \in visited : ~OnStack(p)
  BY <1>2 DEF OnStack
<1>4. Finished = visited
  BY <1>3 DEF Finished
<1>5. \A p \in visited : IsModule(p) <=> p \notin Decl
  BY <1>3 DEF LoadInv, ModulesOK, EachFileOnce
<1>6. /\ modules \in Seq(Path) /\ Len(modules) \in Nat
      /\ \A i \in 1..Len(modules) : modules[i] \in Path \ Raw
      /\ ModuleSet = {modules[i] : i \in 1..Len(modules)}
      /\ \A i, j \in 1..Len(modules) : modules[i] = modules[j] => i = j
  BY <1>1, LoadedFacts
<1>7. \A i \in 1..Len(modules) : modules[i] \in visited
  BY DEF LoadInv, ModulesOK
<1>8. ModuleSet = visited \ Decl
  BY <1>5, <1>6, <1>7 DEF IsModule
<1>9. mode = "split" => \A p \in ModuleSet : disk[OutOf[p]] = p
  BY DEF BuildInv, WrittenOK
<1>10. QED
  BY <1>1, <1>2, <1>4, <1>6, <1>8, <1>9 DEF ModeOK

-----------------------------------------------------------------------------
(* The texts. *)

LEMMA DoIsInstr ==
  ASSUME NEW op \in {"root", "guard", "source", "shell", "body", "raw"}, NEW p \in Path
  PROVE  Do(op, p) \in Instr /\ Do(op, p).op = op /\ Do(op, p).path = p
  BY DEF Do, Instr

LEMMA SourcedIs ==
  ASSUME LoadTypeOK, NEW p \in Path, NEW i \in 1..Len(Sourced(p))
  PROVE  /\ Sourced(p)[i] \in SourcedImports
         /\ Sourced(p)[i] \in Import
         /\ \E j \in 1..Len(tree.imports[p]) : Sourced(p)[i] = tree.imports[p][j]
<1> DEFINE s == tree.imports[p]
           n == Len(s)
<1>1. s \in Seq(Import) /\ n \in Nat
  BY ImportsType
<1> HIDE DEF s
<1>2. n \in 0..Len(s) /\ Sourced(p) = KeptAfter(s, SourcedImports)[n]
  BY <1>1 DEF Sourced, Kept, s
<1>3. i \in 1..Len(KeptAfter(s, SourcedImports)[n])
  BY <1>2
<1>4. /\ KeptAfter(s, SourcedImports)[n][i] \in SourcedImports
      /\ \E j \in 1..n : KeptAfter(s, SourcedImports)[n][i] = s[j]
  BY <1>1, <1>2, <1>3, KeptIsIn
<1>5. QED
  BY <1>2, <1>4 DEF s, SourcedImports

\* The instruction for an import.
ImportInstr(imp) == Do(IF IsShell(imp) THEN "shell" ELSE "source", imp.path)

LEMMA ImportInstrIs ==
  ASSUME NEW imp \in Import
  PROVE  /\ ImportInstr(imp) \in Instr
         /\ ImportInstr(imp).op = IF IsShell(imp) THEN "shell" ELSE "source"
         /\ ImportInstr(imp).path = imp.path
  BY DoIsInstr DEF ImportInstr, Import

LEMMA ImportTextIs ==
  ASSUME LoadTypeOK, NEW p \in Path
  PROVE  /\ ImportText(p) \in Seq(Instr)
         /\ Len(ImportText(p)) = Len(Sourced(p)) /\ Len(Sourced(p)) \in Nat
         /\ \A i \in 1..Len(Sourced(p)) : ImportText(p)[i] = ImportInstr(Sourced(p)[i])
<1> DEFINE s == Sourced(p)
           n == Len(s)
           t == [i \in 1..n |-> ImportInstr(s[i])]
<1>1. n \in Nat
  BY SourcedSteps
<1>2. ImportText(p) = t
  BY DEF ImportText, Sourced, ImportInstr
<1>3. \A i \in 1..n : ImportInstr(s[i]) \in Instr
  BY SourcedIs, ImportInstrIs
<1> HIDE DEF s
<1>4. t \in Seq(Instr) /\ Len(t) = n /\ \A i \in 1..n : t[i] = ImportInstr(s[i])
  BY <1>1, <1>3, IsASeq
<1>5. QED
  BY <1>1, <1>2, <1>4 DEF s

\* The script of a file in a split compilation.
TextOf(p) == IF p = Entry THEN EntryText ELSE LibraryText(p)
Opening(p) == Do(IF p = Entry THEN "root" ELSE "guard", p)

LEMMA TextIs ==
  ASSUME LoadTypeOK, NEW p \in Path
  PROVE  /\ TextOf(p) \in Seq(Instr) /\ Len(TextOf(p)) = Len(Sourced(p)) + 2
         /\ TextOf(p)[1] = Opening(p)
         /\ TextOf(p)[Len(Sourced(p)) + 2] = Do("body", p)
         /\ \A i \in 1..Len(Sourced(p)) : TextOf(p)[i + 1] = ImportInstr(Sourced(p)[i])
<1>1. TextOf(p) = <<Opening(p)>> \o ImportText(p) \o <<Do("body", p)>>
  BY DEF TextOf, EntryText, LibraryText, Opening
<1>2. Opening(p) \in Instr /\ Do("body", p) \in Instr
  BY DoIsInstr DEF Opening
<1>3. /\ ImportText(p) \in Seq(Instr) /\ Len(ImportText(p)) = Len(Sourced(p))
      /\ \A i \in 1..Len(Sourced(p)) : ImportText(p)[i] = ImportInstr(Sourced(p)[i])
  BY ImportTextIs
<1> DEFINE t == <<Opening(p)>> \o ImportText(p) \o <<Do("body", p)>>
           n == Len(ImportText(p))
<1>4. /\ t \in Seq(Instr) /\ Len(t) = n + 2
      /\ t[1] = Opening(p) /\ t[n + 2] = Do("body", p)
      /\ \A i \in 1..n : t[i + 1] = ImportText(p)[i]
  BY <1>2, <1>3, Enclosed
<1> HIDE DEF t, n
<1>5. TextOf(p) = t /\ n = Len(Sourced(p))
  BY <1>1, <1>3 DEF t, n
<1>6. QED
  BY <1>3, <1>4, <1>5

-----------------------------------------------------------------------------
(* The bundle. *)

\* A bundle sources no Besht file.
BundleInstr == {i \in Instr : i.op \in {"shell", "body"}}
BodyInstr == {Do("body", p) : p \in Path}

LEMMA ShellTextIs ==
  ASSUME LoadTypeOK, NEW p \in Path
  PROVE  /\ ShellText(p) \in Seq(BundleInstr)
         /\ \A i \in 1..Len(ShellText(p)) : ShellText(p)[i] \notin BodyInstr
<1> DEFINE s == tree.imports[p]
           S == {imp \in Import : IsShell(imp)}
           k == Kept(s, S)
           n == Len(k)
           t == [i \in 1..n |-> Do("shell", k[i].path)]
<1>1. s \in Seq(Import) /\ Len(s) \in Nat
  BY ImportsType
<1>2. ShellText(p) = t
  BY DEF ShellText
<1> HIDE DEF s
<1>3. k \in Seq(Import) /\ n \in Nat
  <2>1. KeptAfter(s, S) \in [0..Len(s) -> Seq(Import)]
    BY <1>1, KeptSteps
  <2> HIDE DEF S
  <2>2. k \in Seq(Import)
    BY <1>1, <2>1 DEF Kept
  <2>3. QED
    BY <2>2
<1> HIDE DEF k
<1>4. \A i \in 1..n : k[i] \in Import
  BY <1>3, ElementOfSeq
<1>5. \A i \in 1..n : Do("shell", k[i].path) \in BundleInstr /\ Do("shell", k[i].path).op = "shell"
  BY <1>4, DoIsInstr DEF Import, BundleInstr
<1> HIDE DEF n
<1>6. t \in Seq(BundleInstr) /\ Len(t) = n /\ \A i \in 1..n : t[i] = Do("shell", k[i].path)
  BY <1>3, <1>5, IsASeq
<1>7. \A q \in Path : Do("body", q).op = "body"
  BY DoIsInstr
<1>8. QED
  BY <1>2, <1>3, <1>5, <1>6, <1>7 DEF BodyInstr

LEMMA BundleSteps ==
  ASSUME LoadTypeOK
  PROVE  /\ BundleAfter \in [0..Len(modules) -> Seq(BundleInstr)]
         /\ BundleAfter[0] = << >>
         /\ \A n \in 1..Len(modules) :
              BundleAfter[n] = IF EmittedInBundle(modules[n])
                               THEN BundleAfter[n - 1] \o ShellText(modules[n]) \o <<Do("body", modules[n])>>
                               ELSE BundleAfter[n - 1]
<1> DEFINE V == Seq(BundleInstr)
           N == Len(modules)
           Empty == << >>
           Longer(i, v) == v \o ShellText(modules[i]) \o <<Do("body", modules[i])>>
           H == [i \in 1..N |-> [v \in V |-> IF EmittedInBundle(modules[i]) THEN Longer(i, v) ELSE v]]
           Body(k) == [n \in 0..N |-> IF n = 0 THEN << >>
                        ELSE IF EmittedInBundle(modules[n]) THEN Longer(n, k[n - 1]) ELSE k[n - 1]]
<1>1. Empty \in V /\ N \in Nat /\ \A i \in 1..N : modules[i] \in Path
  BY ElementOfSeq DEF LoadTypeOK
<1>2. ASSUME NEW i \in 1..N, NEW v \in V PROVE Longer(i, v) \in V
  <2>1. ShellText(modules[i]) \in V /\ Do("body", modules[i]) \in BundleInstr
    BY <1>1, ShellTextIs, DoIsInstr DEF BundleInstr
  <2>2. <<Do("body", modules[i])>> \in V /\ v \o ShellText(modules[i]) \in V
    BY <2>1, ConcatProperties
  <2>3. QED
    BY <2>2, ConcatProperties
<1> HIDE DEF Longer
<1>3. /\ H \in [1..N -> [V -> V]]
      /\ \A i \in 1..N, v \in V : H[i][v] = IF EmittedInBundle(modules[i]) THEN Longer(i, v) ELSE v
  BY <1>2
<1>4. BundleAfter = CHOOSE k : k = Body(k)
  BY DEF BundleAfter, Longer
<1>5. \E g \in [0..N -> V] : g = Body(g)
  <2> HIDE DEF V, N, H, Empty
  <2>0. PICK g : Follows(g, Empty, H, N, V)
    BY <1>1, <1>3, Recursion DEF Stepwise
  <2>1. g \in [0..N -> V] /\ g[0] = Empty /\ \A i \in 1..N : g[i] = H[i][g[i - 1]]
    BY <2>0 DEF Follows
  <2>2. ASSUME NEW i \in 0..N PROVE g[i] = Body(g)[i]
    <3>1. CASE i = 0
      BY <2>1, <3>1 DEF Empty
    <3>2. CASE i # 0
      <4>1. i \in 1..N /\ i - 1 \in 0..N
        BY <3>2, <1>1
      <4>2. g[i - 1] \in V
        BY <2>1, <4>1
      <4>3. QED
        BY <1>3, <2>1, <3>2, <4>1, <4>2
    <3>3. QED
      BY <3>1, <3>2
  <2>3. g = [i \in 0..N |-> Body(g)[i]]
    BY <2>1, <2>2
  <2>4. QED
    BY <2>1, <2>3
<1> DEFINE K == BundleAfter
<1>6. K = Body(K)
  <2> HIDE DEF Body, V, N
  <2>1. QED
    BY <1>4, <1>5
<1> HIDE DEF K
<1>7. /\ K[0] = << >>
      /\ \A n \in 1..N : K[n] = IF EmittedInBundle(modules[n]) THEN Longer(n, K[n - 1]) ELSE K[n - 1]
      /\ K = [n \in 0..N |-> K[n]]
  <2>1. \A n \in 0..N : K[n] = Body(K)[n]
    BY <1>6
  <2>2. \A n \in 1..N : n \in 0..N /\ n # 0
    OBVIOUS
  <2>3. \A n \in 1..N : K[n] = IF EmittedInBundle(modules[n]) THEN Longer(n, K[n - 1]) ELSE K[n - 1]
    <3> HIDE DEF N
    <3>1. QED
      BY <2>1, <2>2
  <2>4. K[0] = << >>
    BY <2>1, <1>1
  <2>5. K = [n \in 0..N |-> K[n]]
    BY <1>6, <2>1
  <2>6. QED
    BY <2>3, <2>4, <2>5
<1>8. \A n \in 0..N : K[n] \in V
  <2> DEFINE T == {n \in 0..N : K[n] \in V}
  <2>1. 0 \in T
    BY <1>1, <1>7
  <2>2. \A n \in 1..N : n - 1 \in T => n \in T
    <3> SUFFICES ASSUME NEW n \in 1..N, n - 1 \in T PROVE n \in T
      OBVIOUS
    <3>1. K[n - 1] \in V /\ n \in 0..N
      OBVIOUS
    <3> HIDE DEF V
    <3>2. K[n] \in V
      BY <1>2, <1>7, <3>1
    <3>3. QED
      BY <3>1, <3>2
  <2> HIDE DEF T, N, V
  <2>3. \A n \in 0..N : n \in T
    BY <1>1, <2>1, <2>2, UpTo
  <2>4. QED
    BY <2>3 DEF T
<1>9. QED
  BY <1>7, <1>8 DEF K, Longer

\* The bodies in the bundle are those of the modules that are emitted.
SameBodies(x, s) == Len(x) = Len(s) /\ \A i \in 1..Len(s) : x[i] = Do("body", s[i])

LEMMA SameBodiesGrow ==
  ASSUME NEW U, NEW x \in Seq(U), NEW y \in Seq(Path), SameBodies(x, y),
         NEW p \in Path, Do("body", p) \in U
  PROVE  SameBodies(Append(x, Do("body", p)), Append(y, p))
<1> DEFINE d == Do("body", p)
<1>1. Len(x) = Len(y) /\ Len(y) \in Nat /\ \A i \in 1..Len(y) : x[i] = Do("body", y[i])
  BY DEF SameBodies
<1>2. d \in U
  OBVIOUS
<1> HIDE DEF d
<1>3. /\ Len(Append(x, d)) = Len(y) + 1 /\ Append(x, d)[Len(y) + 1] = d
      /\ \A i \in 1..Len(y) : Append(x, d)[i] = x[i]
  BY <1>1, <1>2, AppendProperties
<1>4. /\ Len(Append(y, p)) = Len(y) + 1 /\ Append(y, p)[Len(y) + 1] = p
      /\ \A i \in 1..Len(y) : Append(y, p)[i] = y[i]
  BY AppendProperties
<1>5. \A i \in 1..(Len(y) + 1) : Append(x, d)[i] = Do("body", Append(y, p)[i])
  <2>1. \A i \in 1..(Len(y) + 1) : i = Len(y) + 1 \/ i \in 1..Len(y)
    BY <1>1
  <2>2. QED
    BY <1>1, <1>3, <1>4, <2>1 DEF d
<1>6. QED
  BY <1>3, <1>4, <1>5 DEF SameBodies, d

LEMMA BundleBodies ==
  ASSUME LoadTypeOK, mode = "bundle"
  PROVE  /\ BundleText \in Seq(BundleInstr)
         /\ SameBodies(Kept(BundleText, BodyInstr), Kept(modules, CodeModules))
<1> DEFINE N == Len(modules)
           b == BundleAfter
           k == KeptAfter(modules, CodeModules)
           T == {n \in 0..N : SameBodies(Kept(b[n], BodyInstr), k[n])}
<1>1. modules \in Seq(Path) /\ N \in Nat /\ \A n \in 1..N : modules[n] \in Path
  BY ElementOfSeq DEF LoadTypeOK
<1>2. /\ b \in [0..N -> Seq(BundleInstr)]
      /\ b[0] = << >>
      /\ \A n \in 1..N : b[n] = IF EmittedInBundle(modules[n])
                                THEN b[n - 1] \o ShellText(modules[n]) \o <<Do("body", modules[n])>>
                                ELSE b[n - 1]
  BY BundleSteps
<1>3. /\ k \in [0..N -> Seq(Path)]
      /\ k[0] = << >>
      /\ \A n \in 1..N : k[n] = IF modules[n] \in CodeModules THEN Append(k[n - 1], modules[n]) ELSE k[n - 1]
  BY <1>1, KeptSteps
<1>4. \A n \in 1..N : modules[n] \in CodeModules <=> EmittedInBundle(modules[n])
  <2>1. \A n \in 1..N : modules[n] \in ModuleSet
    BY <1>1 DEF ModuleSet, ToSet
  <2>2. QED
    BY <2>1 DEF CodeModules
<1> HIDE DEF b, k, N
<1>5. 0 \in T
  <2>1. Kept(b[0], BodyInstr) = << >>
    BY <1>2, KeptEmpty
  <2>2. QED
    BY <1>1, <1>3, <2>1 DEF SameBodies
<1>6. ASSUME NEW n \in 1..N, n - 1 \in T PROVE n \in T
  <2> DEFINE p == modules[n]
             x == b[n - 1]
             y == k[n - 1]
             d == Do("body", p)
             sh == ShellText(p)
  <2>1. /\ p \in Path /\ n - 1 \in 0..N /\ n \in 0..N
        /\ x \in Seq(BundleInstr) /\ y \in Seq(Path)
        /\ SameBodies(Kept(x, BodyInstr), y)
    BY <1>1, <1>2, <1>3, <1>6
  <2>2. CASE ~EmittedInBundle(p)
    BY <1>2, <1>3, <1>4, <2>1, <2>2
  <2>3. CASE EmittedInBundle(p)
    <3>1. b[n] = (x \o sh) \o <<d>> /\ k[n] = Append(y, p)
      BY <1>2, <1>3, <1>4, <2>3
    <3>2. sh \in Seq(BundleInstr) /\ \A i \in 1..Len(sh) : sh[i] \notin BodyInstr
      BY <2>1, ShellTextIs
    <3>3. d \in BundleInstr /\ d \in BodyInstr
      BY <2>1, DoIsInstr DEF BundleInstr, BodyInstr
    <3> HIDE DEF p, x, y, d, sh
    <3>4. Kept(x \o sh, BodyInstr) = Kept(x, BodyInstr) /\ x \o sh \in Seq(BundleInstr)
      BY <2>1, <3>2, KeptNone, ConcatProperties
    <3>5. b[n] = Append(x \o sh, d)
      BY <3>1, <3>3, <3>4, AppendIsConcat
    <3>6. Kept(b[n], BodyInstr) = Append(Kept(x, BodyInstr), d)
      BY <3>3, <3>4, <3>5, KeptAppend
    <3>7. Kept(x, BodyInstr) \in Seq(BundleInstr)
      <4>1. KeptAfter(x, BodyInstr) \in [0..Len(x) -> Seq(BundleInstr)] /\ Len(x) \in Nat
        BY <2>1, KeptSteps
      <4>2. QED
        BY <4>1 DEF Kept
    <3>8. SameBodies(Append(Kept(x, BodyInstr), d), Append(y, p))
      BY <2>1, <3>3, <3>7, SameBodiesGrow DEF d
    <3>9. QED
      BY <2>1, <3>1, <3>6, <3>8
  <2>4. QED
    BY <2>2, <2>3
<1>7. N \in T
  <2>1. \A n \in 1..N : n - 1 \in T => n \in T
    BY <1>6
  <2> HIDE DEF T
  <2>2. \A n \in 0..N : n \in T
    BY <1>1, <1>5, <2>1, UpTo
  <2>3. QED
    BY <1>1, <2>2
<1>8. BundleText = b[N] /\ Kept(modules, CodeModules) = k[N]
  BY DEF BundleText, Kept, b, k, N
<1>9. QED
  BY <1>1, <1>2, <1>7, <1>8

-----------------------------------------------------------------------------
(* What a finished split compilation sources. *)

\* An instruction of a script: Besht files are sourced in a split compilation
\* only, and they are modules.
ScriptInstr == {i \in Instr : i.op = "source" => mode = "split" /\ i.path \in ModuleSet}

LEMMA SourcedVisited ==
  ASSUME CompilerInv, stage = "built", NEW p \in visited, NEW i \in 1..Len(Sourced(p)),
         ~IsShell(Sourced(p)[i])
  PROVE  /\ Sourced(p)[i].path \in BeshtImports(tree, p)
         /\ Sourced(p)[i].path \in ModuleSet
<1> USE DEF CompilerInv
<1>1. p \in Path /\ p \in Finished
  BY Finally DEF LoadTypeOK
<1> DEFINE imp == Sourced(p)[i]
<1>2. imp \in SourcedImports /\ imp \in Import
  BY <1>1, SourcedIs
<1>3. PICK j \in 1..Len(tree.imports[p]) : imp = tree.imports[p][j]
  BY <1>1, SourcedIs
<1> HIDE DEF imp
<1>4. imp.kind = "besht"
  <2>1. ImportOk(tree, imp)
    BY <1>1, <1>3 DEF TraversalInv, ImportsOK
  <2>2. QED
    BY <1>2, <2>1 DEF ImportOk, Import, IsShell, imp
<1>5. imp.path \in Path /\ imp.path \notin Decl
  BY <1>2, <1>4 DEF SourcedImports, Import, IsShell
<1>6. imp.path \in BeshtImports(tree, p)
  BY <1>3, <1>4, <1>5 DEF BeshtImports
<1>7. imp.path \in visited
  BY <1>1, <1>6 DEF TraversalInv, LoadInv, ProgressOK, LoadedBy
<1>8. QED
  BY <1>5, <1>6, <1>7, Finally DEF imp

LEMMA ScriptTextIs ==
  ASSUME CompilerInv, stage = "built", mode = "split", NEW p \in visited
  PROVE  TextOf(p) \in Seq(ScriptInstr)
<1> USE DEF CompilerInv
<1> DEFINE t == TextOf(p)
           n == Len(Sourced(p))
<1>1. p \in Path /\ LoadTypeOK
  BY DEF LoadTypeOK
<1>2. /\ t \in Seq(Instr) /\ Len(t) = n + 2
      /\ t[1] = Opening(p) /\ t[n + 2] = Do("body", p)
      /\ \A i \in 1..n : t[i + 1] = ImportInstr(Sourced(p)[i])
  BY <1>1, TextIs
<1>3. n \in Nat
  BY <1>1, SourcedSteps
<1>4. Opening(p) \in ScriptInstr /\ Do("body", p) \in ScriptInstr
  BY <1>1, DoIsInstr DEF Opening, ScriptInstr
<1>5. ASSUME NEW i \in 1..n PROVE ImportInstr(Sourced(p)[i]) \in ScriptInstr
  <2>1. Sourced(p)[i] \in Import
    BY <1>1, SourcedIs
  <2>2. ~IsShell(Sourced(p)[i]) => Sourced(p)[i].path \in ModuleSet
    BY SourcedVisited
  <2>3. QED
    BY <2>1, <2>2, ImportInstrIs DEF ScriptInstr
<1> HIDE DEF t
<1>6. ASSUME NEW i \in 1..Len(t) PROVE t[i] \in ScriptInstr
  <2>1. CASE i = 1 \/ i = n + 2
    BY <1>2, <1>4, <2>1
  <2>2. CASE i # 1 /\ i # n + 2
    <3>1. i - 1 \in 1..n /\ (i - 1) + 1 = i
      BY <1>2, <1>3, <2>2
    <3>2. t[i] = ImportInstr(Sourced(p)[i - 1])
      BY <1>2, <3>1
    <3>3. QED
      BY <1>5, <3>1, <3>2
  <2>3. QED
    BY <2>1, <2>2
<1>7. t \in Seq(ScriptInstr)
  <2>1. t = [i \in 1..Len(t) |-> t[i]] /\ Len(t) \in Nat
    BY <1>2, <1>3
  <2>2. QED
    BY <1>6, <2>1, IsASeq
<1>8. QED
  BY <1>7 DEF t

LEMMA FileTextIs ==
  ASSUME CompilerInv, stage = "built", mode = "split", NEW p \in ModuleSet
  PROVE  FileText(p) = TextOf(p) /\ FileText(p) \in Seq(ScriptInstr)
<1>1. disk[OutOf[p]] = p /\ p \in visited
  BY Finally
<1>2. FileText(p) = TextOf(p)
  BY <1>1 DEF FileText, TextOf
<1>3. QED
  BY <1>1, <1>2, ScriptTextIs

\* The script sh is started on.
LEMMA MainTextIs ==
  ASSUME CompilerInv, stage = "built"
  PROVE  (IF mode = "bundle" THEN BundleText ELSE EntryText) \in Seq(ScriptInstr)
<1> USE DEF CompilerInv
<1>1. mode \in {"bundle", "split"} /\ Entry \in visited
  BY Finally
<1>2. CASE mode = "bundle"
  <2>1. BundleText \in Seq(BundleInstr)
    BY <1>2, BundleBodies
  <2>2. BundleInstr \subseteq ScriptInstr
    BY DEF BundleInstr, ScriptInstr
  <2>3. BundleText \in Seq(ScriptInstr)
    <3> DEFINE t == BundleText
    <3>1. t = [i \in 1..Len(t) |-> t[i]] /\ Len(t) \in Nat /\ \A i \in 1..Len(t) : t[i] \in BundleInstr
      BY <2>1
    <3> HIDE DEF t
    <3>2. t \in Seq(ScriptInstr)
      BY <2>2, <3>1, IsASeq
    <3>3. QED
      BY <3>2 DEF t
  <2>4. QED
    BY <1>2, <2>3
<1>3. CASE mode = "split"
  BY <1>1, <1>3, ScriptTextIs DEF TextOf
<1>4. QED
  BY <1>1, <1>2, <1>3

-----------------------------------------------------------------------------
(* The names that calls are rewritten to. *)

LEMMA CalleeIsKey ==
  ASSUME LoadTypeOK, NEW p \in Path, NEW n \in Name
  PROVE  Callee(p, n) \in Key
<1> DEFINE T == BindingImports(p, n)
           N == Len(tree.imports[p])
<1>1. BareKey(n) \in Key /\ \A q \in Path : QualKey(q, n) \in Key
  BY NameAssumption DEF BareKey, QualKey, Key
<1>2. N \in Nat /\ DOMAIN tree.imports[p] = 1..N
  BY ImportsType
<1>3. \A i \in 1..N : tree.imports[p][i].path \in Path
  <2>1. \A i \in 1..N : tree.imports[p][i] \in Import
    BY ImportsType, ElementOfSeq
  <2>2. QED
    BY <2>1 DEF Import
<1>4. \A i \in 1..N : Binding(p, i, n) \subseteq Key
  BY <1>1, <1>3 DEF Binding
<1>5. CASE T # {}
  <2>1. T \in SUBSET (0..N)
    BY <1>2 DEF BindingImports
  <2>2. \E x \in T : \A y \in T : x >= y
    <3> HIDE DEF T, N
    <3>1. QED
      BY <1>2, <1>5, <2>1, GreatestIsOne
  <2>3. Max(T) \in T
    BY <2>2 DEF Max
  <2>4. Binding(p, Max(T), n) # {} /\ Binding(p, Max(T), n) \subseteq Key
    BY <1>2, <1>4, <2>3 DEF BindingImports
  <2>5. QED
    BY <1>5, <2>4 DEF Callee
<1>6. CASE T = {}
  BY <1>1, <1>6 DEF Callee
<1>7. QED
  BY <1>5, <1>6

-----------------------------------------------------------------------------
(* The shapes the files being sourced take in a step of sh. *)

LEMMA TextShape ==
  ASSUME NEW S, frames \in Seq(Seq(S)), frames # << >>
  PROVE  /\ Depth \in Nat \ {0} /\ Text = frames[Depth]
         /\ Text \in Seq(S) /\ Len(Text) \in Nat
         /\ Outer \in Seq(Seq(S)) /\ Len(Outer) = Depth - 1
         /\ \A i \in 1..(Depth - 1) : Outer[i] = frames[i]
<1> DEFINE T == Seq(S)
<1>1. frames \in Seq(T)
  OBVIOUS
<1> HIDE DEF T
<1>2. Depth \in Nat \ {0} /\ Text = frames[Depth] /\ Text \in T
  BY <1>1, EmptySeq DEF Depth, Text
<1>3. /\ Outer \in Seq(T) /\ Len(Outer) = Depth - 1
      /\ \A i \in 1..(Depth - 1) : Outer[i] = frames[i]
  BY <1>1, FrontShape DEF Outer, Depth
<1>4. Len(Text) \in Nat
  BY <1>2 DEF T
<1>5. QED
  BY <1>2, <1>3, <1>4 DEF T

LEMMA RestShape ==
  ASSUME NEW S, frames \in Seq(Seq(S)), frames # << >>, Text # << >>
  PROVE  /\ Head(Text) \in S /\ Head(Text) = Text[1] /\ Len(Text) > 0
         /\ Tail(Text) \in Seq(S) /\ Len(Tail(Text)) = Len(Text) - 1
         /\ \A i \in 1..(Len(Text) - 1) : Tail(Text)[i] = Text[i + 1]
         /\ Rest \in Seq(Seq(S)) /\ Len(Rest) = Depth
         /\ Rest[Depth] = Tail(Text)
         /\ \A i \in 1..(Depth - 1) : Rest[i] = frames[i]
<1>1. /\ Depth \in Nat \ {0} /\ Text \in Seq(S) /\ Len(Text) \in Nat
      /\ Outer \in Seq(Seq(S)) /\ Len(Outer) = Depth - 1
      /\ \A i \in 1..(Depth - 1) : Outer[i] = frames[i]
  BY TextShape
<1> DEFINE x == Text
           y == Tail(x)
           T == Seq(S)
<1>2. /\ Head(x) \in S /\ Head(x) = x[1] /\ Len(x) > 0
      /\ y \in T /\ Len(y) = Len(x) - 1 /\ \A i \in 1..(Len(x) - 1) : y[i] = x[i + 1]
  <2> HIDE DEF x
  <2>1. x \in Seq(S) /\ x # << >>
    BY <1>1 DEF x
  <2>2. QED
    BY <2>1, HeadTailProperties, EmptySeq
<1>3. Rest = Append(Outer, y)
  BY DEF Rest
<1> HIDE DEF x, y
<1>4. /\ Rest \in Seq(T) /\ Len(Rest) = Depth /\ Rest[Depth] = y
      /\ \A i \in 1..(Depth - 1) : Rest[i] = Outer[i]
  <2>1. Outer \in Seq(T) /\ y \in T
    BY <1>1, <1>2
  <2> HIDE DEF T
  <2>2. QED
    BY <1>1, <1>3, <2>1, AppendProperties
<1>5. QED
  BY <1>1, <1>2, <1>4 DEF x, y, T

LEMMA SourceShape ==
  ASSUME NEW S, frames \in Seq(Seq(S)), frames # << >>, Text # << >>, NEW x \in Seq(S)
  PROVE  /\ Append(Rest, x) \in Seq(Seq(S)) /\ Len(Append(Rest, x)) = Depth + 1
         /\ Append(Rest, x)[Depth + 1] = x
         /\ Append(Rest, x)[Depth] = Tail(Text)
         /\ \A i \in 1..(Depth - 1) : Append(Rest, x)[i] = frames[i]
<1> DEFINE T == Seq(S)
           r == Rest
<1>1. /\ r \in Seq(T) /\ Len(r) = Depth /\ r[Depth] = Tail(Text) /\ x \in T
      /\ \A i \in 1..(Depth - 1) : r[i] = frames[i]
  BY RestShape
<1>2. Depth \in Nat \ {0}
  BY TextShape
<1> HIDE DEF T, r
<1>3. /\ Append(r, x) \in Seq(T) /\ Len(Append(r, x)) = Depth + 1 /\ Append(r, x)[Depth + 1] = x
      /\ \A i \in 1..Depth : Append(r, x)[i] = r[i]
  BY <1>1, AppendProperties
<1>4. \A i \in 1..(Depth - 1) : i \in 1..Depth
  BY <1>2
<1>5. Depth \in 1..Depth
  BY <1>2
<1>6. QED
  BY <1>1, <1>3, <1>4, <1>5 DEF T, r

-----------------------------------------------------------------------------
(* The types of the running script. *)

\* sh has done nothing before it is started, and what it is started on was
\* built to the end; then its texts source compiled modules only.
RunInv ==
  /\ started \in BOOLEAN
  /\ started => stage = "built"
  /\ ~started => frames = << >> /\ guards = {} /\ trace = << >> /\ dispatched = {}
  /\ frames \in Seq(Seq(ScriptInstr))
  /\ guards \subseteq ({"lib"} \X Prefix) \cup ({"sh"} \X Path)
  /\ fns \in [Key -> Path \cup {NoPath}]
  /\ trace \in Seq(Instr)
  /\ dispatched \subseteq [caller : Path, name : Name, owner : Path \cup {NoPath}]

LEMMA RunInvTypes ==
  ASSUME RunInv
  PROVE  ProgramTypeOK
<1>1. \A i \in 1..Len(frames) : frames[i] \in Seq(ScriptInstr)
  BY ElementOfSeq DEF RunInv
<1>2. \A x \in Seq(ScriptInstr) : x \in Seq(Instr)
  <2> SUFFICES ASSUME NEW x \in Seq(ScriptInstr) PROVE x \in Seq(Instr)
    OBVIOUS
  <2>1. x = [i \in 1..Len(x) |-> x[i]] /\ Len(x) \in Nat /\ \A i \in 1..Len(x) : x[i] \in ScriptInstr
    OBVIOUS
  <2>2. \A i \in 1..Len(x) : x[i] \in Instr
    BY <2>1 DEF ScriptInstr
  <2>3. QED
    BY <2>1, <2>2, IsASeq
<1>3. QED
  BY <1>1, <1>2 DEF RunInv, ProgramTypeOK

LEMMA GuardType ==
  ASSUME NEW i \in Instr
  PROVE  Guard(i) \in ({"lib"} \X Prefix) \cup ({"sh"} \X Path)
  BY NameAssumption DEF Guard, Instr

\* A step of sh is made inside a file, and leaves the compilation alone.
LEMMA ShStepInside ==
  ASSUME RunInv, ShStep
  PROVE  /\ frames # << >> /\ started /\ started' = started /\ stage = "built"
         /\ UNCHANGED buildVars
  BY DEF RunInv, ShStep, EndOfFile, SetRoot, GuardReturns, GuardPasses, SourceModule, SourceShell,
         RunShellFile, RunBody, Executing

LEMMA ShFrames ==
  ASSUME CompilerInv, RunInv, ShStep
  PROVE  frames' \in Seq(Seq(ScriptInstr))
<1>1. frames # << >> /\ stage = "built"
  BY ShStepInside
<1>2. Outer \in Seq(Seq(ScriptInstr))
  BY <1>1, TextShape DEF RunInv
<1>3. Text # << >> => /\ Head(Text) \in ScriptInstr
                      /\ Rest \in Seq(Seq(ScriptInstr))
                      /\ \A x \in Seq(ScriptInstr) : Append(Rest, x) \in Seq(Seq(ScriptInstr))
  BY <1>1, RestShape, SourceShape DEF RunInv
<1>4. CASE SourceModule
  <2>1. Operand \in ModuleSet /\ mode = "split"
    BY <1>3, <1>4 DEF SourceModule, Executing, Operand, ScriptInstr
  <2>2. FileText(Operand) \in Seq(ScriptInstr)
    BY <1>1, <2>1, FileTextIs
  <2>3. QED
    BY <1>3, <1>4, <2>2 DEF SourceModule, Executing
<1>5. CASE SourceShell
  <2>1. Operand \in Path
    BY <1>3, <1>5 DEF SourceShell, Executing, Operand, ScriptInstr, Instr
  <2>2. Do("raw", Operand) \in ScriptInstr
    BY <2>1, DoIsInstr DEF ScriptInstr
  <2>3. <<Do("raw", Operand)>> \in Seq(ScriptInstr)
    BY <2>2
  <2>4. QED
    BY <1>3, <1>5, <2>3 DEF SourceShell, Executing
<1>6. CASE EndOfFile \/ GuardReturns
  BY <1>2, <1>6 DEF EndOfFile, GuardReturns
<1>7. CASE SetRoot \/ GuardPasses \/ RunShellFile \/ RunBody
  BY <1>3, <1>7 DEF SetRoot, GuardPasses, RunShellFile, RunBody, Executing
<1>8. QED
  BY <1>4, <1>5, <1>6, <1>7 DEF ShStep

LEMMA ShKeeps ==
  ASSUME CompilerInv, RunInv, ShStep
  PROVE  RunInv'
<1>1. /\ frames # << >> /\ started /\ started' = started /\ stage = "built"
      /\ UNCHANGED buildVars
  BY ShStepInside
<1>2. stage' = stage /\ ScriptInstr' = ScriptInstr
  BY <1>1 DEF buildVars, outputVars, loadVars, ScriptInstr, ModuleSet
<1>3. frames' \in Seq(Seq(ScriptInstr))
  BY ShFrames
<1>4. Text # << >> => Head(Text) \in Instr /\ Operand \in Path
  BY <1>1, RestShape DEF RunInv, ScriptInstr, Instr, Operand
<1>5. guards' \subseteq ({"lib"} \X Prefix) \cup ({"sh"} \X Path)
  <2>1. Text # << >> => Guard(Head(Text)) \in ({"lib"} \X Prefix) \cup ({"sh"} \X Path)
    BY <1>4, GuardType
  <2>2. QED
    BY <2>1 DEF RunInv, ShStep, EndOfFile, SetRoot, GuardReturns, GuardPasses, SourceModule, SourceShell,
                RunShellFile, RunBody, Executing
<1>6. fns' \in [Key -> Path \cup {NoPath}]
  BY <1>4 DEF RunInv, ShStep, EndOfFile, SetRoot, GuardReturns, GuardPasses, SourceModule, SourceShell,
              RunShellFile, RunBody, Executing
<1>7. trace' \in Seq(Instr)
  <2>1. Text # << >> => Append(trace, Head(Text)) \in Seq(Instr)
    BY <1>4, AppendProperties DEF RunInv
  <2>2. QED
    BY <2>1 DEF RunInv, ShStep, EndOfFile, SetRoot, GuardReturns, GuardPasses, SourceModule, SourceShell,
                RunShellFile, RunBody, Executing
<1>8. dispatched' \subseteq [caller : Path, name : Name, owner : Path \cup {NoPath}]
  <2>1. CASE RunBody
    <3>1. Operand \in Path /\ LoadTypeOK
      BY <1>4, <2>1 DEF RunBody, Executing, CompilerInv
    <3>2. tree.calls[Operand] \subseteq Name
      BY <3>1 DEF LoadTypeOK, SourceTrees
    <3>3. \A n \in tree.calls[Operand] : fns'[Callee(Operand, n)] \in Path \cup {NoPath}
      BY <1>6, <3>1, <3>2, CalleeIsKey
    <3> DEFINE Made(n) == [caller |-> Operand, name |-> n, owner |-> fns'[Callee(Operand, n)]]
               Type == [caller : Path, name : Name, owner : Path \cup {NoPath}]
    <3>4. \A n \in tree.calls[Operand] : Made(n) \in Type
      BY <3>1, <3>2, <3>3
    <3>5. dispatched' = dispatched \cup {Made(n) : n \in tree.calls[Operand]}
      BY <2>1 DEF RunBody
    <3> HIDE DEF Made
    <3>6. QED
      BY <3>4, <3>5 DEF RunInv
  <2>2. CASE ~RunBody
    BY <2>2 DEF RunInv, ShStep, EndOfFile, SetRoot, GuardReturns, GuardPasses, SourceModule, SourceShell,
                RunShellFile
  <2>3. QED
    BY <2>1, <2>2
<1>9. QED
  BY <1>1, <1>2, <1>3, <1>5, <1>6, <1>7, <1>8 DEF RunInv

LEMMA RunKept ==
  ASSUME CompilerInv, RunInv, [ProgramNext]_programVars
  PROVE  RunInv'
<1>1. CASE ShStep
  BY <1>1, ShKeeps
<1>2. CASE StartScript
  <2>1. stage = "built" /\ ~started /\ UNCHANGED <<buildVars, guards, fns, trace, dispatched>> /\ started' = TRUE
    BY <1>2 DEF StartScript
  <2>2. ScriptInstr' = ScriptInstr /\ stage' = stage
    BY <2>1 DEF buildVars, outputVars, loadVars, ScriptInstr, ModuleSet
  <2>3. frames' \in Seq(Seq(ScriptInstr))
    <3> DEFINE x == IF mode = "bundle" THEN BundleText ELSE EntryText
    <3>1. x \in Seq(ScriptInstr) /\ frames' = <<x>>
      BY <1>2, <2>1, MainTextIs DEF StartScript
    <3> HIDE DEF x
    <3>2. QED
      BY <3>1
  <2>4. QED
    BY <2>1, <2>2, <2>3 DEF RunInv
<1>3. CASE CompileStep /\ ~started
  <2>1. frames' = << >> /\ UNCHANGED shVars
    BY <1>3 DEF CompileStep, RunInv, shVars
  <2>2. frames' \in Seq(Seq(ScriptInstr'))
    BY <2>1, EmptySeq
  <2>3. QED
    BY <1>3, <2>1, <2>2 DEF RunInv, shVars
<1>4. CASE (CompileStep /\ started) \/ UNCHANGED programVars
  <2>1. UNCHANGED programVars
    BY <1>4, BuiltStays DEF CompileStep, RunInv, programVars
  <2>2. QED
    BY <2>1 DEF programVars, shVars, buildVars, outputVars, loadVars, RunInv, ScriptInstr, ModuleSet
<1>5. QED
  BY <1>1, <1>2, <1>3, <1>4 DEF ProgramNext

LEMMA RunInvHolds == ProgramSpec => [](CompilerInv /\ RunInv)
<1>1. ProgramInit => RunInv
  BY EmptySeq DEF ProgramInit, RunInv
<1>2. CompilerInv /\ RunInv /\ [ProgramNext]_programVars => RunInv'
  BY RunKept
<1>3. ProgramSpec => []CompilerInv
  BY CompilerHolds
<1>4. QED
  BY <1>1, <1>2, <1>3, PTL DEF ProgramSpec

\* The variables of the running script keep their types: whatever the imports,
\* sh never reads a file that is no text of the compiler's (a raw shell file
\* in the place of a module, an old output, a write that broke off), and every
\* call is rewritten to a name a shell function can have.
THEOREM ProgramTypeCorrect == ProgramSpec => []ProgramTypeOK
<1>1. RunInv => ProgramTypeOK
  BY RunInvTypes
<1>2. QED
  BY <1>1, RunInvHolds, PTL

=============================================================================
