---------------------------- MODULE LoaderProofs ----------------------------
(***************************************************************************)
(* Proofs about Compiler.load for every source tree.  The traversal is     *)
(* correct because its call stack is a chain of loads (each frame was      *)
(* loaded by the one below it), because a file is marked visited before    *)
(* its frame is pushed, and because a frame is popped only when all it     *)
(* loads has been visited.                                                 *)
(***************************************************************************)
EXTENDS Loader, TLAPS, SequenceTheorems

\* The active loads: distinct visited files, the entry at the bottom, each
\* loaded by the one below it, none past the end of its import list.
StackOK ==
  /\ \A i \in 1..Len(stack) : stack[i].path \in visited
  /\ \A i, j \in 1..Len(stack) : stack[i].path = stack[j].path => i = j
  /\ \A i \in 1..Len(stack) : stack[i].done <= Len(tree.imports[stack[i].path])
  /\ \A i \in 1..(Len(stack) - 1) : stack[i + 1].path \in LoadedBy(tree, stack[i].path)
  /\ stack # << >> => stack[1].path = Entry

\* The load call about to start comes from the innermost frame or is the first.
CallOK ==
  /\ call # NoPath /\ stack # << >> => call \in LoadedBy(tree, Top.path)
  /\ stack = << >> /\ result # "loaded" => call = Entry /\ visited = {} /\ modules = << >>
  /\ result = "loaded" => stack = << >> /\ call = NoPath /\ Entry \in visited

\* What a frame has asked for so far.
Asked(fr) ==
  {q \in Path : \E i \in 1..fr.done : /\ tree.imports[fr.path][i].kind = "besht"
                                      /\ tree.imports[fr.path][i].path = q}
  \cup (IF fr.phase # "stdlib" /\ fr.path = Entry /\ UsesStdlib(tree) THEN {Stdlib} ELSE {})

\* All that a frame asked for, and all that a finished file loads, is visited.
ProgressOK ==
  /\ \A i \in 1..Len(stack) : Asked(stack[i]) \subseteq visited \cup {call}
  /\ \A p \in Finished : LoadedBy(tree, p) \subseteq visited

\* Only what the entry needs is visited.
LeastOK ==
  \A S \in SUBSET Path : Entry \in S /\ ClosedUnderLoads(tree, S) =>
    visited \subseteq S /\ (call # NoPath => call \in S)

ModulesOK ==
  /\ \A i \in 1..Len(modules) : modules[i] \in visited
  /\ NoDuplicateModules
  /\ EachFileOnce

\* The entry is the last module once it is one.
EntryOK ==
  Entry \in Finished /\ Entry \notin Decl => modules # << >> /\ modules[Len(modules)] = Entry

LoadInv == StackOK /\ CallOK /\ ProgressOK /\ LeastOK /\ ModulesOK /\ EntryOK

-----------------------------------------------------------------------------
(* Sequences: the three shapes the call stack takes in a step. *)

LEMMA StackTop ==
  ASSUME stack \in Seq(Frame), stack # << >>
  PROVE  /\ Len(stack) \in Nat \ {0}
         /\ Top \in Frame
         /\ Top = stack[Len(stack)]
         /\ \A i \in 1..Len(stack) : stack[i] \in Frame
  BY DEF Top

LEMMA DoneFrame ==
  ASSUME NEW fr \in Frame
  PROVE  [fr EXCEPT !.done = @ + 1] \in Frame
  BY DEF Frame

LEMMA SetTopShape ==
  ASSUME stack \in Seq(Frame), stack # << >>, NEW fr \in Frame
  PROVE  /\ SetTop(fr) \in Seq(Frame)
         /\ Len(SetTop(fr)) = Len(stack)
         /\ SetTop(fr) # << >>
         /\ SetTop(fr)[Len(stack)] = fr
         /\ \A i \in 1..(Len(stack) - 1) : SetTop(fr)[i] = stack[i]
  BY StackTop, ExceptSeq, EmptySeq DEF SetTop

LEMMA PushShape ==
  ASSUME stack \in Seq(Frame), NEW fr \in Frame
  PROVE  /\ Append(stack, fr) \in Seq(Frame)
         /\ Len(Append(stack, fr)) = Len(stack) + 1
         /\ Append(stack, fr) # << >>
         /\ Append(stack, fr)[Len(stack) + 1] = fr
         /\ \A i \in 1..Len(stack) : Append(stack, fr)[i] = stack[i]
  BY AppendProperties

LEMMA FrontShape ==
  ASSUME NEW S, NEW s \in Seq(S), s # << >>
  PROVE  /\ SubSeq(s, 1, Len(s) - 1) \in Seq(S)
         /\ Len(SubSeq(s, 1, Len(s) - 1)) = Len(s) - 1
         /\ \A i \in 1..(Len(s) - 1) : SubSeq(s, 1, Len(s) - 1)[i] = s[i]
<1> DEFINE n == Len(s) - 1
<1>1. n \in Nat
  BY EmptySeq
<1>2. \A i \in 1..n : s[i] \in S
  BY <1>1
<1> HIDE DEF n
<1>3. /\ SubSeq(s, 1, n) \in Seq(S)
      /\ Len(SubSeq(s, 1, n)) = IF 1 <= n THEN n - 1 + 1 ELSE 0
      /\ \A i \in 1..(n - 1 + 1) : SubSeq(s, 1, n)[i] = s[1 + i - 1]
  BY <1>1, <1>2, SubSeqProperties
<1>4. (IF 1 <= n THEN n - 1 + 1 ELSE 0) = n
  BY <1>1
<1>5. \A i \in 1..n : SubSeq(s, 1, n)[i] = s[i]
  BY <1>1, <1>3
<1>6. QED
  BY <1>3, <1>4, <1>5 DEF n

LEMMA PopShape ==
  ASSUME stack \in Seq(Frame), stack # << >>
  PROVE  /\ Below \in Seq(Frame)
         /\ Len(Below) = Len(stack) - 1
         /\ \A i \in 1..(Len(stack) - 1) : Below[i] = stack[i]
  BY FrontShape DEF Below

-----------------------------------------------------------------------------

\* The types of the traversal hold of every compilation of every source tree.
THEOREM LoadTypeCorrect == LoadSpec => []LoadTypeOK
<1>1. LoadInit => LoadTypeOK
  BY TreesAssumption, PathAssumption, EmptySeq DEF LoadInit, LoadTypeOK
<1>2. LoadTypeOK /\ [LoadNext]_loadVars => LoadTypeOK'
  <2> SUFFICES ASSUME LoadTypeOK, [LoadNext]_loadVars PROVE LoadTypeOK'
    OBVIOUS
  <2> USE DEF LoadTypeOK
  <2>1. CASE EnterOutside
    BY <2>1 DEF EnterOutside, Fail, Errors
  <2>2. CASE EnterVisited
    BY <2>2 DEF EnterVisited
  <2>3. CASE EnterNew
    <3>1. call \in Path
      BY <2>3 DEF EnterNew
    <3>2. [path |-> call, phase |-> "stdlib", done |-> 0] \in Frame
      BY <3>1 DEF Frame, Phase
    <3>3. QED
      BY <2>3, <3>1, <3>2, PushShape DEF EnterNew
  <2>4. CASE LoadStdlib
    <3>1. [Top EXCEPT !.phase = "read"] \in Frame
      BY <2>4, StackTop DEF LoadStdlib, Working, Frame, Phase
    <3>2. stack' \in Seq(Frame)
      BY <2>4, <3>1, SetTopShape DEF LoadStdlib, Working
    <3>3. call' \in Path \cup {NoPath}
      BY <2>4, PathAssumption DEF LoadStdlib
    <3>4. QED
      BY <2>4, <3>2, <3>3 DEF LoadStdlib
  <2>5. CASE ReadFails
    BY <2>5 DEF ReadFails, Fail, Errors, Readable
  <2>6. CASE ReadAndParse
    <3>1. [Top EXCEPT !.phase = "imports"] \in Frame
      BY <2>6, StackTop DEF ReadAndParse, Working, Frame, Phase
    <3>2. QED
      BY <2>6, <3>1, SetTopShape DEF ReadAndParse, Working
  <2>7. CASE ImportRejected
    BY <2>7 DEF ImportRejected, Fail, Errors
  <2>8. CASE SkipShellImport
    <3>1. [Top EXCEPT !.done = @ + 1] \in Frame
      BY <2>8, StackTop, DoneFrame DEF SkipShellImport, Working
    <3>2. QED
      BY <2>8, <3>1, SetTopShape DEF SkipShellImport, Working
  <2>9. CASE LoadImport
    <3>1. [Top EXCEPT !.done = @ + 1] \in Frame
      BY <2>9, StackTop, DoneFrame DEF LoadImport, Working
    <3>2. NextImport \in Import
      BY <2>9, StackTop DEF LoadImport, Working, MoreImports, NextImport, SourceTrees, Frame
    <3>3. NextImport.path \in Path
      BY <3>2 DEF Import
    <3>4. QED
      BY <2>9, <3>1, <3>3, SetTopShape DEF LoadImport, Working
  <2>10. CASE ValidateRejects
    BY <2>10 DEF ValidateRejects, Fail, Errors
  <2>11. CASE UndeclaredCall
    BY <2>11 DEF UndeclaredCall, Fail, Errors
  <2>12. CASE FinishModule
    <3>1. Top.path \in Path
      BY <2>12, StackTop DEF FinishModule, AtEnd, Working, Frame
    <3>2. Register(Top.path) \in [Key -> Path \cup {NoPath}]
      BY <3>1 DEF Register
    <3>3. AppendModule(Top.path) \in Seq(Path)
      BY <3>1, AppendProperties DEF AppendModule
    <3>4. tree.declares[Top.path] \subseteq Name
      BY <3>1 DEF SourceTrees
    <3>5. Below \in Seq(Frame)
      BY <2>12, PopShape DEF FinishModule, AtEnd, Working
    <3>6. QED
      BY <2>12, <3>2, <3>3, <3>4, <3>5 DEF FinishModule
  <2>13. CASE UNCHANGED loadVars
    BY <2>13 DEF loadVars
  <2>14. QED
    BY <2>1, <2>2, <2>3, <2>4, <2>5, <2>6, <2>7, <2>8, <2>9, <2>10, <2>11, <2>12, <2>13 DEF LoadNext
<1>3. QED
  BY <1>1, <1>2, PTL DEF LoadSpec

-----------------------------------------------------------------------------
(* Every step of the traversal is one of five kinds. *)

\* A load call fails, or nothing happens.
QuietStep ==
  /\ UNCHANGED <<tree, call, stack, visited, modules, sigs, decls>>
  /\ \/ result' = result
     \/ result = "loading" /\ result' \in Errors

\* The innermost frame moves on, and may call load.
AdvanceStep(fr) ==
  /\ result = "loading" /\ call = NoPath /\ stack # << >>
  /\ fr.path = Top.path
  /\ stack' = SetTop(fr)
  /\ fr.done <= Len(tree.imports[fr.path])
  /\ \A j \in 1..fr.done : j \in 1..Top.done \/ ImportOk(tree, tree.imports[fr.path][j])
  /\ Asked(fr) \subseteq Asked(Top) \cup {call'}
  /\ call' # NoPath => call' \in LoadedBy(tree, fr.path)
  /\ UNCHANGED <<tree, visited, modules, sigs, decls, result>>

LEMMA StdlibAdvances ==
  ASSUME LoadTypeOK, StackOK, LoadStdlib
  PROVE  \E fr \in Frame : AdvanceStep(fr)
<1> DEFINE fr == [Top EXCEPT !.phase = "read"]
<1>1. Top \in Frame /\ Top = stack[Len(stack)] /\ Len(stack) \in Nat \ {0}
  BY StackTop DEF LoadTypeOK, LoadStdlib, Working
<1>2. fr \in Frame /\ fr.path = Top.path /\ fr.done = Top.done /\ fr.phase = "read"
  BY <1>1 DEF Frame, Phase
<1>3. fr.done <= Len(tree.imports[fr.path])
  BY <1>1, <1>2 DEF StackOK
<1>4. Asked(fr) \subseteq Asked(Top) \cup {call'}
  BY <1>2 DEF LoadStdlib, Asked, Working
<1>5. call' # NoPath => call' \in LoadedBy(tree, fr.path)
  BY <1>2 DEF LoadStdlib, LoadedBy
<1>6. AdvanceStep(fr)
  BY <1>2, <1>3, <1>4, <1>5 DEF AdvanceStep, LoadStdlib, Working
<1>7. QED
  BY <1>2, <1>6

LEMMA ReadAdvances ==
  ASSUME LoadTypeOK, StackOK, ReadAndParse
  PROVE  \E fr \in Frame : AdvanceStep(fr)
<1> DEFINE fr == [Top EXCEPT !.phase = "imports"]
<1>1. Top \in Frame /\ Top = stack[Len(stack)] /\ Len(stack) \in Nat \ {0}
  BY StackTop DEF LoadTypeOK, ReadAndParse, Working
<1>2. fr \in Frame /\ fr.path = Top.path /\ fr.done = Top.done /\ fr.phase = "imports"
  BY <1>1 DEF Frame, Phase
<1>3. fr.done <= Len(tree.imports[fr.path])
  BY <1>1, <1>2 DEF StackOK
<1>4. Asked(fr) \subseteq Asked(Top) \cup {call'}
  BY <1>2 DEF ReadAndParse, Asked, Working
<1>5. AdvanceStep(fr)
  BY <1>2, <1>3, <1>4 DEF AdvanceStep, ReadAndParse, Working
<1>6. QED
  BY <1>2, <1>5

\* The import a frame handles next, and the frame after it.
LEMMA NextImportFacts ==
  ASSUME LoadTypeOK, StackOK, Working("imports"), MoreImports
  PROVE  /\ Top \in Frame
         /\ NextImport \in Import
         /\ NextImport = tree.imports[Top.path][Top.done + 1]
         /\ Top.done + 1 \in 1..Len(tree.imports[Top.path])
         /\ [Top EXCEPT !.done = @ + 1] \in Frame
         /\ [Top EXCEPT !.done = @ + 1].path = Top.path
         /\ [Top EXCEPT !.done = @ + 1].phase = Top.phase
         /\ [Top EXCEPT !.done = @ + 1].done = Top.done + 1
<1>1. Top \in Frame
  BY StackTop DEF LoadTypeOK, Working
<1>2. Top.path \in Path /\ Top.done \in Nat
  BY <1>1 DEF Frame
<1>3. tree.imports[Top.path] \in Seq(Import)
  BY <1>2 DEF LoadTypeOK, SourceTrees
<1>4. Top.done + 1 \in 1..Len(tree.imports[Top.path])
  BY <1>2, <1>3 DEF MoreImports
<1>5. NextImport \in Import
  BY <1>3, <1>4 DEF NextImport
<1>6. QED
  BY <1>1, <1>4, <1>5, DoneFrame DEF NextImport, Frame

LEMMA SkipAdvances ==
  ASSUME LoadTypeOK, StackOK, SkipShellImport
  PROVE  \E fr \in Frame : AdvanceStep(fr)
<1> DEFINE fr == [Top EXCEPT !.done = @ + 1]
<1>0. Working("imports") /\ MoreImports
  BY DEF SkipShellImport
<1>1. /\ Top \in Frame /\ fr \in Frame /\ fr.path = Top.path
      /\ fr.phase = Top.phase /\ fr.done = Top.done + 1
      /\ fr.done \in 1..Len(tree.imports[Top.path])
  BY <1>0, NextImportFacts
<1>2. tree.imports[Top.path][fr.done].kind = "shell"
  BY <1>0, <1>1, NextImportFacts DEF SkipShellImport, IsShell
<1>3. Asked(fr) \subseteq Asked(Top)
  <2> HIDE DEF fr
  <2> SUFFICES ASSUME NEW q \in Path, NEW i \in 1..fr.done,
                      tree.imports[Top.path][i].kind = "besht",
                      tree.imports[Top.path][i].path = q
               PROVE  \E j \in 1..Top.done : /\ tree.imports[Top.path][j].kind = "besht"
                                             /\ tree.imports[Top.path][j].path = q
    BY <1>1 DEF Asked
  <2>1. i # fr.done
    BY <1>2
  <2>2. i \in 1..Top.done
    BY <1>1, <2>1 DEF Frame
  <2>3. QED
    BY <2>2
<1>4. fr.done <= Len(tree.imports[fr.path])
  BY <1>1
<1>5. \A j \in 1..fr.done : j \in 1..Top.done \/ ImportOk(tree, tree.imports[fr.path][j])
  <2> HIDE DEF fr
  <2>1. \A j \in 1..fr.done : j \in 1..Top.done \/ j = fr.done
    BY <1>1 DEF Frame
  <2>2. ImportOk(tree, tree.imports[fr.path][fr.done])
    BY <1>0, <1>1, NextImportFacts DEF SkipShellImport
  <2>3. QED
    BY <2>1, <2>2
<1>6. AdvanceStep(fr)
  BY <1>1, <1>3, <1>4, <1>5 DEF AdvanceStep, SkipShellImport, Working
<1>7. QED
  BY <1>1, <1>6

LEMMA LoadAdvances ==
  ASSUME LoadTypeOK, StackOK, LoadImport
  PROVE  \E fr \in Frame : AdvanceStep(fr)
<1> DEFINE fr == [Top EXCEPT !.done = @ + 1]
<1>0. Working("imports") /\ MoreImports
  BY DEF LoadImport
<1>1. /\ Top \in Frame /\ fr \in Frame /\ fr.path = Top.path
      /\ fr.phase = Top.phase /\ fr.done = Top.done + 1
      /\ fr.done \in 1..Len(tree.imports[Top.path])
  BY <1>0, NextImportFacts
<1>2. NextImport = tree.imports[Top.path][fr.done] /\ NextImport \in Import
  BY <1>0, <1>1, NextImportFacts
<1>3. NextImport.kind = "besht" /\ NextImport.path \in Path /\ call' = NextImport.path
  BY <1>2 DEF LoadImport, IsShell, ImportOk, Import
<1>4. Asked(fr) \subseteq Asked(Top) \cup {call'}
  <2> HIDE DEF fr
  <2> SUFFICES ASSUME NEW q \in Path, NEW i \in 1..fr.done, q # call',
                      tree.imports[Top.path][i].kind = "besht",
                      tree.imports[Top.path][i].path = q
               PROVE  \E j \in 1..Top.done : /\ tree.imports[Top.path][j].kind = "besht"
                                             /\ tree.imports[Top.path][j].path = q
    BY <1>1 DEF Asked
  <2>1. i # fr.done
    BY <1>2, <1>3
  <2>2. i \in 1..Top.done
    BY <1>1, <2>1 DEF Frame
  <2>3. QED
    BY <2>2
<1>5. call' \in LoadedBy(tree, fr.path)
  BY <1>1, <1>2, <1>3 DEF LoadedBy, BeshtImports
<1>6. fr.done <= Len(tree.imports[fr.path])
  BY <1>1
<1>7. \A j \in 1..fr.done : j \in 1..Top.done \/ ImportOk(tree, tree.imports[fr.path][j])
  <2> HIDE DEF fr
  <2>1. \A j \in 1..fr.done : j \in 1..Top.done \/ j = fr.done
    BY <1>1 DEF Frame
  <2>2. ImportOk(tree, tree.imports[fr.path][fr.done])
    BY <1>1, <1>2 DEF LoadImport
  <2>3. QED
    BY <2>1, <2>2
<1>8. AdvanceStep(fr)
  BY <1>1, <1>4, <1>5, <1>6, <1>7 DEF AdvanceStep, LoadImport, Working
<1>9. QED
  BY <1>1, <1>8

LEMMA StepKinds ==
  ASSUME LoadTypeOK, StackOK, [LoadNext]_loadVars
  PROVE  QuietStep \/ EnterVisited \/ EnterNew \/ (\E fr \in Frame : AdvanceStep(fr)) \/ FinishModule
<1>1. EnterOutside \/ ImportRejected \/ ValidateRejects \/ UndeclaredCall => QuietStep
  BY DEF EnterOutside, ImportRejected, ValidateRejects, UndeclaredCall, AtEnd, Working, Fail, QuietStep, Errors
<1>2. ReadFails => QuietStep
  BY DEF ReadFails, Readable, Working, Fail, QuietStep, Errors
<1>3. UNCHANGED loadVars => QuietStep
  BY DEF loadVars, QuietStep
<1>4. QED
  BY <1>1, <1>2, <1>3, StdlibAdvances, ReadAdvances, SkipAdvances, LoadAdvances DEF LoadNext

-----------------------------------------------------------------------------
(* What each kind of step does to the call stack. *)

LEMMA AdvanceShape ==
  ASSUME LoadTypeOK, NEW fr \in Frame, AdvanceStep(fr)
  PROVE  /\ Len(stack') = Len(stack) /\ Len(stack) \in Nat \ {0}
         /\ stack' # << >>
         /\ stack'[Len(stack)] = fr
         /\ fr.path = stack[Len(stack)].path
         /\ \A i \in 1..(Len(stack) - 1) : stack'[i] = stack[i]
         /\ \A i \in 1..Len(stack) : stack'[i].path = stack[i].path
         /\ \A p : OnStack(p)' <=> OnStack(p)
         /\ Finished' = Finished
         /\ Top' = fr
<1>1. /\ stack \in Seq(Frame) /\ stack # << >> /\ stack' = SetTop(fr)
      /\ fr.path = Top.path /\ visited' = visited
  BY DEF LoadTypeOK, AdvanceStep
<1>2. /\ Len(stack) \in Nat \ {0} /\ Top = stack[Len(stack)]
  BY <1>1, StackTop
<1>3. /\ Len(stack') = Len(stack) /\ stack' # << >>
      /\ stack'[Len(stack)] = fr
      /\ \A i \in 1..(Len(stack) - 1) : stack'[i] = stack[i]
  BY <1>1, SetTopShape
<1>4. \A i \in 1..Len(stack) : stack'[i].path = stack[i].path
  BY <1>1, <1>2, <1>3
<1>5. \A p : OnStack(p)' <=> OnStack(p)
  BY <1>3, <1>4 DEF OnStack
<1>6. Finished' = Finished
  BY <1>1, <1>5 DEF Finished
<1>7. QED
  BY <1>1, <1>2, <1>3, <1>4, <1>5, <1>6 DEF Top

LEMMA EnterShape ==
  ASSUME LoadTypeOK, EnterNew
  PROVE  /\ Len(stack) \in Nat /\ Len(stack') = Len(stack) + 1
         /\ call \in Path
         /\ stack' # << >>
         /\ stack'[Len(stack) + 1] = [path |-> call, phase |-> "stdlib", done |-> 0]
         /\ \A i \in 1..Len(stack) : stack'[i] = stack[i]
         /\ \A p : OnStack(p)' <=> (OnStack(p) \/ p = call)
<1>1. stack \in Seq(Frame) /\ call \in Path
  BY DEF LoadTypeOK, EnterNew
<1>2. [path |-> call, phase |-> "stdlib", done |-> 0] \in Frame
  BY <1>1 DEF Frame, Phase
<1>3. /\ Len(stack) \in Nat /\ Len(stack') = Len(stack) + 1 /\ stack' # << >>
      /\ stack'[Len(stack) + 1] = [path |-> call, phase |-> "stdlib", done |-> 0]
      /\ \A i \in 1..Len(stack) : stack'[i] = stack[i]
  BY <1>1, <1>2, PushShape DEF EnterNew
<1>4. \A p : OnStack(p)' <=> (OnStack(p) \/ p = call)
  <2>1. \A i \in 1..(Len(stack) + 1) : i \in 1..Len(stack) \/ i = Len(stack) + 1
    BY <1>3
  <2>2. 1..Len(stack) \subseteq 1..(Len(stack) + 1) /\ Len(stack) + 1 \in 1..(Len(stack) + 1)
    BY <1>3
  <2>3. QED
    BY <1>3, <2>1, <2>2 DEF OnStack
<1>5. QED
  BY <1>1, <1>3, <1>4

LEMMA FinishShape ==
  ASSUME LoadTypeOK, StackOK, FinishModule
  PROVE  /\ Len(stack) \in Nat \ {0} /\ Len(stack') = Len(stack) - 1
         /\ Top = stack[Len(stack)] /\ Top \in Frame /\ Top.path \in Path
         /\ \A i \in 1..(Len(stack) - 1) : stack'[i] = stack[i]
         /\ OnStack(Top.path) /\ Top.path \in visited
         /\ \A p : OnStack(p)' <=> (OnStack(p) /\ p # Top.path)
         /\ Finished' = Finished \cup {Top.path}
         /\ (stack' = << >>) <=> (Len(stack) = 1)
<1>1. stack \in Seq(Frame) /\ stack # << >> /\ stack' = Below /\ visited' = visited
  BY DEF LoadTypeOK, FinishModule, AtEnd, Working
<1>2. Len(stack) \in Nat \ {0} /\ Top = stack[Len(stack)] /\ Top \in Frame /\ Top.path \in Path
  BY <1>1, StackTop DEF Frame
<1>3. /\ stack' \in Seq(Frame) /\ Len(stack') = Len(stack) - 1
      /\ \A i \in 1..(Len(stack) - 1) : stack'[i] = stack[i]
  BY <1>1, PopShape
<1>4. OnStack(Top.path) /\ Top.path \in visited
  BY <1>2 DEF OnStack, StackOK
<1>5. \A i \in 1..Len(stack) : i \in 1..(Len(stack) - 1) <=> stack[i].path # Top.path
  BY <1>2 DEF StackOK
<1>6. \A p : OnStack(p)' <=> (OnStack(p) /\ p # Top.path)
  <2>1. \A i \in 1..(Len(stack) - 1) : i \in 1..Len(stack)
    BY <1>2
  <2>2. QED
    BY <1>3, <1>5, <2>1 DEF OnStack
<1>7. Finished' = Finished \cup {Top.path}
  BY <1>1, <1>4, <1>6 DEF Finished
<1>8. (stack' = << >>) <=> (Len(stack) = 1)
  BY <1>2, <1>3, EmptySeq
<1>9. QED
  BY <1>2, <1>3, <1>4, <1>6, <1>7, <1>8

-----------------------------------------------------------------------------
(* One lemma per conjunct of the inductive invariant. *)

LEMMA QuietKeeps ==
  ASSUME LoadInv, QuietStep
  PROVE  LoadInv'
  BY DEF LoadInv, QuietStep, StackOK, CallOK, ProgressOK, LeastOK, ModulesOK, EntryOK, Top,
         Asked, Finished, OnStack, IsModule, NoDuplicateModules, EachFileOnce, Errors

LEMMA StackKept ==
  ASSUME LoadTypeOK, LoadInv,
         EnterVisited \/ EnterNew \/ (\E fr \in Frame : AdvanceStep(fr)) \/ FinishModule
  PROVE  StackOK'
<1> USE DEF LoadInv
<1>1. CASE EnterVisited
  BY <1>1 DEF EnterVisited, StackOK
<1>2. CASE EnterNew
  <2>1. /\ tree' = tree /\ visited' = visited \cup {call} /\ call \notin visited /\ call # NoPath
        /\ result = "loading"
    BY <1>2 DEF EnterNew
  <2> DEFINE n == Len(stack)
             new == [path |-> call, phase |-> "stdlib", done |-> 0]
  <2>2. /\ n \in Nat /\ Len(stack') = n + 1 /\ stack' # << >> /\ call \in Path
        /\ stack'[n + 1] = new /\ new.path = call /\ new.done = 0
        /\ \A i \in 1..n : stack'[i] = stack[i]
    BY <1>2, EnterShape
  <2> HIDE DEF n, new
  <2>3. \A i \in 1..(n + 1) : stack'[i].path \in visited'
    BY <2>1, <2>2 DEF StackOK, n
  <2>4. \A i, j \in 1..(n + 1) : stack'[i].path = stack'[j].path => i = j
    <3> SUFFICES ASSUME NEW i \in 1..(n + 1), NEW j \in 1..(n + 1), stack'[i].path = stack'[j].path
                 PROVE  i = j
      OBVIOUS
    <3>1. CASE i \in 1..n /\ j \in 1..n
      BY <2>2, <3>1 DEF StackOK, n
    <3>2. CASE i = n + 1 /\ j \in 1..n
      BY <2>1, <2>2, <3>2 DEF StackOK, n
    <3>3. CASE j = n + 1 /\ i \in 1..n
      BY <2>1, <2>2, <3>3 DEF StackOK, n
    <3>4. QED
      BY <2>2, <3>1, <3>2, <3>3
  <2>5. \A i \in 1..(n + 1) : stack'[i].done <= Len(tree'.imports[stack'[i].path])
    <3>1. tree.imports[call] \in Seq(Import)
      BY <2>2 DEF LoadTypeOK, SourceTrees
    <3>2. 0 <= Len(tree.imports[call])
      BY <3>1
    <3>3. QED
      BY <2>1, <2>2, <3>2 DEF StackOK, n
  <2>6. \A i \in 1..n : stack'[i + 1].path \in LoadedBy(tree', stack'[i].path)
    <3> SUFFICES ASSUME NEW i \in 1..n PROVE stack'[i + 1].path \in LoadedBy(tree, stack'[i].path)
      BY <2>1
    <3>1. CASE i = n
      <4>1. stack # << >> /\ Top = stack[n]
        BY <2>2, <3>1 DEF Top, n
      <4>2. QED
        BY <2>1, <2>2, <3>1, <4>1 DEF CallOK
    <3>2. CASE i # n
      <4>1. i \in 1..(Len(stack) - 1) /\ i + 1 \in 1..n
        BY <2>2, <3>2 DEF n
      <4>2. QED
        BY <2>2, <4>1 DEF StackOK
    <3>3. QED
      BY <3>1, <3>2
  <2>7. stack'[1].path = Entry
    <3>1. CASE n = 0
      <4>1. stack = << >>
        BY <3>1 DEF LoadTypeOK, n
      <4>2. QED
        BY <2>1, <2>2, <3>1, <4>1 DEF CallOK
    <3>2. CASE n # 0
      BY <2>2, <3>2 DEF StackOK, n
    <3>3. QED
      BY <3>1, <3>2
  <2>8. QED
    BY <2>2, <2>3, <2>4, <2>5, <2>6, <2>7 DEF StackOK
<1>3. ASSUME NEW fr \in Frame, AdvanceStep(fr) PROVE StackOK'
  <2>1. tree' = tree /\ visited' = visited /\ fr.done <= Len(tree.imports[fr.path])
    BY <1>3 DEF AdvanceStep
  <2> DEFINE n == Len(stack)
  <2>2. /\ n \in Nat \ {0} /\ Len(stack') = n /\ stack' # << >> /\ stack'[n] = fr
        /\ \A i \in 1..(n - 1) : stack'[i] = stack[i]
        /\ \A i \in 1..n : stack'[i].path = stack[i].path
    BY <1>3, AdvanceShape
  <2> HIDE DEF n
  <2>3. \A i \in 1..n : stack'[i].done <= Len(tree.imports[stack'[i].path])
    BY <2>1, <2>2 DEF StackOK, n
  <2>4. \A i \in 1..(n - 1) : stack'[i + 1].path \in LoadedBy(tree, stack'[i].path)
    BY <2>2 DEF StackOK, n
  <2>5. stack # << >>
    BY <1>3 DEF AdvanceStep
  <2>6. QED
    BY <2>1, <2>2, <2>3, <2>4, <2>5 DEF StackOK, n
<1>4. CASE FinishModule
  <2>1. tree' = tree /\ visited' = visited /\ stack # << >>
    BY <1>4 DEF FinishModule, AtEnd, Working
  <2> DEFINE n == Len(stack)
  <2>2. /\ n \in Nat \ {0} /\ Len(stack') = n - 1
        /\ \A i \in 1..(n - 1) : stack'[i] = stack[i]
        /\ (stack' = << >>) <=> (n = 1)
    BY <1>4, FinishShape
  <2> HIDE DEF n
  <2>3. /\ \A i \in 1..n : stack[i].path \in visited /\ stack[i].done <= Len(tree.imports[stack[i].path])
        /\ \A i, j \in 1..n : stack[i].path = stack[j].path => i = j
        /\ \A i \in 1..(n - 1) : stack[i + 1].path \in LoadedBy(tree, stack[i].path)
        /\ stack[1].path = Entry
    BY <2>1 DEF StackOK, n
  <2>4. /\ \A i \in 1..(n - 1) : stack'[i].path \in visited
        /\ \A i \in 1..(n - 1) : stack'[i].done <= Len(tree.imports[stack'[i].path])
    <3>1. \A i \in 1..(n - 1) : i \in 1..n /\ stack'[i] = stack[i]
      BY <2>2
    <3>2. QED
      BY <2>3, <3>1
  <2>5. \A i, j \in 1..(n - 1) : stack'[i].path = stack'[j].path => i = j
    BY <2>2, <2>3
  <2>6. \A i \in 1..(n - 2) : stack'[i + 1].path \in LoadedBy(tree, stack'[i].path)
    BY <2>2, <2>3
  <2>7. stack' # << >> => stack'[1].path = Entry
    BY <2>2, <2>3
  <2>8. Len(stack') - 1 = n - 2
    BY <2>2
  <2>9. QED
    BY <2>1, <2>2, <2>4, <2>5, <2>6, <2>7, <2>8 DEF StackOK
<1>5. QED
  BY <1>1, <1>2, <1>3, <1>4

LEMMA CallKept ==
  ASSUME LoadTypeOK, LoadInv,
         EnterVisited \/ EnterNew \/ (\E fr \in Frame : AdvanceStep(fr)) \/ FinishModule
  PROVE  CallOK'
<1> USE DEF LoadInv
<1>1. CASE EnterVisited
  BY <1>1 DEF EnterVisited, CallOK, Top
<1>2. CASE EnterNew
  BY <1>2, EnterShape DEF EnterNew, CallOK
<1>3. ASSUME NEW fr \in Frame, AdvanceStep(fr) PROVE CallOK'
  BY <1>3, AdvanceShape DEF AdvanceStep, CallOK
<1>4. CASE FinishModule
  <2>1. call' = NoPath /\ tree' = tree /\ visited' = visited /\ stack # << >>
    BY <1>4 DEF FinishModule, AtEnd, Working
  <2>2. (stack' = << >>) <=> (Len(stack) = 1)
    BY <1>4, FinishShape
  <2>3. (stack' = << >>) <=> (result' = "loaded")
    BY <1>4, <2>2 DEF FinishModule
  <2>4. stack[1].path = Entry /\ Len(stack) \in Nat \ {0} /\ stack[1].path \in visited
    BY <1>4, <2>1, FinishShape DEF StackOK
  <2>5. QED
    BY <2>1, <2>3, <2>4 DEF CallOK
<1>5. QED
  BY <1>1, <1>2, <1>3, <1>4

LEMMA AskedInPath ==
  ASSUME NEW fr
  PROVE  Asked(fr) \subseteq Path
  BY PathAssumption DEF Asked

LEMMA ProgressKept ==
  ASSUME LoadTypeOK, LoadInv,
         EnterVisited \/ EnterNew \/ (\E fr \in Frame : AdvanceStep(fr)) \/ FinishModule
  PROVE  ProgressOK'
<1> USE DEF LoadInv
<1>1. CASE EnterVisited
  BY <1>1 DEF EnterVisited, ProgressOK, Asked, Finished, OnStack
<1>2. CASE EnterNew
  <2>1. tree' = tree /\ visited' = visited \cup {call} /\ call \notin visited
    BY <1>2 DEF EnterNew
  <2> DEFINE n == Len(stack)
             new == [path |-> call, phase |-> "stdlib", done |-> 0]
  <2>2. /\ n \in Nat /\ Len(stack') = n + 1 /\ stack'[n + 1] = new
        /\ \A i \in 1..n : stack'[i] = stack[i]
        /\ \A p : OnStack(p)' <=> (OnStack(p) \/ p = call)
    BY <1>2, EnterShape
  <2>3. Asked(new) = {}
    BY DEF Asked
  <2> HIDE DEF n, new
  <2>4. \A i \in 1..(n + 1) : Asked(stack'[i]) \subseteq visited'
    BY <2>1, <2>2, <2>3 DEF ProgressOK, n
  <2>5. \A i \in 1..(n + 1) : Asked(stack[i])' \subseteq visited' \cup {call'}
    BY <2>1, <2>4 DEF Asked
  <2>6. Finished' = Finished
    BY <2>1, <2>2 DEF Finished
  <2>7. \A p \in Finished' : LoadedBy(tree', p) \subseteq visited'
    BY <2>1, <2>6 DEF ProgressOK
  <2>8. QED
    BY <2>2, <2>5, <2>7 DEF ProgressOK
<1>3. ASSUME NEW fr \in Frame, AdvanceStep(fr) PROVE ProgressOK'
  <2>1. /\ tree' = tree /\ visited' = visited /\ call = NoPath
        /\ Asked(fr) \subseteq Asked(Top) \cup {call'}
    BY <1>3 DEF AdvanceStep
  <2> DEFINE n == Len(stack)
  <2>2. /\ n \in Nat \ {0} /\ Len(stack') = n /\ stack'[n] = fr /\ Top = stack[n]
        /\ \A i \in 1..(n - 1) : stack'[i] = stack[i]
        /\ Finished' = Finished
    BY <1>3, AdvanceShape DEF Top
  <2> HIDE DEF n
  <2>3. \A i \in 1..n : Asked(stack[i]) \subseteq visited
    BY <2>1, AskedInPath, PathAssumption DEF ProgressOK, n
  <2>4. \A i \in 1..n : Asked(stack'[i]) \subseteq visited \cup {call'}
    BY <2>1, <2>2, <2>3
  <2>5. \A i \in 1..n : Asked(stack[i])' \subseteq visited' \cup {call'}
    BY <2>1, <2>4 DEF Asked
  <2>6. QED
    BY <2>1, <2>2, <2>5 DEF ProgressOK
<1>4. CASE FinishModule
  <2>1. /\ tree' = tree /\ visited' = visited /\ call = NoPath /\ call' = NoPath
        /\ ~MoreImports /\ Top.phase = "imports"
    BY <1>4 DEF FinishModule, AtEnd, Working
  <2> DEFINE n == Len(stack)
  <2>2. /\ n \in Nat \ {0} /\ Len(stack') = n - 1 /\ Top = stack[n] /\ Top \in Frame
        /\ \A i \in 1..(n - 1) : stack'[i] = stack[i]
        /\ Finished' = Finished \cup {Top.path}
    BY <1>4, FinishShape
  <2> HIDE DEF n
  <2>3. \A i \in 1..n : Asked(stack[i]) \subseteq visited
    BY <2>1, AskedInPath, PathAssumption DEF ProgressOK, n
  <2>4. \A i \in 1..(n - 1) : Asked(stack[i])' \subseteq visited' \cup {call'}
    <3>1. \A i \in 1..(n - 1) : Asked(stack'[i]) \subseteq visited
      BY <2>2, <2>3
    <3>2. QED
      BY <2>1, <3>1 DEF Asked
  <2>5. LoadedBy(tree, Top.path) \subseteq Asked(Top)
    <3>1. Top.done = Len(tree.imports[Top.path])
      <4>1. tree.imports[Top.path] \in Seq(Import) /\ Top.done \in Nat
        BY <2>2 DEF Frame, LoadTypeOK, SourceTrees
      <4>2. Top.done <= Len(tree.imports[Top.path])
        BY <2>2 DEF StackOK, n
      <4>3. QED
        BY <2>1, <4>1, <4>2 DEF MoreImports
    <3>2. QED
      BY <2>1, <3>1 DEF LoadedBy, BeshtImports, Asked
  <2>6. \A p \in Finished' : LoadedBy(tree', p) \subseteq visited'
    BY <2>1, <2>2, <2>3, <2>5 DEF ProgressOK
  <2>7. QED
    BY <2>2, <2>4, <2>6 DEF ProgressOK
<1>5. QED
  BY <1>1, <1>2, <1>3, <1>4

LEMMA LeastKept ==
  ASSUME LoadTypeOK, LoadInv,
         EnterVisited \/ EnterNew \/ (\E fr \in Frame : AdvanceStep(fr)) \/ FinishModule
  PROVE  LeastOK'
<1> USE DEF LoadInv
<1>1. CASE EnterVisited
  BY <1>1 DEF EnterVisited, LeastOK
<1>2. CASE EnterNew
  BY <1>2 DEF EnterNew, LeastOK
<1>3. ASSUME NEW fr \in Frame, AdvanceStep(fr) PROVE LeastOK'
  <2>1. tree' = tree /\ visited' = visited
    BY <1>3 DEF AdvanceStep
  <2>2. fr.path \in visited
    <3>1. fr.path = stack[Len(stack)].path /\ Len(stack) \in Nat \ {0}
      BY <1>3, AdvanceShape
    <3>2. QED
      BY <3>1 DEF StackOK
  <2>3. ASSUME NEW S \in SUBSET Path, Entry \in S, ClosedUnderLoads(tree, S)
        PROVE  visited \subseteq S /\ (call' # NoPath => call' \in S)
    <3>1. visited \subseteq S
      BY <2>3 DEF LeastOK
    <3>2. call' # NoPath => call' \in LoadedBy(tree, fr.path)
      BY <1>3 DEF AdvanceStep
    <3>3. LoadedBy(tree, fr.path) \subseteq S
      BY <2>2, <2>3, <3>1 DEF ClosedUnderLoads
    <3>4. QED
      BY <3>1, <3>2, <3>3
  <2>4. QED
    BY <2>1, <2>3 DEF LeastOK
<1>4. CASE FinishModule
  BY <1>4 DEF FinishModule, LeastOK
<1>5. QED
  BY <1>1, <1>2, <1>3, <1>4

LEMMA FinishModules ==
  ASSUME LoadTypeOK, StackOK, FinishModule
  PROVE  /\ Len(modules) \in Nat
         /\ Top.path \in Decl => modules' = modules
         /\ Top.path \notin Decl => /\ Len(modules') = Len(modules) + 1
                                    /\ modules'[Len(modules) + 1] = Top.path
                                    /\ modules' # << >>
         /\ \A i \in 1..Len(modules) : modules'[i] = modules[i]
         /\ \A p : IsModule(p)' <=> (IsModule(p) \/ (p = Top.path /\ p \notin Decl))
<1>1. modules \in Seq(Path) /\ Top.path \in Path /\ modules' = AppendModule(Top.path)
  BY FinishShape DEF LoadTypeOK, FinishModule
<1>2. CASE Top.path \in Decl
  BY <1>1, <1>2 DEF AppendModule, IsModule
<1>3. CASE Top.path \notin Decl
  <2>1. modules' = Append(modules, Top.path)
    BY <1>1, <1>3 DEF AppendModule
  <2>2. /\ Len(modules) \in Nat /\ Len(modules') = Len(modules) + 1 /\ modules' # << >>
        /\ modules'[Len(modules) + 1] = Top.path
        /\ \A i \in 1..Len(modules) : modules'[i] = modules[i]
    BY <1>1, <2>1, AppendProperties
  <2>3. \A i \in 1..(Len(modules) + 1) : i \in 1..Len(modules) \/ i = Len(modules) + 1
    BY <2>2
  <2>4. 1..Len(modules) \subseteq 1..(Len(modules) + 1) /\ Len(modules) + 1 \in 1..(Len(modules) + 1)
    BY <2>2
  <2>5. \A p : IsModule(p)' <=> (IsModule(p) \/ (p = Top.path /\ p \notin Decl))
    BY <1>3, <2>2, <2>3, <2>4 DEF IsModule
  <2>6. QED
    BY <1>3, <2>2, <2>5
<1>4. QED
  BY <1>2, <1>3

LEMMA ModulesKept ==
  ASSUME LoadTypeOK, LoadInv,
         EnterVisited \/ EnterNew \/ (\E fr \in Frame : AdvanceStep(fr)) \/ FinishModule
  PROVE  ModulesOK'
<1> USE DEF LoadInv
<1>1. CASE EnterVisited
  BY <1>1 DEF EnterVisited, ModulesOK, NoDuplicateModules, EachFileOnce, OnStack, IsModule
<1>2. CASE EnterNew
  <2>1. visited' = visited \cup {call} /\ call \notin visited /\ modules' = modules
    BY <1>2 DEF EnterNew
  <2>2. \A p : OnStack(p)' <=> (OnStack(p) \/ p = call)
    BY <1>2, EnterShape
  <2>3. \A p : IsModule(p)' <=> IsModule(p)
    BY <2>1 DEF IsModule
  <2>4. \A p : IsModule(p) => p \in visited
    BY DEF IsModule, ModulesOK
  <2>5. EachFileOnce'
    BY <2>1, <2>2, <2>3, <2>4 DEF EachFileOnce, ModulesOK
  <2>6. QED
    BY <2>1, <2>5 DEF ModulesOK, NoDuplicateModules
<1>3. ASSUME NEW fr \in Frame, AdvanceStep(fr) PROVE ModulesOK'
  <2>1. visited' = visited /\ modules' = modules
    BY <1>3 DEF AdvanceStep
  <2>2. \A p : OnStack(p)' <=> OnStack(p)
    BY <1>3, AdvanceShape
  <2>3. \A p : IsModule(p)' <=> IsModule(p)
    BY <2>1 DEF IsModule
  <2>4. EachFileOnce'
    BY <2>1, <2>2, <2>3 DEF EachFileOnce, ModulesOK
  <2>5. QED
    BY <2>1, <2>4 DEF ModulesOK, NoDuplicateModules
<1>4. CASE FinishModule
  <2>1. /\ visited' = visited /\ Top.path \in visited /\ OnStack(Top.path)
        /\ \A p : OnStack(p)' <=> (OnStack(p) /\ p # Top.path)
    BY <1>4, FinishShape DEF FinishModule
  <2>2. ~IsModule(Top.path)
    <3>1. \A p \in visited : OnStack(p) => ~IsModule(p)
      BY DEF ModulesOK, EachFileOnce
    <3>2. QED
      BY <2>1, <3>1, Zenon
  <2>3. EachFileOnce'
    BY <1>4, <2>1, <2>2, FinishModules DEF EachFileOnce, ModulesOK
  <2>4. \A i \in 1..Len(modules') : i \in 1..Len(modules) \/ (modules'[i] = Top.path /\ i = Len(modules) + 1)
    BY <1>4, FinishModules
  <2>5. \A i \in 1..Len(modules) : modules'[i] = modules[i] /\ modules[i] # Top.path
    BY <1>4, <2>2, FinishModules DEF IsModule
  <2>6. \A i \in 1..Len(modules') : modules'[i] \in visited'
    BY <2>1, <2>4, <2>5 DEF ModulesOK
  <2>7. NoDuplicateModules'
    BY <2>4, <2>5 DEF NoDuplicateModules, ModulesOK
  <2>8. QED
    BY <2>3, <2>6, <2>7 DEF ModulesOK
<1>5. QED
  BY <1>1, <1>2, <1>3, <1>4

LEMMA EntryKept ==
  ASSUME LoadTypeOK, LoadInv,
         EnterVisited \/ EnterNew \/ (\E fr \in Frame : AdvanceStep(fr)) \/ FinishModule
  PROVE  EntryOK'
<1> USE DEF LoadInv
<1>1. CASE EnterVisited
  BY <1>1 DEF EnterVisited, EntryOK, Finished, OnStack
<1>2. CASE EnterNew
  <2>1. Finished' = Finished
    BY <1>2, EnterShape DEF EnterNew, Finished
  <2>2. QED
    BY <1>2, <2>1 DEF EnterNew, EntryOK
<1>3. ASSUME NEW fr \in Frame, AdvanceStep(fr) PROVE EntryOK'
  BY <1>3, AdvanceShape DEF AdvanceStep, EntryOK
<1>4. CASE FinishModule
  <2>1. stack # << >> /\ Len(stack) \in Nat \ {0} /\ Finished' = Finished \cup {Top.path}
    BY <1>4, FinishShape DEF FinishModule, AtEnd, Working
  <2>2. Entry \notin Finished
    <3>1. stack[1].path = Entry /\ 1 \in 1..Len(stack)
      BY <2>1 DEF StackOK
    <3>2. QED
      BY <3>1 DEF Finished, OnStack
  <2>3. Entry \in Finished' => Top.path = Entry
    BY <2>1, <2>2
  <2>4. QED
    BY <1>4, <2>3, FinishModules DEF EntryOK
<1>5. QED
  BY <1>1, <1>2, <1>3, <1>4

LEMMA LoadInvHolds == LoadSpec => [](LoadTypeOK /\ LoadInv)
<1>1. LoadInit => LoadInv
  <2> SUFFICES ASSUME LoadInit PROVE LoadInv
    OBVIOUS
  <2>1. Len(stack) = 0 /\ Len(modules) = 0 /\ call = Entry /\ visited = {} /\ result = "loading"
        /\ stack = << >> /\ modules = << >>
    BY EmptySeq DEF LoadInit
  <2>2. StackOK /\ CallOK /\ ModulesOK
    BY <2>1 DEF StackOK, CallOK, ModulesOK, NoDuplicateModules, EachFileOnce
  <2>3. ProgressOK /\ LeastOK /\ EntryOK
    BY <2>1 DEF ProgressOK, LeastOK, EntryOK, Finished
  <2>4. QED
    BY <2>2, <2>3 DEF LoadInv
<1>2. LoadTypeOK /\ LoadInv /\ [LoadNext]_loadVars => LoadInv'
  <2> SUFFICES ASSUME LoadTypeOK, LoadInv, [LoadNext]_loadVars PROVE LoadInv'
    OBVIOUS
  <2>1. CASE QuietStep
    BY <2>1, QuietKeeps
  <2>2. CASE EnterVisited \/ EnterNew \/ (\E fr \in Frame : AdvanceStep(fr)) \/ FinishModule
    BY <2>2, StackKept, CallKept, ProgressKept, LeastKept, ModulesKept, EntryKept DEF LoadInv
  <2>3. QED
    BY <2>1, <2>2, StepKinds DEF LoadInv
<1>3. QED
  BY <1>1, <1>2, LoadTypeCorrect, PTL DEF LoadSpec

\* Whatever the import graph, cyclic or not, no file is compiled twice.
THEOREM LoadsNoModuleTwice == LoadSpec => []NoDuplicateModules
<1>1. LoadInv => NoDuplicateModules
  BY DEF LoadInv, ModulesOK
<1>2. QED
  BY <1>1, LoadInvHolds, PTL

\* A visited file is on the call stack, or a module, or a declaration file.
THEOREM LoadsEachFileOnce == LoadSpec => []EachFileOnce
<1>1. LoadInv => EachFileOnce
  BY DEF LoadInv, ModulesOK
<1>2. QED
  BY <1>1, LoadInvHolds, PTL

\* A successful load has visited exactly the files the entry needs.
THEOREM LoadsExactlyReachable == LoadSpec => []LoadsReachable
<1>1. LoadTypeOK /\ LoadInv => LoadsReachable
  <2> SUFFICES ASSUME LoadTypeOK, LoadInv, result = "loaded" PROVE
        /\ Entry \in visited
        /\ ClosedUnderLoads(tree, visited)
        /\ \A S \in SUBSET Path : Entry \in S /\ ClosedUnderLoads(tree, S) => visited \subseteq S
    BY DEF LoadsReachable
  <2>1. stack = << >> /\ call = NoPath /\ Entry \in visited
    BY DEF LoadInv, CallOK
  <2>2. Finished = visited
    BY <2>1, EmptySeq DEF Finished, OnStack
  <2>3. ClosedUnderLoads(tree, visited)
    BY <2>2 DEF LoadInv, ProgressOK, ClosedUnderLoads
  <2>4. QED
    BY <2>1, <2>3 DEF LoadInv, LeastOK
<1>2. QED
  BY <1>1, LoadInvHolds, PTL

\* The entry's code is the last of the program, also when a module imports it.
THEOREM EntryEmittedLast == LoadSpec => []EntryLast
<1>1. LoadInv => EntryLast
  <2> SUFFICES ASSUME LoadInv, result = "loaded", Entry \notin Decl
               PROVE  modules # << >> /\ modules[Len(modules)] = Entry
    BY DEF EntryLast
  <2>1. stack = << >> /\ Entry \in visited
    BY DEF LoadInv, CallOK
  <2>2. Entry \in Finished
    BY <2>1, EmptySeq DEF Finished, OnStack
  <2>3. QED
    BY <2>2 DEF LoadInv, EntryOK
<1>2. QED
  BY <1>1, LoadInvHolds, PTL

-----------------------------------------------------------------------------
(* Import order.  The frames above a file on the stack were all loaded, in  *)
(* the end, by that file.  So a file that the innermost frame loads and that *)
(* does not lead back to it is not on the stack.                             *)

ChainOK ==
  \A S \in SUBSET Path : ClosedUnderLoads(tree, S) =>
    \A i, j \in 1..Len(stack) : i <= j /\ stack[i].path \in S => stack[j].path \in S

LEMMA ChainKept ==
  ASSUME LoadTypeOK, LoadInv, ChainOK, [LoadNext]_loadVars
  PROVE  ChainOK'
<1> USE DEF LoadInv
<1>1. CASE QuietStep \/ EnterVisited
  BY <1>1 DEF QuietStep, EnterVisited, ChainOK
<1>2. CASE EnterNew
  <2> DEFINE n == Len(stack)
  <2>1. /\ n \in Nat /\ Len(stack') = n + 1 /\ stack'[n + 1].path = call
        /\ \A i \in 1..n : stack'[i] = stack[i]
    BY <1>2, EnterShape
  <2>2. tree' = tree /\ call \in Path
    BY <1>2 DEF EnterNew, LoadTypeOK
  <2>3. n # 0 => call \in LoadedBy(tree, stack[n].path) /\ stack[n].path \in Path
    BY <1>2, StackTop, EmptySeq DEF CallOK, EnterNew, Top, LoadTypeOK, Frame
  <2> HIDE DEF n
  <2>4. ASSUME NEW S \in SUBSET Path, ClosedUnderLoads(tree, S),
               NEW i \in 1..(n + 1), NEW j \in 1..(n + 1), i <= j, stack'[i].path \in S
        PROVE  stack'[j].path \in S
    <3>1. CASE j \in 1..n
      <4>1. i \in 1..n
        BY <2>1, <2>4, <3>1
      <4>2. QED
        BY <2>1, <2>4, <3>1, <4>1 DEF ChainOK, n
    <3>2. CASE j = n + 1 /\ i \in 1..n
      <4>1. n # 0 /\ n \in 1..n /\ i <= n
        BY <2>1, <3>2
      <4>2. stack[n].path \in S
        BY <2>1, <2>4, <3>2, <4>1 DEF ChainOK, n
      <4>3. QED
        BY <2>1, <2>3, <2>4, <3>2, <4>1, <4>2 DEF ClosedUnderLoads
    <3>3. CASE j = n + 1 /\ i = n + 1
      BY <2>4, <3>3
    <3>4. QED
      BY <2>1, <2>4, <3>1, <3>2, <3>3
  <2>5. QED
    BY <2>1, <2>2, <2>4 DEF ChainOK
<1>3. ASSUME NEW fr \in Frame, AdvanceStep(fr) PROVE ChainOK'
  <2>1. tree' = tree /\ Len(stack') = Len(stack) /\ \A i \in 1..Len(stack) : stack'[i].path = stack[i].path
    BY <1>3, AdvanceShape DEF AdvanceStep
  <2>2. QED
    BY <2>1 DEF ChainOK
<1>4. CASE FinishModule
  <2>1. /\ tree' = tree /\ Len(stack) \in Nat /\ Len(stack') = Len(stack) - 1
        /\ \A i \in 1..(Len(stack) - 1) : stack'[i] = stack[i]
    BY <1>4, FinishShape DEF FinishModule
  <2>2. \A i \in 1..Len(stack') : i \in 1..Len(stack) /\ stack'[i] = stack[i]
    BY <2>1
  <2>3. QED
    BY <2>1, <2>2 DEF ChainOK
<1>5. QED
  BY <1>1, <1>2, <1>3, <1>4, StepKinds

LEMMA ChainHolds == LoadSpec => [](LoadTypeOK /\ LoadInv /\ ChainOK)
<1>1. LoadInit => ChainOK
  BY EmptySeq DEF LoadInit, ChainOK
<1>2. LoadTypeOK /\ LoadInv /\ ChainOK /\ [LoadNext]_loadVars => ChainOK'
  BY ChainKept
<1>3. QED
  BY <1>1, <1>2, LoadInvHolds, PTL DEF LoadSpec

LEMMA NoCycleNotOnStack ==
  ASSUME LoadTypeOK, ChainOK, stack # << >>, NEW q, ~Reaches(tree, q, Top.path)
  PROVE  ~OnStack(q)
<1> DEFINE n == Len(stack)
<1>1. n \in Nat \ {0} /\ Top = stack[n] /\ n \in 1..n
  BY StackTop DEF LoadTypeOK
<1>2. PICK S \in SUBSET Path : q \in S /\ ClosedUnderLoads(tree, S) /\ Top.path \notin S
  BY DEF Reaches
<1> SUFFICES ASSUME NEW i \in 1..n, stack[i].path = q PROVE FALSE
  BY DEF OnStack
<1>3. stack[n].path \in S
  BY <1>1, <1>2 DEF ChainOK
<1>4. QED
  BY <1>1, <1>2, <1>3

\* When a module is about to be emitted, what it loads has been finished.
LEMMA DepsFinished ==
  ASSUME LoadTypeOK, LoadInv, ChainOK, AtEnd,
         NEW q \in LoadedBy(tree, Top.path), ~Reaches(tree, q, Top.path)
  PROVE  q \in Finished
<1>1. /\ stack # << >> /\ call = NoPath /\ Top.phase = "imports" /\ ~MoreImports
      /\ Len(stack) \in Nat \ {0} /\ Top = stack[Len(stack)] /\ Top \in Frame
  BY StackTop DEF AtEnd, Working, LoadTypeOK
<1>2. Top.done = Len(tree.imports[Top.path])
  <2>1. tree.imports[Top.path] \in Seq(Import) /\ Top.done \in Nat
    BY <1>1 DEF Frame, LoadTypeOK, SourceTrees
  <2>2. Top.done <= Len(tree.imports[Top.path])
    BY <1>1 DEF LoadInv, StackOK
  <2>3. QED
    BY <1>1, <2>1, <2>2 DEF MoreImports
<1>3. LoadedBy(tree, Top.path) \subseteq Asked(Top)
  BY <1>1, <1>2 DEF LoadedBy, BeshtImports, Asked
<1>4. Asked(Top) \subseteq visited
  BY <1>1, AskedInPath, PathAssumption DEF LoadInv, ProgressOK
<1>5. ~OnStack(q)
  BY <1>1, NoCycleNotOnStack
<1>6. QED
  BY <1>3, <1>4, <1>5 DEF Finished

\* A module is emitted after every module it imports, cycles excepted.
THEOREM LoadsDepsFirst == LoadSpec => []DepsFirst
<1>1. LoadInit => DepsFirst
  BY EmptySeq DEF LoadInit, DepsFirst
<1>2. LoadTypeOK /\ LoadInv /\ ChainOK /\ DepsFirst /\ [LoadNext]_loadVars => DepsFirst'
  <2> SUFFICES ASSUME LoadTypeOK, LoadInv, ChainOK, DepsFirst, [LoadNext]_loadVars PROVE DepsFirst'
    OBVIOUS
  <2>1. CASE UNCHANGED <<tree, modules>>
    BY <2>1 DEF DepsFirst
  <2>2. CASE FinishModule
    <3>1. tree' = tree /\ AtEnd
      BY <2>2 DEF FinishModule
    <3>2. SUFFICES ASSUME NEW i \in 1..Len(modules'), NEW q \in BeshtImports(tree, modules'[i]),
                          q \notin Decl, ~Reaches(tree, q, modules'[i])
                   PROVE  \E j \in 1..(i - 1) : modules'[j] = q
      BY <3>1 DEF DepsFirst
    <3>3. CASE i \in 1..Len(modules)
      <4>1. modules'[i] = modules[i] /\ Len(modules) \in Nat
        BY <2>2, <3>3, FinishModules DEF LoadInv
      <4>2. PICK j \in 1..(i - 1) : modules[j] = q
        BY <3>2, <3>3, <4>1 DEF DepsFirst
      <4>3. j \in 1..Len(modules)
        BY <3>3, <4>1, <4>2
      <4>4. modules'[j] = modules[j]
        BY <2>2, <4>3, FinishModules DEF LoadInv
      <4>5. QED
        BY <4>2, <4>4
    <3>4. CASE i \notin 1..Len(modules)
      <4>1. Top.path \notin Decl /\ i = Len(modules) + 1 /\ modules'[i] = Top.path /\ Len(modules) \in Nat
        BY <2>2, <3>2, <3>4, FinishModules DEF LoadInv
      <4>2. q \in LoadedBy(tree, Top.path)
        BY <3>2, <4>1 DEF LoadedBy
      <4>3. q \in Finished
        BY <3>1, <3>2, <4>1, <4>2, DepsFinished
      <4>4. IsModule(q)
        BY <3>2, <4>3 DEF LoadInv, ModulesOK, EachFileOnce, Finished
      <4>5. PICK j \in 1..Len(modules) : modules[j] = q
        BY <4>4 DEF IsModule
      <4>6. modules'[j] = q /\ j \in 1..(i - 1)
        BY <2>2, <4>1, <4>5, FinishModules DEF LoadInv
      <4>7. QED
        BY <4>6
    <3>5. QED
      BY <3>3, <3>4
  <2>3. QED
    BY <2>1, <2>2, StepKinds DEF LoadInv, QuietStep, EnterVisited, EnterNew, AdvanceStep
<1>3. QED
  BY <1>1, <1>2, ChainHolds, PTL DEF LoadSpec

-----------------------------------------------------------------------------
(* The validator. *)

\* A finished file has registered what it exports and declares, and the
\* imports a frame has passed were accepted by validateImport.
SigsOK ==
  \A p \in Finished :
    /\ \A n \in tree.exports[p] : sigs[QualKey(p, n)] # NoPath
    /\ \A n \in tree.declares[p] : sigs[BareKey(n)] # NoPath

AcceptedOK ==
  \A i \in 1..Len(stack) : \A j \in 1..stack[i].done :
    ImportOk(tree, tree.imports[stack[i].path][j])

\* An undeclared call was found at the end of the innermost frame's imports.
UndeclaredOK ==
  result = "undeclared" =>
    /\ stack # << >> /\ call = NoPath /\ Top.phase = "imports" /\ ~MoreImports
    /\ ~(tree.calls[Top.path] \subseteq KnownNames(Top.path))

LEMMA SigsKept ==
  ASSUME LoadTypeOK, LoadInv, SigsOK, [LoadNext]_loadVars
  PROVE  SigsOK'
<1> USE DEF LoadInv
<1>1. CASE QuietStep \/ EnterVisited
  BY <1>1 DEF QuietStep, EnterVisited, SigsOK, Finished, OnStack
<1>2. CASE EnterNew
  <2>1. Finished' = Finished
    BY <1>2, EnterShape DEF EnterNew, Finished
  <2>2. QED
    BY <1>2, <2>1 DEF EnterNew, SigsOK
<1>3. ASSUME NEW fr \in Frame, AdvanceStep(fr) PROVE SigsOK'
  BY <1>3, AdvanceShape DEF AdvanceStep, SigsOK
<1>4. CASE FinishModule
  <2>1. /\ tree' = tree /\ sigs' = Register(Top.path)
        /\ Finished' = Finished \cup {Top.path} /\ Top.path \in Path
    BY <1>4, FinishShape DEF FinishModule
  <2>2. /\ tree.exports \in [Path -> SUBSET Name] /\ tree.declares \in [Path -> SUBSET Name]
        /\ Top.path # NoPath
    BY <2>1, PathAssumption DEF LoadTypeOK, SourceTrees
  <2>3. ASSUME NEW p \in Path, NEW n \in Name
        PROVE  /\ QualKey(p, n) \in Key /\ QualKey(p, n)[1] = PrefixOf[p] /\ QualKey(p, n)[2] = n
               /\ BareKey(n) \in Key /\ BareKey(n)[1] = Bare /\ BareKey(n)[2] = n
    BY NameAssumption DEF QualKey, BareKey, Key
  <2>4. \A k \in Key : sigs[k] # NoPath => sigs'[k] # NoPath
    BY <2>1, <2>2 DEF Register
  <2>5. \A n \in tree.exports[Top.path] : sigs'[QualKey(Top.path, n)] # NoPath
    BY <2>1, <2>2, <2>3 DEF Register
  <2>6. \A n \in tree.declares[Top.path] : sigs'[BareKey(n)] # NoPath
    BY <2>1, <2>2, <2>3 DEF Register
  <2>7. Finished \subseteq Path
    BY DEF LoadTypeOK, Finished
  <2>8. \A p \in Finished : \A n \in tree.exports[p] : sigs'[QualKey(p, n)] # NoPath
    BY <2>2, <2>3, <2>4, <2>7 DEF SigsOK
  <2>9. \A p \in Finished : \A n \in tree.declares[p] : sigs'[BareKey(n)] # NoPath
    BY <2>2, <2>3, <2>4, <2>7 DEF SigsOK
  <2>10. QED
    BY <2>1, <2>5, <2>6, <2>8, <2>9 DEF SigsOK
<1>5. QED
  BY <1>1, <1>2, <1>3, <1>4, StepKinds

LEMMA AcceptedKept ==
  ASSUME LoadTypeOK, LoadInv, AcceptedOK, [LoadNext]_loadVars
  PROVE  AcceptedOK'
<1> USE DEF LoadInv
<1>1. CASE QuietStep \/ EnterVisited
  BY <1>1 DEF QuietStep, EnterVisited, AcceptedOK
<1>2. CASE EnterNew
  <2>1. \A j \in 1..0 : FALSE
    OBVIOUS
  <2>2. QED
    BY <1>2, <2>1, EnterShape DEF EnterNew, AcceptedOK
<1>3. ASSUME NEW fr \in Frame, AdvanceStep(fr) PROVE AcceptedOK'
  <2>1. tree' = tree /\ Top = stack[Len(stack)] /\ fr.path = Top.path
    BY <1>3 DEF AdvanceStep, Top
  <2>2. \A j \in 1..fr.done : ImportOk(tree, tree.imports[fr.path][j])
    BY <1>3, <2>1, AdvanceShape DEF AdvanceStep, AcceptedOK
  <2>3. QED
    BY <1>3, <2>1, <2>2, AdvanceShape DEF AcceptedOK
<1>4. CASE FinishModule
  BY <1>4, FinishShape DEF FinishModule, AcceptedOK
<1>5. QED
  BY <1>1, <1>2, <1>3, <1>4, StepKinds

LEMMA UndeclaredKept ==
  ASSUME LoadTypeOK, LoadInv, UndeclaredOK, [LoadNext]_loadVars
  PROVE  UndeclaredOK'
<1>1. CASE UndeclaredCall
  BY <1>1 DEF UndeclaredCall, AtEnd, Working, Fail, UndeclaredOK, Top, MoreImports, KnownNames, ImportedNames
<1>2. CASE UNCHANGED loadVars
  BY <1>2 DEF loadVars, UndeclaredOK, Top, MoreImports, KnownNames, ImportedNames
<1>3. CASE LoadNext /\ ~UndeclaredCall
  <2>1. result' # "undeclared"
    BY <1>3 DEF LoadNext, EnterOutside, EnterVisited, EnterNew, LoadStdlib, ReadFails, Readable,
      ReadAndParse, ImportRejected, SkipShellImport, LoadImport, ValidateRejects, FinishModule,
      AtEnd, Working, Fail
  <2>2. QED
    BY <2>1 DEF UndeclaredOK
<1>4. QED
  BY <1>1, <1>2, <1>3

\* The validator reports an undeclared function only in a module that neither
\* declares it nor imports it from a file that has it, cycles excepted.
THEOREM LoadRejectsOnlyUndeclared == LoadSpec => []RejectsOnlyUndeclared
<1>1. LoadInit => SigsOK /\ AcceptedOK /\ UndeclaredOK
  BY EmptySeq DEF LoadInit, SigsOK, AcceptedOK, UndeclaredOK, Finished
<1>2. LoadTypeOK /\ LoadInv /\ SigsOK /\ AcceptedOK /\ UndeclaredOK /\ [LoadNext]_loadVars
        => SigsOK' /\ AcceptedOK' /\ UndeclaredOK'
  BY SigsKept, AcceptedKept, UndeclaredKept
<1>3. LoadTypeOK /\ LoadInv /\ ChainOK /\ SigsOK /\ AcceptedOK /\ UndeclaredOK => RejectsOnlyUndeclared
  <2> SUFFICES ASSUME LoadTypeOK, LoadInv, ChainOK, SigsOK, AcceptedOK, UndeclaredOK,
                      result = "undeclared", CallsOwnOrImported(Top.path)
               PROVE  FALSE
    BY DEF RejectsOnlyUndeclared
  <2> DEFINE p == Top.path
  <2>1. /\ stack # << >> /\ call = NoPath /\ Top.phase = "imports" /\ ~MoreImports
        /\ ~(tree.calls[p] \subseteq KnownNames(p))
    BY DEF UndeclaredOK
  <2>2. /\ Top = stack[Len(stack)] /\ Len(stack) \in Nat \ {0} /\ Top \in Frame /\ p \in Path
    BY <2>1, StackTop DEF LoadTypeOK, Frame
  <2>3. PICK n \in tree.calls[p] : n \notin KnownNames(p)
    BY <2>1
  <2>4. n \in Name /\ tree.imports[p] \in Seq(Import) /\ p \in visited
    BY <2>2, <2>3 DEF LoadTypeOK, SourceTrees, LoadInv, StackOK
  <2>5. CASE n \in tree.defs[p] \cup tree.declares[p]
    BY <2>3, <2>4, <2>5 DEF KnownNames
  <2>6. CASE n \notin tree.defs[p] \cup tree.declares[p]
    <3>1. PICK i \in DOMAIN tree.imports[p] :
            /\ n \in tree.imports[p][i].names
            /\ \/ IsShell(tree.imports[p][i])
               \/ /\ n \in tree.exports[tree.imports[p][i].path] \cup tree.declares[tree.imports[p][i].path]
                  /\ ~Reaches(tree, tree.imports[p][i].path, p)
      BY <2>3, <2>6 DEF CallsOwnOrImported
    <3> DEFINE imp == tree.imports[p][i]
    <3>2. i \in 1..Len(tree.imports[p]) /\ imp \in Import /\ imp.path \in Path
      <4>1. i \in 1..Len(tree.imports[p]) /\ imp \in Import
        BY <2>4, <3>1
      <4>2. QED
        BY <4>1 DEF Import
    <3>3. CASE IsShell(imp) \/ sigs[QualKey(imp.path, n)] # NoPath
      BY <2>3, <2>4, <3>1, <3>3 DEF KnownNames, ImportedNames
    <3>4. CASE sigs[BareKey(n)] # NoPath
      BY <2>3, <2>4, <3>4 DEF KnownNames
    <3>5. CASE ~IsShell(imp)
      <4>1. Top.done = Len(tree.imports[p])
        <5>1. Top.done \in Nat /\ Len(tree.imports[p]) \in Nat
          BY <2>2, <2>4 DEF Frame
        <5>2. Top.done <= Len(tree.imports[p])
          BY <2>2 DEF LoadInv, StackOK
        <5>3. QED
          BY <2>1, <5>1, <5>2 DEF MoreImports
      <4>2. ImportOk(tree, imp)
        BY <2>2, <3>2, <4>1 DEF AcceptedOK
      <4>3. imp.kind = "besht"
        BY <3>2, <3>5, <4>2 DEF ImportOk, IsShell, Import
      <4>4. imp.path \in Asked(Top)
        BY <3>2, <4>1, <4>3 DEF Asked
      <4>5. imp.path \in visited
        BY <2>1, <2>2, <4>4, <3>2, PathAssumption DEF LoadInv, ProgressOK
      <4>6. ~OnStack(imp.path)
        BY <2>1, <3>1, <3>5, NoCycleNotOnStack
      <4>7. imp.path \in Finished
        BY <4>5, <4>6 DEF Finished
      <4>8. sigs[QualKey(imp.path, n)] # NoPath \/ sigs[BareKey(n)] # NoPath
        BY <3>1, <3>5, <4>7 DEF SigsOK
      <4>9. QED
        BY <3>3, <3>4, <4>8
    <3>6. QED
      BY <3>3, <3>5
  <2>7. QED
    BY <2>5, <2>6
<1>4. QED
  BY <1>1, <1>2, <1>3, ChainHolds, PTL DEF LoadSpec

=============================================================================
