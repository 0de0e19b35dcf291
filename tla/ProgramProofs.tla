--------------------------- MODULE ProgramProofs ----------------------------
(***************************************************************************)
(* Proofs about a program and its run, for every program: sh runs the      *)
(* modules' code in the order in which the compiler emits them, each       *)
(* module's after that of the modules it imports (module ModuleInit), and  *)
(* runs nothing twice.                                                     *)
(*                                                                         *)
(* Of a bundle this holds by its text.  A split program repeats, with      *)
(* source lines and guards, the traversal that load made of the imports:   *)
(* at every moment of the run the files being sourced, the guards and the  *)
(* bodies that have run are those of a moment in the log of the load       *)
(* (OrderProofs), and each step of sh stays at that moment or goes on to   *)
(* the next.                                                               *)
(*                                                                         *)
(* And a call reaches the function it means: the code of a module stands   *)
(* behind the shell files it imports, in the text of every file, and what  *)
(* it needs of the modules has run before it.                              *)
(***************************************************************************)
EXTENDS RunProofs

\* Guards tell the libraries apart, and no module imports the entry, whose
\* script has no guard.
GuardsApart ==
  /\ \A p, q \in ModuleSet \ {Entry} : PrefixOf[p] = PrefixOf[q] => p = q
  /\ \A p \in visited : Entry \notin BeshtImports(tree, p)

\* The programs that run as they were loaded: all the bundled ones, and the
\* split ones but for the three shapes in which sh goes another way.
Followed == mode = "bundle" \/ (DeclsApart /\ GuardsApart)

-----------------------------------------------------------------------------
(* What is left of the text of a file. *)

\* x is the text of p past the opening line and the first k sourced imports.
Remains(x, p, k) ==
  /\ k <= Len(Sourced(p))
  /\ Len(x) = Len(Sourced(p)) - k + 1
  /\ \A i \in 1..(Len(Sourced(p)) - k) : x[i] = ImportInstr(Sourced(p)[k + i])
  /\ x[Len(Sourced(p)) - k + 1] = Do("body", p)

LEMMA TailIs ==
  ASSUME NEW U, NEW x \in Seq(U), Len(x) > 0
  PROVE  /\ x # << >> /\ Head(x) = x[1]
         /\ Tail(x) \in Seq(U) /\ Len(Tail(x)) = Len(x) - 1
         /\ \A i \in 1..(Len(x) - 1) : Tail(x)[i] = x[i + 1]
  BY EmptySeq, HeadTailProperties

LEMMA RemainsFirst ==
  ASSUME LoadTypeOK, NEW p \in Path, NEW x, x = TextOf(p)
  PROVE  x # << >> /\ Head(x) = Opening(p) /\ Remains(Tail(x), p, 0)
<1> DEFINE N == Len(Sourced(p))
<1>1. /\ x \in Seq(Instr) /\ Len(x) = N + 2 /\ N \in Nat
      /\ x[1] = Opening(p) /\ x[N + 2] = Do("body", p)
      /\ \A i \in 1..N : x[i + 1] = ImportInstr(Sourced(p)[i])
  BY TextIs, SourcedSteps
<1> HIDE DEF N
<1>2. /\ x # << >> /\ Head(x) = x[1]
      /\ Len(Tail(x)) = N + 1
      /\ \A i \in 1..(N + 1) : Tail(x)[i] = x[i + 1]
  <2>1. Len(x) > 0 /\ Len(x) - 1 = N + 1
    BY <1>1
  <2>2. QED
    BY <1>1, <2>1, TailIs
<1>3. Tail(x)[N + 1] = Do("body", p)
  <2>1. N + 1 \in 1..(N + 1) /\ (N + 1) + 1 = N + 2
    BY <1>1
  <2>2. QED
    BY <1>1, <1>2, <2>1
<1>4. \A i \in 1..N : Tail(x)[i] = ImportInstr(Sourced(p)[i])
  BY <1>1, <1>2
<1>5. Remains(Tail(x), p, 0)
  <2>1. N - 0 = N /\ \A i \in 1..N : 0 + i = i
    BY <1>1
  <2>2. QED
    BY <1>1, <1>2, <1>3, <1>4, <2>1 DEF Remains, N
<1>6. QED
  BY <1>1, <1>2, <1>5

LEMMA RemainsNext ==
  ASSUME LoadTypeOK, NEW p \in Path, NEW U, NEW x \in Seq(U), NEW k \in Nat, Remains(x, p, k),
         k < Len(Sourced(p))
  PROVE  x # << >> /\ Head(x) = ImportInstr(Sourced(p)[k + 1]) /\ Remains(Tail(x), p, k + 1)
<1> DEFINE N == Len(Sourced(p))
<1>1. N \in Nat /\ k < N
  BY SourcedSteps
<1>2. /\ Len(x) = N - k + 1 /\ x[N - k + 1] = Do("body", p)
      /\ \A i \in 1..(N - k) : x[i] = ImportInstr(Sourced(p)[k + i])
  BY DEF Remains
<1> HIDE DEF N
<1>3. /\ x # << >> /\ Head(x) = x[1]
      /\ Len(Tail(x)) = N - k
      /\ \A i \in 1..(N - k) : Tail(x)[i] = x[i + 1]
  <2>1. Len(x) > 0 /\ Len(x) - 1 = N - k
    BY <1>1, <1>2
  <2>2. QED
    BY <2>1, TailIs
<1>4. Head(x) = ImportInstr(Sourced(p)[k + 1])
  BY <1>1, <1>2, <1>3
<1>5. \A i \in 1..(N - (k + 1)) : Tail(x)[i] = ImportInstr(Sourced(p)[(k + 1) + i])
  <2> SUFFICES ASSUME NEW i \in 1..(N - (k + 1)) PROVE Tail(x)[i] = ImportInstr(Sourced(p)[(k + 1) + i])
    OBVIOUS
  <2>1. i \in 1..(N - k) /\ i + 1 \in 1..(N - k) /\ k + (i + 1) = (k + 1) + i
    BY <1>1
  <2>2. QED
    BY <1>2, <1>3, <2>1
<1>6. Tail(x)[N - (k + 1) + 1] = Do("body", p) /\ Len(Tail(x)) = N - (k + 1) + 1 /\ k + 1 <= N
  <2>1. N - (k + 1) + 1 = N - k /\ N - k \in 1..(N - k) /\ k + 1 <= N
    BY <1>1
  <2>2. QED
    BY <1>2, <1>3, <2>1
<1>7. Remains(Tail(x), p, k + 1)
  BY <1>5, <1>6 DEF Remains, N
<1>8. QED
  BY <1>3, <1>4, <1>7

LEMMA RemainsLast ==
  ASSUME LoadTypeOK, NEW p \in Path, NEW U, NEW x \in Seq(U), Remains(x, p, Len(Sourced(p)))
  PROVE  x # << >> /\ Head(x) = Do("body", p) /\ Tail(x) = << >>
<1> DEFINE N == Len(Sourced(p))
<1>1. N \in Nat
  BY SourcedSteps
<1>2. Len(x) = N - N + 1 /\ x[N - N + 1] = Do("body", p)
  BY DEF Remains
<1> HIDE DEF N
<1>3. Len(x) = 1 /\ x[1] = Do("body", p)
  BY <1>1, <1>2
<1>4. /\ x # << >> /\ Head(x) = x[1] /\ Tail(x) \in Seq(U) /\ Len(Tail(x)) = 0
  BY <1>3, TailIs
<1>5. QED
  BY <1>3, <1>4, EmptySeq

-----------------------------------------------------------------------------
(* Where sh is in a split program. *)

\* Only the guards of the files seen are set.
GuardsOf(seen) ==
  \A p \in ModuleSet \ {Entry} : <<"lib", PrefixOf[p]>> \in guards <=> p \in seen

\* The entry comes first and never again.
CallOf(m) ==
  /\ m.call \in ModuleSet \cup {NoPath}
  /\ m.call = Entry <=> m.seen = {}
  /\ m.seen = {} => trace = << >>

\* A file that is done, or a raw shell file.
IsSpent(x) == x = << >> \/ \E s \in Path : x = <<Do("raw", s)>>

FilesOf(m) ==
  /\ Len(m.stack) <= Len(frames)
  /\ \A i \in 1..Len(m.stack) : Remains(frames[i], m.stack[i].path, m.stack[i].done)
  /\ m.call # NoPath => Len(frames) = Len(m.stack) + 1 /\ frames[Len(frames)] = TextOf(m.call)
  /\ m.call = NoPath => \/ Len(frames) = Len(m.stack)
                        \/ Len(frames) = Len(m.stack) + 1 /\ IsSpent(frames[Len(frames)])

\* sh is at moment m of the traversal.
Meets(m) == SameBodies(Bodies, m.ran) /\ GuardsOf(m.seen) /\ CallOf(m) /\ FilesOf(m)

LEMMA SameTexts ==
  ASSUME UNCHANGED buildVars
  PROVE  /\ tree' = tree /\ mode' = mode /\ ModuleSet' = ModuleSet
         /\ \A p : TextOf(p)' = TextOf(p)
         /\ \A x, p, k : Remains(x, p, k)' <=> Remains(x, p, k)
<1>1. tree' = tree /\ mode' = mode /\ modules' = modules
  BY DEF buildVars, loadVars
<1>2. ModuleSet' = ModuleSet
  BY <1>1 DEF ModuleSet
<1>3. \A p : Sourced(p)' = Sourced(p)
  BY <1>1 DEF Sourced
<1>4. \A p : TextOf(p)' = TextOf(p)
  BY <1>1 DEF TextOf, EntryText, LibraryText, ImportText
<1>5. \A x, p, k : Remains(x, p, k)' <=> Remains(x, p, k)
  BY <1>3 DEF Remains
<1>6. QED
  BY <1>1, <1>2, <1>4, <1>5

LEMMA BodyInstrIs ==
  ASSUME NEW i \in Instr
  PROVE  i \in BodyInstr <=> i.op = "body"
<1>1. i.op = "body" => i = Do("body", i.path) /\ i.path \in Path
  BY DEF Instr, Do
<1>2. \A p \in Path : Do("body", p).op = "body"
  BY DoIsInstr
<1>3. QED
  BY <1>1, <1>2 DEF BodyInstr

LEMMA BodiesGrow ==
  ASSUME RunInv, NEW i \in Instr, trace' = Append(trace, i)
  PROVE  /\ i.op = "body" => Bodies' = Append(Bodies, i)
         /\ i.op # "body" => Bodies' = Bodies
<1>1. trace \in Seq(Instr) /\ Bodies = Kept(trace, BodyInstr) /\ Bodies' = Kept(Append(trace, i), BodyInstr)
  BY DEF Bodies, BodyInstr, RunInv
<1>2. Kept(Append(trace, i), BodyInstr) = IF i \in BodyInstr THEN Append(Kept(trace, BodyInstr), i)
                                          ELSE Kept(trace, BodyInstr)
  BY <1>1, KeptAppend
<1>3. QED
  BY <1>1, <1>2, BodyInstrIs

LEMMA BodiesStay ==
  ASSUME trace' = trace
  PROVE  Bodies' = Bodies
  BY DEF Bodies

LEMMA BodiesType ==
  ASSUME RunInv
  PROVE  Bodies \in Seq(Instr) /\ Len(Bodies) \in Nat
<1>1. KeptAfter(trace, BodyInstr) \in [0..Len(trace) -> Seq(Instr)] /\ Len(trace) \in Nat
  BY KeptSteps DEF RunInv
<1>2. Bodies = KeptAfter(trace, BodyInstr)[Len(trace)]
  BY DEF Bodies, BodyInstr, Kept
<1>3. QED
  BY <1>1, <1>2

\* What sh does next is determined by the text it is in.
LEMMA StepByOp ==
  ASSUME ShStep
  PROVE  /\ frames # << >>
         /\ Text = << >> => EndOfFile
         /\ Text # << >> =>
              /\ Head(Text).op = "root" => SetRoot
              /\ Head(Text).op = "guard" => GuardReturns \/ GuardPasses
              /\ Head(Text).op = "source" => SourceModule
              /\ Head(Text).op = "shell" => SourceShell
              /\ Head(Text).op = "raw" => RunShellFile
              /\ Head(Text).op = "body" => RunBody
<1>1. frames # << >>
  BY DEF ShStep, EndOfFile, SetRoot, GuardReturns, GuardPasses, SourceModule, SourceShell,
         RunShellFile, RunBody, Executing
<1>2. Text = << >> => EndOfFile
  BY DEF ShStep, EndOfFile, SetRoot, GuardReturns, GuardPasses, SourceModule, SourceShell,
         RunShellFile, RunBody, Executing
<1>3. Text # << >> => ~EndOfFile
  BY DEF EndOfFile
<1>4. QED
  BY <1>1, <1>2, <1>3 DEF ShStep, SetRoot, GuardReturns, GuardPasses, SourceModule, SourceShell,
         RunShellFile, RunBody, Executing

\* A file that is done is left, and a raw shell file is run, at the same moment.
LEMMA MeetsStays ==
  ASSUME CompilerInv, RunInv, ShStep, NEW m \in Moment, Meets(m),
         m.call = NoPath, Len(frames) # Len(m.stack)
  PROVE  Meets(m)'
<1> DEFINE d == Len(m.stack)
           S == ScriptInstr
<1>1. /\ frames # << >> /\ UNCHANGED buildVars /\ d \in Nat
  BY ShStepInside DEF Moment
<1>2. /\ Len(frames) = d + 1 /\ IsSpent(frames[d + 1])
      /\ \A i \in 1..d : Remains(frames[i], m.stack[i].path, m.stack[i].done)
      /\ SameBodies(Bodies, m.ran) /\ GuardsOf(m.seen) /\ CallOf(m)
  BY DEF Meets, FilesOf
<1>3. frames \in Seq(Seq(S))
  BY DEF RunInv
<1> HIDE DEF S, d
<1>4. Text = frames[d + 1] /\ Text \in Seq(S) /\ Depth = d + 1
  BY <1>1, <1>2, <1>3, TextShape DEF Depth
<1>5. m.seen # {}
  BY PathAssumption, <1>2 DEF CallOf
<1>6. guards' = guards => GuardsOf(m.seen)' /\ CallOf(m)'
  BY <1>1, <1>2, <1>5, SameTexts DEF GuardsOf, CallOf
<1>7. CASE Text = << >>
  <2>1. frames' = Outer /\ guards' = guards /\ trace' = trace
    BY <1>7, StepByOp DEF EndOfFile
  <2>2. Len(frames') = d /\ \A i \in 1..d : frames'[i] = frames[i]
    BY <1>1, <1>3, <1>4, <2>1, TextShape
  <2>3. FilesOf(m)'
    BY <1>1, <1>2, <2>2, SameTexts DEF FilesOf, d
  <2>4. SameBodies(Bodies, m.ran)'
    BY <1>2, <2>1, BodiesStay DEF SameBodies
  <2>5. QED
    BY <1>6, <2>1, <2>3, <2>4 DEF Meets
<1>8. CASE Text # << >>
  <2>1. PICK s \in Path : Text = <<Do("raw", s)>>
    BY <1>2, <1>4, <1>8 DEF IsSpent
  <2>2. Head(Text) = Do("raw", s) /\ Head(Text).op = "raw" /\ Head(Text) \in Instr
    BY <2>1, DoIsInstr
  <2>3. frames' = Rest /\ guards' = guards /\ trace' = Append(trace, Head(Text))
    BY <1>8, <2>2, StepByOp DEF RunShellFile
  <2>4. Tail(Text) = << >>
    BY <2>1
  <2>5. Len(frames') = d + 1 /\ frames'[d + 1] = << >> /\ \A i \in 1..d : frames'[i] = frames[i]
    <3>1. /\ Len(Rest) = Depth /\ Rest[Depth] = Tail(Text)
          /\ \A i \in 1..(Depth - 1) : Rest[i] = frames[i]
      BY <1>1, <1>3, <1>8, RestShape
    <3>2. (d + 1) - 1 = d
      BY <1>1
    <3>3. QED
      BY <1>4, <2>3, <2>4, <3>1, <3>2
  <2>6. FilesOf(m)'
    BY <1>1, <1>2, <2>5, SameTexts DEF FilesOf, d, IsSpent
  <2>7. SameBodies(Bodies, m.ran)'
    BY <1>2, <2>2, <2>3, BodiesGrow DEF SameBodies
  <2>8. QED
    BY <1>6, <2>3, <2>6, <2>7 DEF Meets
<1>9. QED
  BY <1>7, <1>8

\* What the log says of the next moment.
LEMMA NextIs ==
  ASSUME NEW m \in Moment, NEW n \in Moment, Onward(m, n)
  PROVE  /\ m.call # NoPath /\ m.call \in m.seen => Return(m, n)
         /\ m.call # NoPath /\ m.call \notin m.seen => Enter(m, n)
         /\ m.call = NoPath => /\ Visiting(m)
                               /\ Innermost(m).done < Len(Sourced(Innermost(m).path)) => Pass(m, n)
                               /\ Innermost(m).done = Len(Sourced(Innermost(m).path)) => Finish(m, n)
<1>1. m.seen \in SUBSET Path /\ NoPath \notin Path
  BY PathAssumption DEF Moment
<1>2. m.call # NoPath => ~Pass(m, n) /\ ~Finish(m, n)
  BY DEF Pass, Finish, Visiting
<1>3. m.call = NoPath => ~Return(m, n) /\ ~Enter(m, n)
  BY <1>1 DEF Return, Enter
<1>4. m.call \in m.seen => ~Enter(m, n)
  BY DEF Enter
<1>5. m.call \notin m.seen => ~Return(m, n)
  BY DEF Return
<1>6. Pass(m, n) => Visiting(m) /\ Innermost(m).done < Len(Sourced(Innermost(m).path))
  BY DEF Pass
<1>7. Finish(m, n) => Visiting(m) /\ Innermost(m).done = Len(Sourced(Innermost(m).path))
  BY DEF Finish
<1>8. Visiting(m) => Innermost(m).done \in Nat
  <2> SUFFICES ASSUME Visiting(m) PROVE Innermost(m).done \in Nat
    OBVIOUS
  <2>1. m.stack \in Seq(Spot) /\ m.stack # << >>
    BY DEF Visiting, Moment
  <2>2. Innermost(m) \in Spot
    BY <2>1, EmptySeq DEF Innermost
  <2>3. QED
    BY <2>2 DEF Spot
<1>9. QED
  BY <1>2, <1>3, <1>4, <1>5, <1>6, <1>7, <1>8 DEF Onward

\* The script of the file called: it is entered, or its guard ends it.
LEMMA MeetsCalls ==
  ASSUME CompilerInv, RunInv, ShStep, mode = "split", GuardsApart,
         NEW m \in Moment, Meets(m), m.call # NoPath, NEW n \in Moment, Onward(m, n)
  PROVE  Meets(n)'
<1> DEFINE d == Len(m.stack)
           S == ScriptInstr
           p == m.call
<1>1. /\ frames # << >> /\ UNCHANGED buildVars /\ d \in Nat /\ stage = "built"
      /\ m.stack \in Seq(Spot) /\ LoadTypeOK
  BY ShStepInside DEF Moment, CompilerInv
<1>2. /\ Len(frames) = d + 1 /\ frames[d + 1] = TextOf(p)
      /\ \A i \in 1..d : Remains(frames[i], m.stack[i].path, m.stack[i].done)
      /\ SameBodies(Bodies, m.ran) /\ GuardsOf(m.seen) /\ CallOf(m)
  BY DEF Meets, FilesOf
<1>3. p \in ModuleSet /\ p \in Path /\ p # NoPath
  <2>1. p \in ModuleSet
    BY <1>2 DEF CallOf
  <2>2. QED
    BY <1>1, <2>1, Finally
<1>4. Text = TextOf(p) /\ Depth = d + 1 /\ frames \in Seq(Seq(S))
  BY <1>2 DEF Text, Depth, RunInv
<1>5. /\ Text # << >> /\ Head(Text) = Opening(p) /\ Remains(Tail(Text), p, 0)
  BY <1>1, <1>3, <1>4, RemainsFirst
<1> HIDE DEF S, d, p
<1>6. /\ Len(Outer) = d /\ \A i \in 1..d : Outer[i] = frames[i]
      /\ Len(Rest) = d + 1 /\ Rest[d + 1] = Tail(Text) /\ \A i \in 1..d : Rest[i] = frames[i]
  <2>1. (d + 1) - 1 = d
    BY <1>1
  <2>2. /\ Len(Outer) = Depth - 1 /\ \A i \in 1..(Depth - 1) : Outer[i] = frames[i]
    BY <1>1, <1>4, TextShape
  <2>3. /\ Len(Rest) = Depth /\ Rest[Depth] = Tail(Text) /\ \A i \in 1..(Depth - 1) : Rest[i] = frames[i]
    BY <1>1, <1>4, <1>5, RestShape
  <2>4. QED
    BY <1>4, <2>1, <2>2, <2>3
<1>7. Opening(p) \in Instr /\ Opening(p).op = (IF p = Entry THEN "root" ELSE "guard") /\ Opening(p).path = p
  BY <1>3, DoIsInstr DEF Opening
<1>8. CASE p \notin m.seen /\ frames' = Rest
  <2>1. Enter(m, n)
    BY <1>3, <1>8, NextIs DEF p
  <2>2. [path |-> p, done |-> 0] \in Spot
    BY <1>3 DEF Spot
  <2>3. /\ n.call = NoPath /\ n.seen = m.seen \cup {p} /\ n.ran = m.ran
        /\ n.stack = Append(m.stack, [path |-> p, done |-> 0])
    BY <2>1 DEF Enter, p
  <2>4. /\ Len(n.stack) = d + 1 /\ n.stack[d + 1].path = p /\ n.stack[d + 1].done = 0
        /\ \A i \in 1..d : n.stack[i] = m.stack[i]
    BY <1>1, <2>2, <2>3, AppendProperties DEF d
  <2>5. \A i \in 1..(d + 1) : Remains(frames'[i], n.stack[i].path, n.stack[i].done)
    <3>1. \A i \in 1..(d + 1) : i = d + 1 \/ i \in 1..d
      BY <1>1
    <3>2. QED
      BY <1>2, <1>5, <1>6, <1>8, <2>4, <3>1
  <2>6. FilesOf(n)'
    BY <1>1, <1>6, <1>8, <2>3, <2>4, <2>5, SameTexts DEF FilesOf
  <2>7. CallOf(n)'
    BY <1>3, <2>3, PathAssumption DEF CallOf
  <2>8. CASE p = Entry
    <3>1. SetRoot
      BY <1>5, <1>7, <2>8, StepByOp
    <3>2. trace' = Append(trace, Opening(p)) /\ guards' = guards
      BY <1>5, <3>1 DEF SetRoot
    <3>3. SameBodies(Bodies, n.ran)'
      BY <1>2, <1>7, <2>3, <2>8, <3>2, BodiesGrow DEF SameBodies
    <3>4. GuardsOf(n.seen)'
      BY <1>1, <1>2, <2>3, <2>8, <3>2, SameTexts DEF GuardsOf
    <3>5. QED
      BY <2>6, <2>7, <3>3, <3>4 DEF Meets
  <2>9. CASE p # Entry
    <3>1. guards' = guards \cup {<<"lib", PrefixOf[p]>>} /\ trace' = trace
      <4>1. Guard(Opening(p)) = <<"lib", PrefixOf[p]>>
        BY <1>7, <2>9 DEF Guard
      <4>2. GuardPasses \/ GuardReturns
        BY <1>5, <1>7, <2>9, StepByOp
      <4>3. GuardReturns => FALSE
        BY <1>2, <1>3, <1>5, <1>8, <2>9, <4>1 DEF GuardReturns, GuardsOf
      <4>4. QED
        BY <1>5, <4>1, <4>2, <4>3 DEF GuardPasses
    <3>2. SameBodies(Bodies, n.ran)'
      BY <1>2, <2>3, <3>1, BodiesStay DEF SameBodies
    <3>3. GuardsOf(n.seen)'
      <4>1. ASSUME NEW q \in ModuleSet \ {Entry}
            PROVE  <<"lib", PrefixOf[q]>> \in guards' <=> q \in n.seen
        <5>1. <<"lib", PrefixOf[q]>> = <<"lib", PrefixOf[p]>> <=> q = p
          BY <1>3, <2>9 DEF GuardsApart
        <5>2. QED
          BY <1>2, <2>3, <3>1, <5>1 DEF GuardsOf
      <4>2. QED
        BY <1>1, <4>1, SameTexts DEF GuardsOf
    <3>4. QED
      BY <2>6, <2>7, <3>2, <3>3 DEF Meets
  <2>10. QED
    BY <2>8, <2>9
<1>9. CASE p \in m.seen /\ frames' = Outer
  <2>1. Return(m, n)
    BY <1>3, <1>9, NextIs DEF p
  <2>2. n.call = NoPath /\ n.seen = m.seen /\ n.ran = m.ran /\ n.stack = m.stack
    BY <2>1 DEF Return, Moment
  <2>3. guards' = guards /\ trace' = trace
    <3>1. p # Entry
      BY <1>2, <1>9 DEF CallOf, p
    <3>2. GuardReturns \/ GuardPasses
      BY <1>5, <1>7, <3>1, StepByOp
    <3>3. Guard(Opening(p)) = <<"lib", PrefixOf[p]>>
      BY <1>7, <3>1 DEF Guard
    <3>4. GuardPasses => FALSE
      BY <1>2, <1>3, <1>5, <1>9, <3>1, <3>3 DEF GuardPasses, GuardsOf
    <3>5. QED
      BY <3>2, <3>4 DEF GuardReturns
  <2>4. FilesOf(n)'
    BY <1>1, <1>2, <1>6, <1>9, <2>2, SameTexts DEF FilesOf, d
  <2>5. CallOf(n)'
    BY <1>3, <1>9, <2>2, PathAssumption DEF CallOf
  <2>6. SameBodies(Bodies, n.ran)' /\ GuardsOf(n.seen)'
    BY <1>1, <1>2, <2>2, <2>3, BodiesStay, SameTexts DEF SameBodies, GuardsOf
  <2>7. QED
    BY <2>4, <2>5, <2>6 DEF Meets
<1>10. (p \notin m.seen /\ frames' = Rest) \/ (p \in m.seen /\ frames' = Outer)
  <2>1. CASE p = Entry
    <3>1. SetRoot
      BY <1>5, <1>7, <2>1, StepByOp
    <3>2. QED
      BY <1>2, <2>1, <3>1 DEF SetRoot, CallOf, p
  <2>2. CASE p # Entry
    <3>1. Guard(Opening(p)) = <<"lib", PrefixOf[p]>>
      BY <1>7, <2>2 DEF Guard
    <3>2. GuardReturns \/ GuardPasses
      BY <1>5, <1>7, <2>2, StepByOp
    <3>3. <<"lib", PrefixOf[p]>> \in guards <=> p \in m.seen
      BY <1>2, <1>3, <2>2 DEF GuardsOf
    <3>4. QED
      BY <1>5, <3>1, <3>2, <3>3 DEF GuardReturns, GuardPasses
  <2>3. QED
    BY <2>1, <2>2
<1>11. QED
  BY <1>8, <1>9, <1>10

\* The innermost file being sourced goes past an import, or runs its own code.
LEMMA MeetsVisits ==
  ASSUME CompilerInv, RunInv, ShStep, mode = "split", GuardsApart,
         NEW m \in Moment, Meets(m), Behind(m), m.call = NoPath, Len(frames) = Len(m.stack),
         NEW n \in Moment, Onward(m, n)
  PROVE  Meets(n)'
<1> DEFINE d == Len(m.stack)
           S == ScriptInstr
           p == Innermost(m).path
           k == Innermost(m).done
           N == Len(Sourced(p))
<1>1. /\ frames # << >> /\ UNCHANGED buildVars /\ stage = "built"
      /\ m.stack \in Seq(Spot) /\ m.ran \in Seq(Path) /\ LoadTypeOK /\ frames \in Seq(Seq(S))
  BY ShStepInside DEF Moment, CompilerInv, RunInv
<1>2. /\ \A i \in 1..d : Remains(frames[i], m.stack[i].path, m.stack[i].done)
      /\ SameBodies(Bodies, m.ran) /\ GuardsOf(m.seen) /\ CallOf(m)
  BY DEF Meets, FilesOf
<1>3. d \in Nat \ {0} /\ Depth = d
  BY <1>1, EmptySeq DEF Depth
<1>4. Innermost(m) = m.stack[d] /\ Innermost(m) \in Spot /\ p \in Path /\ k \in Nat /\ p \in visited
  <2>1. Innermost(m) = m.stack[d] /\ d \in 1..d
    BY <1>3 DEF Innermost
  <2>2. Innermost(m) \in Spot
    BY <1>1, <2>1
  <2>3. Innermost(m).path \in visited
    BY <2>1 DEF Behind
  <2>4. QED
    BY <2>1, <2>2, <2>3 DEF Spot
<1>5. Remains(Text, p, k) /\ Text = frames[d] /\ Text \in Seq(S)
  <2>1. Text = frames[d] /\ Text \in Seq(S)
    BY <1>1, <1>3, TextShape
  <2>2. Remains(frames[d], m.stack[d].path, m.stack[d].done)
    BY <1>2, <1>3
  <2>3. QED
    BY <1>4, <2>1, <2>2
<1>6. N \in Nat /\ k <= N
  BY <1>1, <1>4, <1>5, SourcedSteps DEF Remains
<1>7. Text # << >> => /\ Len(Rest) = d /\ Rest[d] = Tail(Text)
                      /\ \A i \in 1..(d - 1) : Rest[i] = frames[i]
                      /\ \A x \in Seq(S) : /\ Len(Append(Rest, x)) = d + 1 /\ Append(Rest, x)[d + 1] = x
                                           /\ Append(Rest, x)[d] = Tail(Text)
                                           /\ \A i \in 1..(d - 1) : Append(Rest, x)[i] = frames[i]
  BY <1>1, <1>3, RestShape, SourceShape
<1>8. m.seen # {}
  BY <1>2, PathAssumption DEF CallOf
<1> HIDE DEF S, d, p, k, N
<1>9. CASE k < N
  <2> DEFINE imp == Sourced(p)[k + 1]
  <2>1. Pass(m, n)
    BY <1>9, NextIs DEF p, k, N
  <2>2. imp \in Import /\ k + 1 \in 1..N
    <3>1. k + 1 \in 1..N
      BY <1>4, <1>6, <1>9
    <3>2. QED
      BY <1>1, <1>4, <3>1, SourcedIs DEF N
  <2>3. /\ Len(n.stack) = d /\ n.seen = m.seen /\ n.ran = m.ran
        /\ n.stack[d].path = p /\ n.stack[d].done = k + 1
        /\ \A i \in 1..(d - 1) : n.stack[i] = m.stack[i]
        /\ n.call = IF IsShell(imp) THEN NoPath ELSE imp.path
    <3>1. Len(n.stack) = d /\ Innermost(n) = [path |-> p, done |-> k + 1]
      BY <2>1 DEF Pass, d, p, k
    <3>2. n.stack[d] = [path |-> p, done |-> k + 1]
      BY <3>1 DEF Innermost
    <3>3. /\ n.seen = m.seen /\ n.ran = m.ran /\ \A i \in 1..(d - 1) : n.stack[i] = m.stack[i]
          /\ n.call = IF IsShell(imp) THEN NoPath ELSE imp.path
      BY <2>1 DEF Pass, d, p, k
    <3>4. QED
      BY <3>1, <3>2, <3>3
  <2>4. Text # << >> /\ Head(Text) = ImportInstr(imp) /\ Remains(Tail(Text), p, k + 1)
    BY <1>1, <1>4, <1>5, <1>9, RemainsNext DEF N
  <2> HIDE DEF imp
  <2>5. /\ ImportInstr(imp) \in Instr /\ ImportInstr(imp).path = imp.path
        /\ ImportInstr(imp).op = IF IsShell(imp) THEN "shell" ELSE "source"
    BY <2>2, ImportInstrIs
  <2>6. ASSUME NEW f, f[d] = Tail(Text), \A i \in 1..(d - 1) : f[i] = frames[i]
        PROVE  \A i \in 1..d : Remains(f[i], n.stack[i].path, n.stack[i].done)
    <3>1. \A i \in 1..d : i = d \/ i \in 1..(d - 1)
      BY <1>3
    <3>2. \A i \in 1..(d - 1) : i \in 1..d
      BY <1>3
    <3>3. QED
      BY <1>2, <2>3, <2>4, <2>6, <3>1, <3>2
  <2>7. CASE IsShell(imp)
    <3>1. SourceShell
      BY <2>4, <2>5, <2>7, StepByOp
    <3>2. Operand = imp.path /\ imp.path \in Path /\ Guard(Head(Text)) = <<"sh", imp.path>>
      BY <2>2, <2>4, <2>5, <2>7 DEF Operand, Guard, Import
    <3>3. <<Do("raw", imp.path)>> \in Seq(S)
      <4>1. Do("raw", imp.path) \in S
        BY <3>2, DoIsInstr DEF S, ScriptInstr
      <4>2. QED
        BY <4>1
    <3>4. n.call = NoPath
      BY <2>3, <2>7
    <3>5. /\ \A i \in 1..d : Remains(frames'[i], n.stack[i].path, n.stack[i].done)
          /\ Len(frames') = d \/ (Len(frames') = d + 1 /\ IsSpent(frames'[d + 1]))
      <4>1. CASE frames' = Rest
        <5>1. \A i \in 1..d : Remains(frames'[i], n.stack[i].path, n.stack[i].done)
          BY <1>7, <2>4, <2>6, <4>1
        <5>2. QED
          BY <1>7, <2>4, <4>1, <5>1
      <4>2. CASE frames' # Rest
        <5>1. frames' = Append(Rest, <<Do("raw", imp.path)>>)
          BY <3>1, <3>2, <4>2 DEF SourceShell
        <5>2. /\ Len(frames') = d + 1 /\ frames'[d + 1] = <<Do("raw", imp.path)>>
              /\ frames'[d] = Tail(Text) /\ \A i \in 1..(d - 1) : frames'[i] = frames[i]
          BY <1>7, <2>4, <3>3, <5>1
        <5>3. QED
          BY <2>6, <3>2, <5>2 DEF IsSpent
      <4>3. QED
        BY <4>1, <4>2
    <3>6. FilesOf(n)'
      BY <1>1, <1>3, <2>3, <3>4, <3>5, SameTexts DEF FilesOf
    <3>7. guards' = guards \cup {<<"sh", imp.path>>} /\ trace' = trace
      BY <3>1, <3>2 DEF SourceShell
    <3>8. GuardsOf(n.seen)'
      <4>1. \A q : <<"lib", PrefixOf[q]>> # <<"sh", imp.path>>
        OBVIOUS
      <4>2. QED
        BY <1>1, <1>2, <2>3, <3>7, <4>1, SameTexts DEF GuardsOf
    <3>9. SameBodies(Bodies, n.ran)'
      BY <1>2, <2>3, <3>7, BodiesStay DEF SameBodies
    <3>10. CallOf(n)'
      BY <1>8, <2>3, <3>4, PathAssumption DEF CallOf
    <3>11. QED
      BY <3>6, <3>8, <3>9, <3>10 DEF Meets
  <2>8. CASE ~IsShell(imp)
    <3>1. SourceModule
      BY <2>4, <2>5, <2>8, StepByOp
    <3>2. imp.path \in BeshtImports(tree, p) /\ imp.path \in ModuleSet
      BY <1>1, <1>4, <2>2, <2>8, SourcedVisited DEF imp, N
    <3>3. Operand = imp.path
      BY <2>4, <2>5 DEF Operand
    <3>4. frames' = Append(Rest, TextOf(imp.path)) /\ TextOf(imp.path) \in Seq(S)
      BY <1>1, <3>1, <3>2, <3>3, FileTextIs DEF SourceModule, S
    <3>5. /\ Len(frames') = d + 1 /\ frames'[d + 1] = TextOf(imp.path)
          /\ frames'[d] = Tail(Text) /\ \A i \in 1..(d - 1) : frames'[i] = frames[i]
      BY <1>7, <2>4, <3>4
    <3>6. n.call = imp.path /\ imp.path # NoPath /\ imp.path # Entry
      <4>1. imp.path # Entry
        BY <1>4, <3>2 DEF GuardsApart
      <4>2. imp.path # NoPath
        BY <2>2, PathAssumption DEF Import
      <4>3. QED
        BY <2>3, <2>8, <4>1, <4>2
    <3>7. \A i \in 1..d : Remains(frames'[i], n.stack[i].path, n.stack[i].done)
      BY <2>6, <3>5
    <3>8. FilesOf(n)'
      BY <1>1, <1>3, <2>3, <3>5, <3>6, <3>7, SameTexts DEF FilesOf
    <3>9. guards' = guards /\ trace' = trace
      BY <3>1 DEF SourceModule
    <3>10. SameBodies(Bodies, n.ran)' /\ GuardsOf(n.seen)'
      BY <1>1, <1>2, <2>3, <3>9, BodiesStay, SameTexts DEF SameBodies, GuardsOf
    <3>11. CallOf(n)'
      BY <1>1, <1>8, <2>3, <3>2, <3>6, SameTexts DEF CallOf
    <3>12. QED
      BY <3>8, <3>10, <3>11 DEF Meets
  <2>9. QED
    BY <2>7, <2>8
<1>10. CASE k = N
  <2>1. Finish(m, n)
    BY <1>10, NextIs DEF p, k, N
  <2>2. /\ n.call = NoPath /\ n.seen = m.seen /\ n.ran = Append(m.ran, p)
        /\ n.stack = SubSeq(m.stack, 1, d - 1)
    BY <2>1 DEF Finish, p, d
  <2>3. Len(n.stack) = d - 1 /\ \A i \in 1..(d - 1) : n.stack[i] = m.stack[i]
    BY <1>1, <1>3, <2>2, EmptySeq, FrontShape DEF d
  <2>4. Text # << >> /\ Head(Text) = Do("body", p) /\ Tail(Text) = << >>
    BY <1>1, <1>4, <1>5, <1>10, RemainsLast DEF N
  <2>5. Do("body", p) \in Instr /\ Do("body", p).op = "body"
    BY <1>4, DoIsInstr
  <2>6. RunBody
    BY <2>4, <2>5, StepByOp
  <2>7. frames' = Rest /\ trace' = Append(trace, Do("body", p)) /\ guards' = guards
    BY <2>4, <2>6 DEF RunBody
  <2>8. Len(frames') = d /\ frames'[d] = << >> /\ \A i \in 1..(d - 1) : frames'[i] = frames[i]
    BY <1>7, <2>4, <2>7
  <2>9. FilesOf(n)'
    <3>1. \A i \in 1..(d - 1) : i \in 1..d
      BY <1>3
    <3>2. \A i \in 1..(d - 1) : Remains(frames'[i], n.stack[i].path, n.stack[i].done)
      BY <1>2, <2>3, <2>8, <3>1
    <3>3. Len(frames') = Len(n.stack) + 1 /\ IsSpent(frames'[Len(frames')])
      BY <1>3, <2>3, <2>8 DEF IsSpent
    <3>4. Len(n.stack) <= Len(frames')
      BY <1>3, <2>3, <2>8
    <3>5. QED
      BY <1>1, <2>2, <2>3, <3>2, <3>3, <3>4, SameTexts DEF FilesOf, IsSpent
  <2>10. SameBodies(Bodies, n.ran)'
    <3>1. Bodies' = Append(Bodies, Do("body", p)) /\ n.ran = Append(m.ran, p)
      BY <2>2, <2>5, <2>7, BodiesGrow
    <3>2. SameBodies(Append(Bodies, Do("body", p)), Append(m.ran, p))
      BY <1>1, <1>2, <1>4, <2>5, BodiesType, SameBodiesGrow
    <3>3. QED
      BY <3>1, <3>2 DEF SameBodies
  <2>11. GuardsOf(n.seen)'
    BY <1>1, <1>2, <2>2, <2>7, SameTexts DEF GuardsOf
  <2>12. CallOf(n)'
    BY <1>8, <2>2, PathAssumption DEF CallOf
  <2>13. QED
    BY <2>9, <2>10, <2>11, <2>12 DEF Meets
<1>11. QED
  BY <1>4, <1>6, <1>9, <1>10

-----------------------------------------------------------------------------
(* A split program follows the log of its load. *)

\* The log h is that of a load that has ended.
LogOf(h) ==
  /\ IsLog(h)
  /\ h[Len(h)].call = NoPath /\ h[Len(h)].stack = << >>
  /\ \A i \in 1..Len(h) : Behind(h[i])

SplitOK ==
  started /\ mode = "split" /\ Followed =>
    \E h : LogOf(h) /\ \E t \in 1..Len(h) : Meets(h[t])

LEMMA LogType ==
  ASSUME NEW h, IsLog(h)
  PROVE  Len(h) \in Nat \ {0} /\ \A i \in 1..Len(h) : h[i] \in Moment
  BY EmptySeq DEF IsLog

LEMMA LogSame ==
  ASSUME LoadTypeOK, LoadTypeOK', UNCHANGED buildVars, NEW h, LogOf(h)
  PROVE  LogOf(h)'
<1>1. /\ tree' = tree /\ visited' = visited /\ modules' = modules
      /\ visited \subseteq visited' /\ Len(modules) <= Len(modules')
      /\ \A i \in 1..Len(modules) : modules'[i] = modules[i]
  BY DEF buildVars, loadVars, LoadTypeOK
<1>2. IsLog(h)' /\ \A m \in Moment : Behind(m) => Behind(m)'
  BY <1>1, LogStays DEF LogOf
<1>3. QED
  BY <1>2, LogType DEF LogOf

LEMMA FollowedSame ==
  ASSUME UNCHANGED buildVars
  PROVE  Followed' <=> Followed
  BY DEF buildVars, loadVars, Followed, DeclsApart, GuardsApart, ModuleSet

LEMMA SplitStarts ==
  ASSUME CompilerInv, RunInv, StartScript, mode = "split", Followed
  PROVE  \E h : LogOf(h) /\ \E t \in 1..Len(h) : Meets(h[t])'
<1>1. stage = "built" /\ ~started /\ UNCHANGED buildVars /\ LoadTypeOK
  BY DEF StartScript, CompilerInv
<1>2. DeclsApart
  BY DEF Followed
<1>3. PICK h : IsLog(h) /\ Present(h[Len(h)]) /\ \A i \in 1..Len(h) : Behind(h[i])
  BY <1>2 DEF CompilerInv, TraversalInv, LogOK
<1>4. Len(h) \in Nat \ {0} /\ h[Len(h)] \in Moment
  <2>1. Len(h) \in Nat \ {0} /\ \A i \in 1..Len(h) : h[i] \in Moment
    BY <1>3, LogType
  <2>2. QED
    BY <2>1
<1>5. h[Len(h)].call = NoPath /\ h[Len(h)].stack = << >>
  <2>1. stack = << >> /\ call = NoPath
    BY <1>1, Finally
  <2>2. h[Len(h)].stack \in Seq(Spot) /\ Len(h[Len(h)].stack) <= 0 /\ Len(h[Len(h)].stack) \in Nat
    BY <1>3, <1>4, <2>1 DEF Present, Moment
  <2>3. QED
    BY <1>3, <2>1, <2>2, EmptySeq DEF Present
<1>6. h[1] = Start /\ 1 \in 1..Len(h)
  BY <1>3, <1>4 DEF IsLog
<1>7. Start.call = Entry /\ Start.stack = << >> /\ Start.seen = {} /\ Start.ran = << >>
  BY DEF Start
<1>8. /\ trace' = << >> /\ guards' = {} /\ frames' = <<EntryText>>
  BY <1>1 DEF StartScript, RunInv
<1>9. Bodies' = << >>
  <2>1. Bodies' = Kept(trace', BodyInstr)
    BY DEF Bodies, BodyInstr
  <2>2. QED
    BY <1>8, <2>1, KeptEmpty
<1>10. Entry \in ModuleSet
  BY <1>1, <1>2, Finally DEF DeclsApart
<1>11. SameBodies(Bodies, Start.ran)' /\ GuardsOf(Start.seen)' /\ CallOf(Start)'
  <2>1. SameBodies(Bodies, Start.ran)'
    BY <1>7, <1>9 DEF SameBodies
  <2>2. GuardsOf(Start.seen)'
    BY <1>7, <1>8 DEF GuardsOf
  <2>3. CallOf(Start)'
    BY <1>1, <1>7, <1>8, <1>10, SameTexts DEF CallOf
  <2>4. QED
    BY <2>1, <2>2, <2>3
<1>12. FilesOf(Start)'
  <2>1. Len(frames') = 1 /\ frames'[1] = TextOf(Entry)
    BY <1>8 DEF TextOf
  <2>2. Entry # NoPath
    BY PathAssumption
  <2>3. QED
    BY <1>1, <1>7, <2>1, <2>2, SameTexts DEF FilesOf
<1>13. Meets(Start)'
  BY <1>11, <1>12 DEF Meets
<1>14. QED
  BY <1>3, <1>5, <1>6, <1>13 DEF LogOf

LEMMA SplitSteps ==
  ASSUME CompilerInv, RunInv, ShStep, mode = "split", Followed,
         NEW h, LogOf(h), NEW t \in 1..Len(h), Meets(h[t])
  PROVE  \E u \in 1..Len(h) : Meets(h[u])'
<1>1. Len(h) \in Nat \ {0} /\ \A i \in 1..Len(h) : h[i] \in Moment
  BY LogType DEF LogOf
<1>2. frames # << >> /\ Len(frames) \in Nat \ {0} /\ stage = "built"
  BY ShStepInside, EmptySeq DEF RunInv
<1>3. CASE h[t].call = NoPath /\ Len(frames) # Len(h[t].stack)
  BY <1>1, <1>3, MeetsStays
<1>4. CASE ~(h[t].call = NoPath /\ Len(frames) # Len(h[t].stack))
  <2>1. t # Len(h)
    <3> SUFFICES ASSUME t = Len(h) PROVE FALSE
      OBVIOUS
    <3>1. h[t].call = NoPath /\ h[t].stack = << >>
      BY DEF LogOf
    <3>2. QED
      BY <1>2, <1>4, <3>1
  <2>2. t \in 1..(Len(h) - 1) /\ t + 1 \in 1..Len(h)
    BY <1>1, <2>1
  <2>3. Onward(h[t], h[t + 1])
    BY <2>2 DEF LogOf, IsLog
  <2>4. h[t] \in Moment /\ h[t + 1] \in Moment /\ Behind(h[t])
    BY <1>1, <2>2 DEF LogOf
  <2>5. GuardsApart
    BY DEF Followed
  <2>6. Meets(h[t + 1])'
    <3>1. CASE h[t].call # NoPath
      BY <2>3, <2>4, <2>5, <3>1, MeetsCalls
    <3>2. CASE h[t].call = NoPath
      BY <1>4, <2>3, <2>4, <2>5, <3>2, MeetsVisits
    <3>3. QED
      BY <3>1, <3>2
  <2>7. QED
    BY <2>2, <2>6
<1>5. QED
  BY <1>3, <1>4

LEMMA SplitKept ==
  ASSUME CompilerInv, CompilerInv', RunInv, SplitOK, [ProgramNext]_programVars
  PROVE  SplitOK'
<1>1. LoadTypeOK /\ LoadTypeOK'
  BY DEF CompilerInv
<1>2. CASE StartScript
  <2>1. UNCHANGED buildVars
    BY <1>2 DEF StartScript
  <2>2. SUFFICES ASSUME mode = "split", Followed
                 PROVE  \E h : LogOf(h)' /\ \E t \in 1..Len(h) : Meets(h[t])'
    BY <2>1, FollowedSame, SameTexts DEF SplitOK
  <2>3. QED
    BY <1>1, <1>2, <2>1, <2>2, SplitStarts, LogSame
<1>3. CASE ShStep
  <2>1. UNCHANGED buildVars /\ started
    BY <1>3, ShStepInside
  <2>2. SUFFICES ASSUME mode = "split", Followed
                 PROVE  \E h : LogOf(h)' /\ \E t \in 1..Len(h) : Meets(h[t])'
    BY <2>1, FollowedSame, SameTexts DEF SplitOK
  <2>3. PICK h : LogOf(h) /\ \E t \in 1..Len(h) : Meets(h[t])
    BY <2>1, <2>2 DEF SplitOK
  <2>4. LogOf(h)' /\ \E u \in 1..Len(h) : Meets(h[u])'
    BY <1>1, <1>3, <2>1, <2>2, <2>3, SplitSteps, LogSame
  <2>5. QED
    BY <2>4
<1>4. CASE CompileStep /\ ~started
  BY <1>4 DEF CompileStep, shVars, SplitOK
<1>5. CASE (CompileStep /\ started) \/ UNCHANGED programVars
  <2>1. UNCHANGED programVars
    BY <1>5, BuiltStays DEF CompileStep, RunInv, programVars
  <2>2. UNCHANGED buildVars /\ UNCHANGED <<started, frames, guards, trace>>
    BY <2>1 DEF programVars, shVars
  <2>3. ASSUME NEW m, Meets(m) PROVE Meets(m)'
    <3>1. SameBodies(Bodies, m.ran)'
      BY <2>2, <2>3, BodiesStay DEF Meets, SameBodies
    <3>2. GuardsOf(m.seen)' /\ CallOf(m)'
      BY <2>2, <2>3, SameTexts DEF Meets, GuardsOf, CallOf
    <3>3. FilesOf(m)'
      BY <2>2, <2>3, SameTexts DEF Meets, FilesOf, IsSpent
    <3>4. QED
      BY <3>1, <3>2, <3>3 DEF Meets
  <2>4. SUFFICES ASSUME started, mode = "split", Followed
                 PROVE  \E h : LogOf(h)' /\ \E t \in 1..Len(h) : Meets(h[t])'
    BY <2>2, FollowedSame, SameTexts DEF SplitOK
  <2>5. PICK h : LogOf(h) /\ \E t \in 1..Len(h) : Meets(h[t])
    BY <2>4 DEF SplitOK
  <2>6. LogOf(h)' /\ \E t \in 1..Len(h) : Meets(h[t])'
    BY <1>1, <2>2, <2>3, <2>5, LogSame
  <2>7. QED
    BY <2>6
<1>6. QED
  BY <1>2, <1>3, <1>4, <1>5 DEF ProgramNext

-----------------------------------------------------------------------------
(* A bundle is run from its beginning to its end. *)

\* sh is past the first j instructions of the bundle.
BundleAt(j) ==
  /\ Bodies = KeptAfter(BundleText, BodyInstr)[j]
  /\ frames # << >> =>
       /\ Len(frames[1]) = Len(BundleText) - j
       /\ \A i \in 1..(Len(BundleText) - j) : frames[1][i] = BundleText[j + i]
       /\ Len(frames) = 1 \/ (Len(frames) = 2 /\ IsSpent(frames[2]))

BundleOK == started /\ mode = "bundle" => \E j \in 0..Len(BundleText) : BundleAt(j)

LEMMA BundleSame ==
  ASSUME UNCHANGED buildVars
  PROVE  BundleText' = BundleText
<1>1. tree' = tree /\ modules' = modules
  BY DEF buildVars, loadVars
<1>2. \A p : ShellText(p)' = ShellText(p) /\ (EmittedInBundle(p)' <=> EmittedInBundle(p))
  BY <1>1 DEF ShellText, EmittedInBundle
<1>3. BundleAfter' = BundleAfter
  BY <1>1, <1>2 DEF BundleAfter
<1>4. QED
  BY <1>1, <1>3 DEF BundleText

LEMMA BundleType ==
  ASSUME CompilerInv, mode = "bundle"
  PROVE  /\ BundleText \in Seq(BundleInstr) /\ Len(BundleText) \in Nat
         /\ KeptAfter(BundleText, BodyInstr)[0] = << >>
         /\ \A j \in 1..Len(BundleText) :
              /\ BundleText[j] \in BundleInstr
              /\ KeptAfter(BundleText, BodyInstr)[j] =
                   IF BundleText[j].op = "body"
                   THEN Append(KeptAfter(BundleText, BodyInstr)[j - 1], BundleText[j])
                   ELSE KeptAfter(BundleText, BodyInstr)[j - 1]
<1> DEFINE b == BundleText
<1>1. b \in Seq(BundleInstr)
  BY BundleBodies DEF CompilerInv
<1> HIDE DEF b
<1>2. Len(b) \in Nat /\ \A j \in 1..Len(b) : b[j] \in BundleInstr
  BY <1>1, ElementOfSeq
<1>3. /\ KeptAfter(b, BodyInstr)[0] = << >>
      /\ \A j \in 1..Len(b) :
           KeptAfter(b, BodyInstr)[j] = IF b[j] \in BodyInstr THEN Append(KeptAfter(b, BodyInstr)[j - 1], b[j])
                                        ELSE KeptAfter(b, BodyInstr)[j - 1]
  BY <1>1, KeptSteps
<1>4. \A j \in 1..Len(b) : b[j] \in BodyInstr <=> b[j].op = "body"
  BY <1>2, BodyInstrIs DEF BundleInstr
<1>5. QED
  BY <1>1, <1>2, <1>3, <1>4 DEF b

LEMMA BundleStarts ==
  ASSUME CompilerInv, RunInv, StartScript, mode = "bundle"
  PROVE  BundleAt(0)'
<1>1. UNCHANGED buildVars /\ trace' = << >> /\ frames' = <<BundleText>>
  BY DEF StartScript, RunInv
<1>2. BundleText' = BundleText
  BY <1>1, BundleSame
<1>3. Bodies' = << >>
  <2>1. Bodies' = Kept(trace', BodyInstr)
    BY DEF Bodies, BodyInstr
  <2>2. QED
    BY <1>1, <2>1, KeptEmpty
<1>4. KeptAfter(BundleText, BodyInstr)[0] = << >> /\ Len(BundleText) \in Nat
  BY BundleType
<1>5. Len(frames') = 1 /\ frames'[1] = BundleText
  BY <1>1
<1>6. Len(BundleText) - 0 = Len(BundleText) /\ \A i \in 1..Len(BundleText) : 0 + i = i
  BY <1>4
<1>7. QED
  BY <1>2, <1>3, <1>4, <1>5, <1>6 DEF BundleAt

LEMMA BundleStep ==
  ASSUME CompilerInv, RunInv, ShStep, mode = "bundle", NEW j \in 0..Len(BundleText), BundleAt(j)
  PROVE  \E i \in 0..Len(BundleText) : BundleAt(i)'
<1> DEFINE b == BundleText
           N == Len(b)
           K == KeptAfter(b, BodyInstr)
           S == ScriptInstr
<1>1. /\ frames # << >> /\ UNCHANGED buildVars /\ frames \in Seq(Seq(S)) /\ N \in Nat
  BY ShStepInside, BundleType DEF RunInv
<1>2. /\ Bodies = K[j]
      /\ Len(frames[1]) = N - j
      /\ \A i \in 1..(N - j) : frames[1][i] = b[j + i]
      /\ Len(frames) = 1 \/ (Len(frames) = 2 /\ IsSpent(frames[2]))
  BY <1>1 DEF BundleAt
<1>3. \A i : BundleAt(i)' <=> /\ Bodies' = K[i]
                              /\ frames' # << >> =>
                                   /\ Len(frames'[1]) = N - i
                                   /\ \A l \in 1..(N - i) : frames'[1][l] = b[i + l]
                                   /\ Len(frames') = 1 \/ (Len(frames') = 2 /\ IsSpent(frames'[2]))
  BY <1>1, BundleSame DEF BundleAt, IsSpent
<1>4. \A i \in 1..N : /\ b[i] \in BundleInstr
                      /\ K[i] = IF b[i].op = "body" THEN Append(K[i - 1], b[i]) ELSE K[i - 1]
  BY BundleType
<1> HIDE DEF b, N, K, S
<1>5. Depth = Len(frames) /\ Text = frames[Depth] /\ Text \in Seq(S)
  BY <1>1, TextShape DEF Depth
<1>6. CASE Len(frames) = 2
  <2>1. IsSpent(Text) /\ Depth = 2
    BY <1>2, <1>5, <1>6
  <2>2. CASE Text = << >>
    <3>1. frames' = Outer /\ trace' = trace
      BY <2>2, StepByOp DEF EndOfFile
    <3>2. Len(frames') = 1 /\ frames'[1] = frames[1]
      BY <1>1, <2>1, <3>1, TextShape
    <3>3. Bodies' = Bodies
      BY <3>1, BodiesStay
    <3>4. BundleAt(j)'
      BY <1>2, <1>3, <3>2, <3>3
    <3>5. QED
      BY <3>4
  <2>3. CASE Text # << >>
    <3>1. PICK s \in Path : Text = <<Do("raw", s)>>
      BY <2>1, <2>3 DEF IsSpent
    <3>2. Head(Text) = Do("raw", s) /\ Head(Text).op = "raw" /\ Head(Text) \in Instr /\ Tail(Text) = << >>
      BY <3>1, DoIsInstr
    <3>3. frames' = Rest /\ trace' = Append(trace, Head(Text))
      BY <2>3, <3>2, StepByOp DEF RunShellFile
    <3>4. /\ Len(Rest) = Depth /\ Rest[Depth] = Tail(Text)
          /\ \A i \in 1..(Depth - 1) : Rest[i] = frames[i]
      BY <1>1, <2>3, RestShape
    <3>5. Len(frames') = 2 /\ frames'[2] = << >> /\ frames'[1] = frames[1]
      BY <2>1, <3>2, <3>3, <3>4
    <3>6. Bodies' = Bodies
      BY <3>2, <3>3, BodiesGrow
    <3>7. BundleAt(j)'
      BY <1>2, <1>3, <3>5, <3>6 DEF IsSpent
    <3>8. QED
      BY <3>7
  <2>4. QED
    BY <2>2, <2>3
<1>7. CASE Len(frames) = 1 /\ Text = << >>
  <2>1. frames' = Outer /\ trace' = trace
    BY <1>7, StepByOp DEF EndOfFile
  <2>2. frames' = << >>
    <3>1. Outer \in Seq(Seq(S)) /\ Len(Outer) = 0
      BY <1>1, <1>5, <1>7, TextShape
    <3>2. QED
      BY <2>1, <3>1, EmptySeq
  <2>3. BundleAt(j)'
    BY <1>2, <1>3, <2>1, <2>2, BodiesStay
  <2>4. QED
    BY <2>3
<1>8. CASE Len(frames) = 1 /\ Text # << >>
  <2>1. Text = frames[1] /\ Depth = 1
    BY <1>5, <1>8
  <2>2. /\ Head(Text) = Text[1] /\ Len(Text) > 0
        /\ Len(Tail(Text)) = Len(Text) - 1
        /\ \A i \in 1..(Len(Text) - 1) : Tail(Text)[i] = Text[i + 1]
        /\ Len(Rest) = 1 /\ Rest[1] = Tail(Text)
        /\ \A x \in Seq(S) : Len(Append(Rest, x)) = 2 /\ Append(Rest, x)[2] = x
                             /\ Append(Rest, x)[1] = Tail(Text)
    BY <1>1, <1>8, <2>1, RestShape, SourceShape
  <2>3. j + 1 \in 1..N /\ Len(Text) = N - j /\ N - j > 0
    BY <1>1, <1>2, <2>1, <2>2 DEF N, b
  <2>4. Head(Text) = b[j + 1] /\ b[j + 1] \in BundleInstr /\ (j + 1) - 1 = j
    BY <1>1, <1>2, <1>4, <2>1, <2>2, <2>3
  <2>5. Len(Tail(Text)) = N - (j + 1) /\ \A i \in 1..(N - (j + 1)) : Tail(Text)[i] = b[(j + 1) + i]
    <3>1. Len(Tail(Text)) = N - (j + 1)
      BY <1>1, <2>2, <2>3
    <3>2. ASSUME NEW i \in 1..(N - (j + 1)) PROVE Tail(Text)[i] = b[(j + 1) + i]
      <4>1. i \in 1..((N - j) - 1) /\ i + 1 \in 1..(N - j) /\ j + (i + 1) = (j + 1) + i
        BY <1>1
      <4>2. QED
        BY <1>2, <2>1, <2>2, <2>3, <4>1
    <3>3. QED
      BY <3>1, <3>2
  <2>6. \/ Head(Text).op = "shell" /\ SourceShell
        \/ Head(Text).op = "body" /\ RunBody
    <3>1. Head(Text).op \in {"shell", "body"}
      BY <2>4 DEF BundleInstr
    <3>2. QED
      BY <1>8, <3>1, StepByOp
  <2>7. CASE Head(Text).op = "body" /\ RunBody
    <3>1. frames' = Rest /\ trace' = Append(trace, Head(Text))
      BY <2>7 DEF RunBody
    <3>2. Head(Text) \in Instr
      BY <2>4 DEF BundleInstr
    <3>3. Bodies' = K[j + 1]
      BY <1>2, <1>4, <2>3, <2>4, <2>7, <3>1, <3>2, BodiesGrow
    <3>4. BundleAt(j + 1)'
      BY <1>3, <2>2, <2>5, <3>1, <3>3
    <3>5. QED
      BY <2>3, <3>4 DEF N, b
  <2>8. CASE Head(Text).op = "shell" /\ SourceShell
    <3>1. K[j + 1] = K[j]
      BY <1>4, <2>3, <2>4, <2>8
    <3>2. Bodies' = K[j + 1]
      BY <1>2, <2>8, <3>1, BodiesStay DEF SourceShell
    <3>3. Operand \in Path /\ <<Do("raw", Operand)>> \in Seq(S)
      <4>1. Operand \in Path
        BY <2>4 DEF Operand, BundleInstr, Instr
      <4>2. Do("raw", Operand) \in S
        BY <4>1, DoIsInstr DEF S, ScriptInstr
      <4>3. QED
        BY <4>1, <4>2
    <3>4. /\ Len(frames') = 1 \/ (Len(frames') = 2 /\ IsSpent(frames'[2]))
          /\ frames'[1] = Tail(Text)
      <4>1. CASE frames' = Rest
        BY <2>2, <4>1
      <4>2. CASE frames' # Rest
        <5>1. frames' = Append(Rest, <<Do("raw", Operand)>>)
          BY <2>8, <4>2 DEF SourceShell
        <5>2. QED
          BY <2>2, <3>3, <5>1 DEF IsSpent
      <4>3. QED
        BY <4>1, <4>2
    <3>5. BundleAt(j + 1)'
      BY <1>3, <2>5, <3>2, <3>4
    <3>6. QED
      BY <2>3, <3>5 DEF N, b
  <2>9. QED
    BY <2>6, <2>7, <2>8
<1>9. QED
  BY <1>2, <1>6, <1>7, <1>8

LEMMA BundleKept ==
  ASSUME CompilerInv, RunInv, BundleOK, [ProgramNext]_programVars
  PROVE  BundleOK'
<1>1. CASE StartScript
  <2>1. UNCHANGED buildVars
    BY <1>1 DEF StartScript
  <2>2. SUFFICES ASSUME mode = "bundle" PROVE \E j \in 0..Len(BundleText) : BundleAt(j)'
    BY <2>1, BundleSame, SameTexts DEF BundleOK
  <2>3. Len(BundleText) \in Nat
    BY <2>2, BundleType
  <2>4. QED
    BY <1>1, <2>2, <2>3, BundleStarts
<1>2. CASE ShStep
  <2>1. UNCHANGED buildVars /\ started
    BY <1>2, ShStepInside
  <2>2. SUFFICES ASSUME mode = "bundle" PROVE \E j \in 0..Len(BundleText) : BundleAt(j)'
    BY <2>1, BundleSame, SameTexts DEF BundleOK
  <2>3. QED
    BY <1>2, <2>1, <2>2, BundleStep DEF BundleOK
<1>3. CASE CompileStep /\ ~started
  BY <1>3 DEF CompileStep, shVars, BundleOK
<1>4. CASE (CompileStep /\ started) \/ UNCHANGED programVars
  <2>1. UNCHANGED programVars
    BY <1>4, BuiltStays DEF CompileStep, RunInv, programVars
  <2>2. UNCHANGED buildVars /\ UNCHANGED <<started, frames, trace>>
    BY <2>1 DEF programVars, shVars
  <2>3. BundleText' = BundleText /\ Bodies' = Bodies /\ mode' = mode
    BY <2>2, BundleSame, BodiesStay, SameTexts
  <2>4. QED
    BY <2>2, <2>3 DEF BundleOK, BundleAt, IsSpent
<1>5. QED
  BY <1>1, <1>2, <1>3, <1>4 DEF ProgramNext

-----------------------------------------------------------------------------
(* Bodies run in the order in which they were emitted. *)

OrderInv == CompilerInv /\ RunInv /\ SplitOK /\ BundleOK

LEMMA OrderInvHolds == ProgramSpec => []OrderInv
<1> DEFINE C == CompilerInv /\ RunInv
           O == SplitOK /\ BundleOK
<1>1. ProgramInit => O
  BY DEF ProgramInit, SplitOK, BundleOK
<1>2. C /\ C' /\ O /\ [ProgramNext]_programVars => O'
  BY SplitKept, BundleKept
<1>3. ProgramSpec => []C
  BY RunInvHolds
<1> HIDE DEF C, O
<1>4. ProgramSpec => []O
  BY <1>1, <1>2, <1>3, PTL DEF ProgramSpec
<1>5. C /\ O => OrderInv
  BY DEF C, O, OrderInv
<1>6. QED
  BY <1>3, <1>4, <1>5, PTL

\* The modules whose code is to run, in order.
Emitted == Kept(modules, CodeModules)

LEMMA EmittedType ==
  ASSUME LoadTypeOK
  PROVE  Emitted \in Seq(Path) /\ Len(Emitted) \in Nat
<1>1. modules \in Seq(Path) /\ Len(modules) \in Nat
  BY DEF LoadTypeOK
<1>2. KeptAfter(modules, CodeModules) \in [0..Len(modules) -> Seq(Path)]
  BY <1>1, KeptSteps
<1>3. Emitted = KeptAfter(modules, CodeModules)[Len(modules)]
  BY DEF Emitted, Kept
<1>4. QED
  BY <1>1, <1>2, <1>3

LEMMA RanPrefix ==
  ASSUME OrderInv, Followed
  PROVE  /\ Len(Bodies) <= Len(Emitted)
         /\ \A i \in 1..Len(Bodies) : Bodies[i] = Do("body", Emitted[i])
<1> USE DEF OrderInv
<1>1. LoadTypeOK /\ Emitted \in Seq(Path) /\ Len(Emitted) \in Nat
  BY EmittedType DEF CompilerInv
<1>2. CASE ~started
  <2>1. Bodies = Kept(trace, BodyInstr) /\ trace = << >>
    BY <1>2 DEF Bodies, BodyInstr, RunInv
  <2>2. Bodies = << >>
    BY <2>1, KeptEmpty
  <2>3. QED
    BY <1>1, <2>2
<1>3. CASE started /\ mode = "split"
  <2>1. PICK h : LogOf(h) /\ \E t \in 1..Len(h) : Meets(h[t])
    BY <1>3 DEF SplitOK
  <2>2. PICK t \in 1..Len(h) : Meets(h[t])
    BY <2>1
  <2>3. SameBodies(Bodies, h[t].ran) /\ Behind(h[t])
    BY <2>1, <2>2 DEF Meets, LogOf
  <2>4. /\ Len(Bodies) = Len(h[t].ran) /\ Len(h[t].ran) <= Len(modules)
        /\ \A i \in 1..Len(h[t].ran) : Bodies[i] = Do("body", modules[i])
    BY <2>3 DEF SameBodies, Behind
  <2>5. Emitted = modules
    <3>1. modules \in Seq(Path) /\ \A i \in 1..Len(modules) : modules[i] \in CodeModules
      BY <1>1, <1>3 DEF LoadTypeOK, CodeModules, ModuleSet, ToSet
    <3>2. QED
      BY <3>1, KeptAll DEF Emitted
  <2>6. QED
    BY <2>4, <2>5
<1>4. CASE started /\ mode = "bundle"
  <2> DEFINE b == BundleText
  <2>1. PICK j \in 0..Len(b) : Bodies = KeptAfter(b, BodyInstr)[j]
    BY <1>4 DEF BundleOK, BundleAt
  <2>2. b \in Seq(BundleInstr) /\ SameBodies(Kept(b, BodyInstr), Emitted)
    BY <1>1, <1>4, BundleBodies DEF Emitted
  <2> HIDE DEF b
  <2>3. Len(b) \in Nat /\ Len(b) \in 0..Len(b) /\ j \in 0..Len(b)
    BY <2>2
  <2>4. /\ Len(KeptAfter(b, BodyInstr)[j]) <= Len(Kept(b, BodyInstr))
        /\ \A i \in 1..Len(KeptAfter(b, BodyInstr)[j]) :
             Kept(b, BodyInstr)[i] = KeptAfter(b, BodyInstr)[j][i]
    BY <2>2, <2>3, KeptPrefix DEF Begins
  <2>5. /\ Len(Bodies) <= Len(Kept(b, BodyInstr))
        /\ \A i \in 1..Len(Bodies) : Kept(b, BodyInstr)[i] = Bodies[i]
    BY <2>1, <2>4
  <2>6. Len(Kept(b, BodyInstr)) = Len(Emitted) /\ Len(Bodies) \in Nat
        /\ \A i \in 1..Len(Emitted) : Kept(b, BodyInstr)[i] = Do("body", Emitted[i])
    BY <2>2, BodiesType DEF SameBodies
  <2>7. \A i \in 1..Len(Bodies) : i \in 1..Len(Emitted)
    BY <1>1, <2>5, <2>6
  <2>8. QED
    BY <2>5, <2>6, <2>7
<1>5. mode \in {"bundle", "split"} \/ ~started
  BY Finally DEF RunInv
<1>6. QED
  BY <1>2, <1>3, <1>4, <1>5

LEMMA InOrder ==
  ASSUME OrderInv, Followed
  PROVE  /\ RunsInEmitOrder
         /\ Len(BodyPaths) = Len(Bodies)
         /\ \A i \in 1..Len(Bodies) : BodyPaths[i] = Emitted[i]
<1> DEFINE k == Len(Bodies)
           C == Emitted
<1>1. /\ C \in Seq(Path) /\ Len(C) \in Nat /\ k \in Nat /\ k <= Len(C)
      /\ \A i \in 1..k : Bodies[i] = Do("body", C[i])
  BY EmittedType, BodiesType, RanPrefix DEF OrderInv, CompilerInv
<1>2. \A i \in 1..k : C[i] \in Path /\ Do("body", C[i]).path = C[i]
  <2>1. \A i \in 1..k : i \in 1..Len(C)
    BY <1>1
  <2>2. \A i \in 1..k : C[i] \in Path
    BY <1>1, <2>1, ElementOfSeq
  <2>3. QED
    BY <2>2, DoIsInstr
<1>3. BodyPaths = [i \in 1..k |-> Bodies[i].path]
  BY DEF BodyPaths
<1>4. BodyPaths = [i \in 1..k |-> C[i]]
  BY <1>1, <1>2, <1>3
<1>5. SubSeq(C, 1, k) = [i \in 1..k |-> C[i]]
  <2> DEFINE s == SubSeq(C, 1, k)
  <2> HIDE DEF C, k
  <2>1. 1 \in 1..(Len(C) + 1) /\ k \in (1 - 1)..Len(C) /\ k - 1 + 1 = k
    BY <1>1
  <2>2. s \in Seq(Path) /\ Len(s) = k /\ \A i \in 1..k : s[i] = C[i]
    BY <1>1, <2>1, SubSeqProperties
  <2> HIDE DEF s
  <2>3. s = [i \in 1..k |-> C[i]]
    BY <2>2
  <2>4. QED
    BY <2>3 DEF s
<1>6. RunsInEmitOrder
  BY <1>4, <1>5 DEF RunsInEmitOrder, Emitted
<1>7. Len(BodyPaths) = k /\ \A i \in 1..k : BodyPaths[i] = C[i]
  BY <1>1, <1>4
<1>8. QED
  BY <1>6, <1>7

\* A bundle, and a split program in which guards tell the libraries apart, no
\* module imports the entry and no declaration file imports a module, runs the
\* code of its modules in the order in which load finished them: what sh finds
\* by following source lines and guards is what the compiler found by following
\* imports, whatever diamonds and cycles these form.
THEOREM ProgramRunsInEmitOrder == ProgramSpec => [](Followed => RunsInEmitOrder)
<1>1. OrderInv => (Followed => RunsInEmitOrder)
  BY InOrder
<1>2. QED
  BY <1>1, OrderInvHolds, PTL


-----------------------------------------------------------------------------
(* A raw shell file runs once: its guard is set before it is entered.      *)

PlainText(x) == \A l \in 1..Len(x) : x[l].op # "raw"

\* The text of a raw shell file that has not run, behind its guard.
NewRawText(x) ==
  \E s \in Path : /\ x = <<Do("raw", s)>>
                  /\ <<"sh", s>> \in guards
                  /\ \A t \in 1..Len(trace) : trace[t] # Do("raw", s)

RawOK ==
  /\ \A t \in 1..Len(trace) : trace[t].op \in {"root", "raw", "body"}
  /\ \A t \in 1..Len(trace) : trace[t].op = "raw" => <<"sh", trace[t].path>> \in guards
  /\ \A t, u \in 1..Len(trace) : trace[t].op = "raw" /\ trace[t] = trace[u] => t = u
  /\ \A i \in 1..Len(frames) : PlainText(frames[i]) \/ (i = Len(frames) /\ NewRawText(frames[i]))

LEMMA TextsArePlain ==
  ASSUME CompilerInv
  PROVE  /\ \A p \in Path : PlainText(TextOf(p))
         /\ mode = "bundle" => PlainText(BundleText)
<1>1. LoadTypeOK
  BY DEF CompilerInv
<1>2. ASSUME NEW p \in Path PROVE PlainText(TextOf(p))
  <2> DEFINE N == Len(Sourced(p))
             x == TextOf(p)
  <2>1. /\ Len(x) = N + 2 /\ N \in Nat
        /\ x[1] = Opening(p) /\ x[N + 2] = Do("body", p)
        /\ \A i \in 1..N : x[i + 1] = ImportInstr(Sourced(p)[i])
    BY <1>1, <1>2, TextIs, SourcedSteps
  <2>2. Opening(p).op # "raw" /\ Do("body", p).op # "raw"
    BY <1>2, DoIsInstr DEF Opening
  <2>3. \A i \in 1..N : ImportInstr(Sourced(p)[i]).op # "raw"
    BY <1>1, <1>2, SourcedIs, ImportInstrIs
  <2> HIDE DEF N, x
  <2>4. ASSUME NEW l \in 1..Len(x) PROVE x[l].op # "raw"
    <3>1. CASE l = 1 \/ l = N + 2
      BY <2>1, <2>2, <3>1
    <3>2. CASE ~(l = 1 \/ l = N + 2)
      <4>1. l - 1 \in 1..N /\ (l - 1) + 1 = l
        BY <2>1, <3>2
      <4>2. QED
        BY <2>1, <2>3, <4>1
    <3>3. QED
      BY <3>1, <3>2
  <2>5. QED
    BY <2>4 DEF PlainText, x
<1>3. mode = "bundle" => PlainText(BundleText)
  BY BundleType DEF PlainText, BundleInstr
<1>4. QED
  BY <1>2, <1>3

LEMMA PlainFrames ==
  ASSUME RunInv, RawOK, frames # << >>, Text # << >>, Head(Text).op # "raw"
  PROVE  \A i \in 1..Len(frames) : PlainText(frames[i])
<1>1. Depth \in Nat \ {0} /\ Text = frames[Depth] /\ Depth = Len(frames)
  BY TextShape DEF RunInv, Depth
<1>2. ~NewRawText(Text)
  <2> SUFFICES ASSUME NEW s \in Path, Text = <<Do("raw", s)>> PROVE FALSE
    BY DEF NewRawText
  <2>1. Head(Text) = Do("raw", s)
    OBVIOUS
  <2>2. QED
    BY <2>1, DoIsInstr
<1>3. QED
  BY <1>1, <1>2 DEF RawOK

LEMMA PlainRest ==
  ASSUME RunInv, frames # << >>, Text # << >>, PlainText(Text)
  PROVE  PlainText(Tail(Text))
<1>1. /\ Len(Tail(Text)) = Len(Text) - 1 /\ Len(Text) \in Nat
      /\ \A i \in 1..(Len(Text) - 1) : Tail(Text)[i] = Text[i + 1]
  BY TextShape, RestShape DEF RunInv
<1>2. \A i \in 1..(Len(Text) - 1) : i + 1 \in 1..Len(Text)
  BY <1>1
<1>3. QED
  BY <1>1, <1>2 DEF PlainText

\* A step that adds nothing raw to the trace and leaves plain frames.
LEMMA RawStays ==
  ASSUME RunInv, RawOK, guards \subseteq guards',
         \/ trace' = trace
         \/ \E i \in Instr : i.op \in {"root", "body"} /\ trace' = Append(trace, i),
         \A i \in 1..Len(frames') : PlainText(frames'[i])
  PROVE  RawOK'
<1>1. trace \in Seq(Instr) /\ Len(trace) \in Nat
  BY DEF RunInv
<1>2. CASE trace' = trace
  BY <1>2 DEF RawOK, PlainText
<1>3. ASSUME NEW i \in Instr, i.op \in {"root", "body"}, trace' = Append(trace, i) PROVE RawOK'
  <2>1. /\ Len(trace') = Len(trace) + 1 /\ trace'[Len(trace) + 1] = i
        /\ \A t \in 1..Len(trace) : trace'[t] = trace[t]
    BY <1>1, <1>3, AppendProperties
  <2>2. \A t \in 1..Len(trace') : t \in 1..Len(trace) \/ t = Len(trace) + 1
    BY <1>1, <2>1
  <2>3. \A t \in 1..Len(trace') : trace'[t].op = "raw" => t \in 1..Len(trace) /\ trace'[t] = trace[t]
    BY <1>3, <2>1, <2>2
  <2>4. \A t \in 1..Len(trace') : trace'[t].op = "raw" => <<"sh", trace'[t].path>> \in guards'
    BY <2>3 DEF RawOK
  <2>5. \A t, u \in 1..Len(trace') : trace'[t].op = "raw" /\ trace'[t] = trace'[u] => t = u
    BY <2>3 DEF RawOK
  <2>6. \A t \in 1..Len(trace') : trace'[t].op \in {"root", "raw", "body"}
    BY <1>3, <2>1, <2>2 DEF RawOK
  <2>7. QED
    BY <2>4, <2>5, <2>6 DEF RawOK, PlainText
<1>4. QED
  BY <1>2, <1>3

LEMMA RawStep ==
  ASSUME CompilerInv, RunInv, RawOK, ShStep
  PROVE  RawOK'
<1> DEFINE S == ScriptInstr
<1>1. /\ frames # << >> /\ UNCHANGED buildVars /\ frames \in Seq(Seq(S)) /\ stage = "built"
  BY ShStepInside DEF RunInv
<1>2. /\ Depth \in Nat \ {0} /\ Depth = Len(frames) /\ Text = frames[Depth]
      /\ Len(Outer) = Depth - 1 /\ \A i \in 1..(Depth - 1) : Outer[i] = frames[i]
  BY <1>1, TextShape DEF Depth
<1>3. ASSUME Text # << >>
      PROVE  /\ Head(Text) \in Instr /\ Head(Text).path \in Path
             /\ Len(Rest) = Depth /\ Rest[Depth] = Tail(Text)
             /\ \A i \in 1..(Depth - 1) : Rest[i] = frames[i]
  <2>1. Head(Text) \in S
    BY <1>1, <1>3, RestShape
  <2>2. QED
    BY <1>1, <1>3, <2>1, RestShape DEF S, ScriptInstr, Instr
<1>4. ASSUME Text # << >>, Head(Text).op # "raw"
      PROVE  /\ \A i \in 1..Depth : PlainText(frames[i])
             /\ \A i \in 1..Depth : PlainText(Rest[i])
  <2>1. \A i \in 1..Depth : PlainText(frames[i])
    BY <1>1, <1>2, <1>4, PlainFrames
  <2>2. PlainText(Tail(Text))
    BY <1>1, <1>2, <1>4, <2>1, PlainRest
  <2>3. \A i \in 1..Depth : i \in 1..(Depth - 1) \/ i = Depth
    BY <1>2
  <2>4. QED
    BY <1>2, <1>3, <1>4, <2>1, <2>2, <2>3
<1> HIDE DEF S
<1>5. CASE EndOfFile
  <2>1. /\ frames' = Outer /\ guards' = guards /\ trace' = trace
    BY <1>5 DEF EndOfFile
  <2>2. \A i \in 1..(Depth - 1) : PlainText(frames[i])
    BY <1>2 DEF RawOK
  <2>3. \A i \in 1..Len(frames') : PlainText(frames'[i])
    BY <1>2, <2>1, <2>2
  <2>4. QED
    BY <2>1, <2>3, RawStays
<1>6. CASE GuardReturns
  <2>1. /\ frames' = Outer /\ guards' = guards /\ trace' = trace
    BY <1>6 DEF GuardReturns
  <2>2. \A i \in 1..(Depth - 1) : PlainText(frames[i])
    BY <1>2 DEF RawOK
  <2>3. \A i \in 1..Len(frames') : PlainText(frames'[i])
    BY <1>2, <2>1, <2>2
  <2>4. QED
    BY <2>1, <2>3, RawStays
<1>7. CASE SetRoot \/ RunBody \/ GuardPasses
  <2>1. Text # << >> /\ Head(Text).op # "raw" /\ frames' = Rest /\ guards \subseteq guards'
        /\ (trace' = trace \/ (Head(Text).op \in {"root", "body"} /\ trace' = Append(trace, Head(Text))))
    BY <1>7 DEF SetRoot, RunBody, GuardPasses, Executing
  <2>2. \A i \in 1..Len(frames') : PlainText(frames'[i])
    BY <1>3, <1>4, <2>1
  <2>3. QED
    BY <1>3, <2>1, <2>2, RawStays
<1>8. CASE SourceModule
  <2>1. /\ Text # << >> /\ Head(Text).op = "source" /\ guards' = guards /\ trace' = trace
        /\ frames' = Append(Rest, FileText(Operand))
    BY <1>8 DEF SourceModule, Executing
  <2>2. Operand \in ModuleSet /\ mode = "split"
    BY <1>1, <2>1, RestShape DEF Operand, ScriptInstr, S
  <2>3. FileText(Operand) = TextOf(Operand) /\ FileText(Operand) \in Seq(S) /\ Operand \in Path
    BY <1>1, <2>2, FileTextIs, Finally DEF S
  <2>4. PlainText(FileText(Operand))
    BY <2>3, TextsArePlain
  <2>5. /\ Len(frames') = Depth + 1 /\ frames'[Depth + 1] = FileText(Operand)
        /\ \A i \in 1..Depth : frames'[i] = Rest[i]
    BY <1>1, <1>2, <2>1, <2>3, RestShape, AppendProperties
  <2>6. \A i \in 1..Len(frames') : PlainText(frames'[i])
    <3>1. \A i \in 1..(Depth + 1) : i \in 1..Depth \/ i = Depth + 1
      BY <1>2
    <3>2. QED
      BY <1>4, <2>1, <2>4, <2>5, <3>1
  <2>7. QED
    BY <2>1, <2>6, RawStays
<1>9. CASE SourceShell
  <2>1. /\ Text # << >> /\ Head(Text).op = "shell" /\ guards' = guards \cup {Guard(Head(Text))}
        /\ trace' = trace
        /\ frames' = IF Guard(Head(Text)) \in guards THEN Rest ELSE Append(Rest, <<Do("raw", Operand)>>)
    BY <1>9 DEF SourceShell, Executing
  <2>2. Guard(Head(Text)) = <<"sh", Operand>> /\ Operand \in Path
    BY <1>3, <2>1 DEF Guard, Operand
  <2>3. \A i \in 1..Depth : PlainText(Rest[i])
    BY <1>4, <2>1
  <2>4. CASE frames' = Rest
    <3>1. \A i \in 1..Len(frames') : PlainText(frames'[i])
      BY <1>3, <2>1, <2>3, <2>4
    <3>2. QED
      BY <2>1, <3>1, RawStays
  <2>5. CASE <<"sh", Operand>> \notin guards /\ frames' = Append(Rest, <<Do("raw", Operand)>>)
    <3>1. <<Do("raw", Operand)>> \in Seq(S)
      <4>1. Do("raw", Operand) \in S
        BY <2>2, DoIsInstr DEF S, ScriptInstr
      <4>2. QED
        BY <4>1
    <3>2. /\ Len(frames') = Depth + 1 /\ frames'[Depth + 1] = <<Do("raw", Operand)>>
          /\ \A i \in 1..Depth : frames'[i] = Rest[i]
      BY <1>1, <1>2, <2>1, <2>5, <3>1, RestShape, AppendProperties
    <3>3. \A t \in 1..Len(trace) : trace[t] # Do("raw", Operand)
      BY <2>2, <2>5, DoIsInstr DEF RawOK
    <3>4. PICK x : x = <<Do("raw", Operand)>>
      OBVIOUS
    <3>5. NewRawText(x)'
      <4>1. PICK s \in Path : s = Operand
        BY <2>2
      <4>2. x = <<Do("raw", s)>> /\ <<"sh", s>> \in guards' /\ \A t \in 1..Len(trace') : trace'[t] # Do("raw", s)
        BY <2>1, <2>2, <3>3, <3>4, <4>1
      <4>3. QED
        BY <4>2 DEF NewRawText
    <3>6. \A i \in 1..Len(frames') : PlainText(frames'[i]) \/ (i = Len(frames') /\ frames'[i] = x)
      <4>1. \A i \in 1..(Depth + 1) : i \in 1..Depth \/ i = Depth + 1
        BY <1>2
      <4>2. QED
        BY <2>3, <3>2, <3>4, <4>1
    <3>7. /\ \A t \in 1..Len(trace') : trace'[t].op \in {"root", "raw", "body"}
          /\ \A t \in 1..Len(trace') : trace'[t].op = "raw" => <<"sh", trace'[t].path>> \in guards'
          /\ \A t, u \in 1..Len(trace') : trace'[t].op = "raw" /\ trace'[t] = trace'[u] => t = u
      BY <2>1 DEF RawOK
    <3>8. QED
      BY <3>5, <3>6, <3>7 DEF RawOK, PlainText, NewRawText
  <2>6. QED
    BY <2>1, <2>2, <2>4, <2>5
<1>10. CASE RunShellFile
  <2>1. /\ Text # << >> /\ Head(Text).op = "raw" /\ guards' = guards
        /\ trace' = Append(trace, Head(Text)) /\ frames' = Rest
    BY <1>10 DEF RunShellFile, Executing
  <2>2. ~PlainText(Text)
    <3>1. Head(Text) = Text[1] /\ 1 \in 1..Len(Text)
      BY <1>1, <2>1, RestShape, TextShape
    <3>2. QED
      BY <2>1, <3>1 DEF PlainText
  <2>3. NewRawText(Text)
    BY <1>2, <2>2 DEF RawOK
  <2>4. PICK s \in Path : /\ Text = <<Do("raw", s)>>
                          /\ <<"sh", s>> \in guards
                          /\ \A t \in 1..Len(trace) : trace[t] # Do("raw", s)
    BY <2>3 DEF NewRawText
  <2>5. Head(Text) = Do("raw", s) /\ Tail(Text) = << >>
    BY <2>4
  <2>6. \A i \in 1..Len(frames') : PlainText(frames'[i])
    <3>1. PlainText(Tail(Text))
      <4>1. Len(Text) = 1 /\ Len(Tail(Text)) = Len(Text) - 1
        BY <1>1, <2>1, <2>4, RestShape
      <4>2. PICK n : n = Len(Tail(Text))
        OBVIOUS
      <4>3. n = 0
        BY <4>1, <4>2
      <4>4. QED
        BY <4>2, <4>3 DEF PlainText
    <3>2. \A i \in 1..Depth : i \in 1..(Depth - 1) \/ i = Depth
      BY <1>2
    <3>3. QED
      BY <1>2, <1>3, <2>1, <3>1, <3>2 DEF RawOK
  <2>7. /\ Len(trace') = Len(trace) + 1 /\ trace'[Len(trace) + 1] = Do("raw", s)
        /\ \A t \in 1..Len(trace) : trace'[t] = trace[t]
    BY <1>3, <2>1, <2>5, AppendProperties DEF RunInv
  <2>8. \A t \in 1..Len(trace') : t \in 1..Len(trace) \/ t = Len(trace) + 1
    BY <2>7 DEF RunInv
  <2>9. \A t \in 1..Len(trace') : trace'[t].op = "raw" => <<"sh", trace'[t].path>> \in guards'
    BY <2>1, <2>4, <2>7, <2>8, DoIsInstr DEF RawOK
  <2>10. \A t, u \in 1..Len(trace') : trace'[t].op = "raw" /\ trace'[t] = trace'[u] => t = u
    BY <2>4, <2>7, <2>8 DEF RawOK
  <2>11. \A t \in 1..Len(trace') : trace'[t].op \in {"root", "raw", "body"}
    BY <2>7, <2>8, DoIsInstr DEF RawOK
  <2>12. QED
    BY <2>6, <2>9, <2>10, <2>11 DEF RawOK, PlainText
<1>11. QED
  BY <1>5, <1>6, <1>7, <1>8, <1>9, <1>10 DEF ShStep

LEMMA RawKept ==
  ASSUME CompilerInv, RunInv, RawOK, [ProgramNext]_programVars
  PROVE  RawOK'
<1>1. CASE StartScript
  <2>1. /\ trace' = << >> /\ guards' = {} /\ stage = "built"
        /\ frames' = << IF mode = "bundle" THEN BundleText ELSE EntryText >>
    BY <1>1 DEF StartScript, RunInv
  <2>2. EntryText = TextOf(Entry) /\ Entry \in Path
    BY PathAssumption DEF TextOf
  <2>3. PlainText(IF mode = "bundle" THEN BundleText ELSE EntryText)
    BY <2>2, TextsArePlain
  <2>4. Len(frames') = 1 /\ PlainText(frames'[1])
    BY <2>1, <2>3
  <2>5. \A i \in 1..Len(frames') : PlainText(frames'[i])
    BY <2>4
  <2>6. QED
    BY <2>1, <2>5 DEF RawOK, PlainText
<1>2. CASE ShStep
  BY <1>2, RawStep
<1>3. CASE CompileStep \/ UNCHANGED programVars
  <2>1. UNCHANGED <<frames, guards, trace>>
    BY <1>3 DEF CompileStep, programVars, shVars
  <2>2. QED
    BY <2>1 DEF RawOK, PlainText, NewRawText
<1>4. QED
  BY <1>1, <1>2, <1>3 DEF ProgramNext

-----------------------------------------------------------------------------
(* The script of the entry runs once: only a bundle has no such line, and in *)
(* a split program sh meets it at the first moment of the traversal.         *)

RootOK == started /\ Followed => RootSetOnceAtStartup

LEMMA RootIsFirst ==
  ASSUME CompilerInv, RunInv, SplitOK, BundleOK, ShStep, Followed, SetRoot
  PROVE  trace = << >>
<1> DEFINE S == ScriptInstr
<1>1. /\ frames # << >> /\ started /\ stage = "built" /\ frames \in Seq(Seq(S))
      /\ LoadTypeOK /\ Text # << >> /\ Head(Text).op = "root"
  BY ShStepInside DEF RunInv, CompilerInv, SetRoot, Executing
<1>2. Depth \in Nat \ {0} /\ Depth = Len(frames) /\ Text = frames[Depth] /\ Text \in Seq(S)
  BY <1>1, TextShape DEF Depth
<1>3. Head(Text) = Text[1] /\ Len(Text) > 0 /\ Len(Text) \in Nat
  BY <1>1, RestShape, TextShape
<1> HIDE DEF S
<1>4. ~IsSpent(Text)
  <2> SUFFICES ASSUME NEW s \in Path, Text = <<Do("raw", s)>> PROVE FALSE
    BY <1>1 DEF IsSpent
  <2>1. Head(Text) = Do("raw", s)
    OBVIOUS
  <2>2. QED
    BY <1>1, <2>1, DoIsInstr
<1>5. CASE mode = "bundle"
  <2>1. PICK j \in 0..Len(BundleText) : BundleAt(j)
    BY <1>1, <1>5 DEF BundleOK
  <2>2. /\ Len(frames[1]) = Len(BundleText) - j
        /\ \A i \in 1..(Len(BundleText) - j) : frames[1][i] = BundleText[j + i]
        /\ Len(frames) = 1 \/ (Len(frames) = 2 /\ IsSpent(frames[2]))
    BY <1>1, <2>1 DEF BundleAt
  <2>3. Text = frames[1]
    BY <1>2, <1>4, <2>2
  <2>4. Len(BundleText) \in Nat /\ \A i \in 1..Len(BundleText) : BundleText[i] \in BundleInstr
    BY <1>5, BundleType
  <2>5. 1 \in 1..(Len(BundleText) - j) /\ j + 1 \in 1..Len(BundleText)
    BY <1>3, <2>2, <2>3, <2>4
  <2>6. Head(Text) \in BundleInstr
    BY <1>3, <2>2, <2>3, <2>4, <2>5
  <2>7. QED
    BY <1>1, <2>6 DEF BundleInstr
<1>6. CASE mode = "split"
  <2>1. PICK h : LogOf(h) /\ \E t \in 1..Len(h) : Meets(h[t])
    BY <1>1, <1>6 DEF SplitOK
  <2>2. PICK t \in 1..Len(h) : Meets(h[t])
    BY <2>1
  <2>3. PICK m : m = h[t]
    OBVIOUS
  <2>4. /\ m \in Moment /\ CallOf(m) /\ FilesOf(m)
    BY <2>1, <2>2, <2>3, LogType DEF LogOf, Meets
  <2>5. m.stack \in Seq(Spot) /\ Len(m.stack) \in Nat /\ \A i \in 1..Len(m.stack) : m.stack[i] \in Spot
    BY <2>4, ElementOfSeq DEF Moment
  <2>6. CASE m.call # NoPath
    <3>1. Text = TextOf(m.call) /\ m.call \in Path
      BY <1>1, <1>2, <2>4, <2>6, Finally DEF FilesOf, CallOf
    <3>2. Head(Text) = Opening(m.call)
      BY <1>1, <3>1, RemainsFirst
    <3>3. m.call = Entry
      BY <1>1, <3>1, <3>2, DoIsInstr DEF Opening
    <3>4. QED
      BY <2>4, <3>3 DEF CallOf
  <2>7. CASE m.call = NoPath
    <3>1. Len(frames) = Len(m.stack)
      BY <1>2, <1>4, <2>4, <2>7 DEF FilesOf
    <3>2. PICK p, k : p = m.stack[Depth].path /\ k = m.stack[Depth].done
      OBVIOUS
    <3>3. Depth \in 1..Len(m.stack) /\ m.stack[Depth] \in Spot
      BY <1>2, <2>5, <3>1
    <3>4. Remains(Text, p, k) /\ p \in Path /\ k \in Nat
      BY <1>2, <2>4, <3>2, <3>3 DEF FilesOf, Spot
    <3>5. k <= Len(Sourced(p)) /\ Len(Sourced(p)) \in Nat
      BY <1>1, <3>4, SourcedSteps DEF Remains
    <3>6. CASE k = Len(Sourced(p))
      <4>1. Head(Text) = Do("body", p)
        BY <1>1, <1>2, <3>4, <3>6, RemainsLast
      <4>2. QED
        BY <1>1, <3>4, <4>1, DoIsInstr
    <3>7. CASE k < Len(Sourced(p))
      <4>1. Head(Text) = ImportInstr(Sourced(p)[k + 1])
        BY <1>1, <1>2, <3>4, <3>7, RemainsNext
      <4>2. k + 1 \in 1..Len(Sourced(p))
        BY <3>4, <3>5, <3>7
      <4>3. Head(Text).op # "root"
        BY <1>1, <3>4, <4>1, <4>2, SourcedIs, ImportInstrIs
      <4>4. QED
        BY <1>1, <4>3
    <3>8. QED
      BY <3>4, <3>5, <3>6, <3>7
  <2>8. QED
    BY <2>6, <2>7
<1>7. QED
  BY <1>1, <1>5, <1>6, Finally

LEMMA RootKept ==
  ASSUME CompilerInv, RunInv, SplitOK, BundleOK, RootOK, [ProgramNext]_programVars
  PROVE  RootOK'
<1>1. CASE StartScript
  BY <1>1 DEF StartScript, RunInv, RootOK, RootSetOnceAtStartup
<1>2. CASE ShStep
  <2>1. started /\ UNCHANGED buildVars
    BY <1>2, ShStepInside
  <2>2. SUFFICES ASSUME Followed PROVE RootSetOnceAtStartup'
    BY <2>1, FollowedSame DEF RootOK
  <2>3. RootSetOnceAtStartup
    BY <2>1, <2>2 DEF RootOK
  <2>4. CASE SetRoot
    <3>1. trace = << >> /\ trace' = Append(trace, Head(Text))
      BY <1>2, <2>2, <2>4, RootIsFirst DEF SetRoot
    <3>2. Len(trace') = 1
      BY <3>1
    <3>3. QED
      BY <3>2 DEF RootSetOnceAtStartup
  <2>5. CASE ~SetRoot /\ trace' # trace
    <3>1. trace' = Append(trace, Head(Text)) /\ Text # << >> /\ Head(Text).op # "root" /\ frames # << >>
      BY <1>2, <2>5 DEF ShStep, EndOfFile, GuardReturns, GuardPasses, SourceModule, SourceShell,
         RunShellFile, RunBody, Executing
    <3>2. Head(Text) \in Instr
      <4>1. Head(Text) \in ScriptInstr
        BY <3>1, RestShape DEF RunInv
      <4>2. QED
        BY <4>1 DEF ScriptInstr
    <3>3. /\ Len(trace) \in Nat /\ Len(trace') = Len(trace) + 1 /\ trace'[Len(trace) + 1] = Head(Text)
          /\ \A t \in 1..Len(trace) : trace'[t] = trace[t]
      BY <3>1, <3>2, AppendProperties DEF RunInv
    <3>4. \A t \in 1..Len(trace') : t \in 1..Len(trace) \/ t = Len(trace) + 1
      BY <3>3
    <3>5. QED
      BY <2>3, <3>1, <3>3, <3>4 DEF RootSetOnceAtStartup
  <2>6. CASE trace' = trace
    BY <2>3, <2>6 DEF RootSetOnceAtStartup
  <2>7. QED
    BY <2>4, <2>5, <2>6
<1>3. CASE CompileStep /\ ~started
  BY <1>3 DEF CompileStep, shVars, RootOK
<1>4. CASE (CompileStep /\ started) \/ UNCHANGED programVars
  <2>1. UNCHANGED programVars
    BY <1>4, BuiltStays DEF CompileStep, RunInv, programVars
  <2>2. UNCHANGED buildVars /\ UNCHANGED <<started, trace>>
    BY <2>1 DEF programVars, shVars
  <2>3. QED
    BY <2>2, FollowedSame DEF RootOK, RootSetOnceAtStartup
<1>5. QED
  BY <1>1, <1>2, <1>3, <1>4 DEF ProgramNext

-----------------------------------------------------------------------------
(* Nothing runs twice. *)

OnceInv == OrderInv /\ RawOK /\ RootOK

LEMMA OnceInvHolds == ProgramSpec => []OnceInv
<1>1. ProgramInit => RawOK /\ RootOK
  <2>1. ProgramInit => frames = << >> /\ trace = << >> /\ ~started
    BY DEF ProgramInit
  <2>2. frames = << >> /\ trace = << >> => Len(frames) = 0 /\ Len(trace) = 0
    OBVIOUS
  <2>3. QED
    BY <2>1, <2>2 DEF RawOK, RootOK
<1>2. OrderInv /\ RawOK /\ RootOK /\ [ProgramNext]_programVars => RawOK' /\ RootOK'
  BY RawKept, RootKept DEF OrderInv
<1>3. QED
  BY <1>1, <1>2, OrderInvHolds, PTL DEF OnceInv, ProgramSpec

LEMMA BodiesApart ==
  ASSUME OrderInv, Followed
  PROVE  \A i, j \in 1..Len(Bodies) : Bodies[i] = Bodies[j] => i = j
<1>1. LoadTypeOK /\ CompilerInv /\ RunInv
  BY DEF OrderInv, CompilerInv
<1>2. CASE ~started
  <2>1. Bodies = Kept(trace, BodyInstr) /\ trace = << >>
    BY <1>1, <1>2 DEF Bodies, BodyInstr, RunInv
  <2>2. Len(Bodies) = 0
    BY <2>1, KeptEmpty
  <2>3. QED
    BY <2>2
<1>3. CASE started
  <2>1. /\ modules \in Seq(Path)
        /\ \A i, j \in 1..Len(modules) : modules[i] = modules[j] => i = j
    BY <1>1, <1>3, Finally DEF RunInv
  <2>2. \A i, j \in 1..Len(Emitted) : Emitted[i] = Emitted[j] => i = j
    BY <2>1, KeptApart DEF Emitted
  <2>3. /\ Len(Bodies) <= Len(Emitted) /\ Len(Bodies) \in Nat
        /\ \A i \in 1..Len(Bodies) : Bodies[i] = Do("body", Emitted[i])
    BY <1>1, RanPrefix, BodiesType
  <2>4. Emitted \in Seq(Path) /\ Len(Emitted) \in Nat
    BY <1>1, EmittedType
  <2>5. \A i \in 1..Len(Bodies) : i \in 1..Len(Emitted)
    BY <2>3, <2>4
  <2>6. \A i \in 1..Len(Bodies) : Bodies[i].path = Emitted[i]
    BY <2>3, <2>4, <2>5, ElementOfSeq, DoIsInstr
  <2>7. QED
    BY <2>2, <2>5, <2>6
<1>4. QED
  BY <1>2, <1>3

LEMMA OnceIsOnce ==
  ASSUME OnceInv, Followed
  PROVE  NothingRunsTwice /\ RootSetOnceAtStartup
<1>1. RunInv /\ OrderInv /\ RawOK /\ RootOK
  BY DEF OnceInv, OrderInv
<1>2. trace \in Seq(Instr) /\ Len(trace) \in Nat
  BY <1>1 DEF RunInv
<1>3. \A t \in 1..Len(trace) : trace[t] \in Instr
  BY <1>2, ElementOfSeq
<1>4. RootSetOnceAtStartup
  <2>1. CASE started
    BY <1>1, <2>1 DEF RootOK
  <2>2. CASE ~started
    <3>1. Len(trace) = 0
      BY <1>1, <2>2 DEF RunInv
    <3>2. QED
      BY <3>1 DEF RootSetOnceAtStartup
  <2>3. QED
    BY <2>1, <2>2
<1>5. ASSUME NEW t \in 1..Len(trace), NEW u \in 1..Len(trace), trace[t] = trace[u], t < u
      PROVE  FALSE
  <2>1. CASE trace[t].op = "raw"
    BY <1>1, <1>5, <2>1 DEF RawOK
  <2>2. CASE trace[t].op = "body"
    <3>1. trace[t] \in BodyInstr
      BY <1>3, <2>2, BodyInstrIs
    <3>2. Bodies = Kept(trace, BodyInstr)
      BY DEF Bodies, BodyInstr
    <3>3. \A i, j \in 1..Len(Kept(trace, BodyInstr)) : Kept(trace, BodyInstr)[i] = Kept(trace, BodyInstr)[j] => i = j
      BY <1>1, <3>2, BodiesApart
    <3>4. QED
      BY <1>2, <1>5, <3>1, <3>3, KeptTells
  <2>3. CASE trace[t].op = "root"
    BY <1>4, <1>5, <2>3 DEF RootSetOnceAtStartup
  <2>4. QED
    BY <1>1, <2>1, <2>2, <2>3 DEF RawOK
<1>6. QED
  BY <1>2, <1>4, <1>5 DEF NothingRunsTwice

\* Nothing runs twice in a bundle, nor in a split program in which guards tell
\* the libraries apart, no module imports the entry and no declaration file
\* imports a module: neither a module's code, nor a raw shell file, nor the
\* assignment of _BESHT_ROOT, whatever diamonds and cycles the imports form.
THEOREM ProgramRunsNothingTwice == ProgramSpec => [](Followed => NothingRunsTwice)
<1>1. OnceInv => (Followed => NothingRunsTwice)
  BY OnceIsOnce
<1>2. QED
  BY <1>1, OnceInvHolds, PTL

\* In the same programs _BESHT_ROOT is set at startup and never again: only a
\* module that imports the entry runs its script anew.
THEOREM ProgramSetsRootOnce == ProgramSpec => [](Followed => RootSetOnceAtStartup)
<1>1. OnceInv => (Followed => RootSetOnceAtStartup)
  BY OnceIsOnce
<1>2. QED
  BY <1>1, OnceInvHolds, PTL

-----------------------------------------------------------------------------
(* A run keeps the promise. *)

LEMMA NeedsSame ==
  ASSUME UNCHANGED <<buildVars, started>>
  PROVE  Needs' = Needs
  BY DEF buildVars, loadVars, Needs, CodeModules, ModuleSet, EmittedInBundle

LEMMA BodyPathsSame ==
  ASSUME Bodies' = Bodies
  PROVE  BodyPaths' = BodyPaths
  BY DEF BodyPaths

\* Before the run no code has run.
LEMMA NothingRan ==
  ASSUME trace = << >>
  PROVE  BodyPaths = << >>
<1>1. Bodies = << >>
  BY KeptEmpty DEF Bodies
<1>2. Len(Bodies) = 0
  BY <1>1
<1>3. QED
  BY <1>2 DEF BodyPaths

LEMMA PromiseBegins ==
  ASSUME ProgramInit
  PROVE  Promise!Init
<1>1. trace = << >> /\ ~started
  BY DEF ProgramInit
<1>2. QED
  BY <1>1, NothingRan DEF Promise!Init, Needs

LEMMA PromiseLinks ==
  ASSUME CompilerInv, RunInv, StartScript
  PROVE  Promise!Link \/ UNCHANGED <<Needs, BodyPaths>>
<1> DEFINE M == CodeModules
           N == [p \in M |-> {q \in BeshtImports(tree, p) \cap M : ~Reaches(tree, q, p)}]
<1>1. ~started /\ started' /\ UNCHANGED buildVars /\ trace = << >> /\ trace' = trace /\ stage = "built"
  BY DEF StartScript, RunInv
<1>2. Needs = << >> /\ BodyPaths = << >>
  BY <1>1, NothingRan DEF Needs
<1>3. BodyPaths' = BodyPaths
  BY <1>1, BodiesStay, BodyPathsSame
<1>4. Needs' = N
  BY <1>1 DEF Needs, buildVars, loadVars, CodeModules, ModuleSet, EmittedInBundle
<1>5. N \in [M -> SUBSET M]
  OBVIOUS
<1>6. M \in SUBSET Path
  BY <1>1, Finally DEF CodeModules
<1>7. CASE M # {}
  <2> HIDE DEF M, N
  <2>1. QED
    BY <1>2, <1>3, <1>4, <1>5, <1>6, <1>7 DEF Promise!Link
<1>8. CASE M = {}
  <2>1. N = << >>
    BY <1>8
  <2>2. QED
    BY <1>2, <1>3, <1>4, <2>1
<1>9. QED
  BY <1>7, <1>8

\* The code that runs next is that of a module whose imports have run.
LEMMA PromiseRuns ==
  ASSUME OrderInv, OrderInv', Followed, ShStep, RunBody
  PROVE  Promise!Run
<1> DEFINE k == Len(Bodies)
           p == Operand
           E == Emitted
<1>1. /\ CompilerInv /\ RunInv /\ RunInv' /\ LoadTypeOK /\ stage = "built" /\ started /\ started'
      /\ UNCHANGED buildVars /\ k \in Nat
  BY ShStepInside, BodiesType DEF OrderInv, CompilerInv
<1>2. /\ frames # << >> /\ Text # << >> /\ Head(Text).op = "body" /\ trace' = Append(trace, Head(Text))
  BY DEF RunBody, Executing
<1>3. Head(Text) \in Instr /\ p \in Path /\ p = Head(Text).path
  <2>1. Head(Text) \in ScriptInstr
    BY <1>1, <1>2, RestShape DEF RunInv
  <2>2. QED
    BY <2>1 DEF ScriptInstr, Instr, Operand
<1>4. /\ Bodies' = Append(Bodies, Head(Text)) /\ Bodies \in Seq(Instr)
  BY <1>1, <1>2, <1>3, BodiesGrow, BodiesType
<1>5. /\ Len(Bodies') = k + 1 /\ Bodies'[k + 1] = Head(Text)
      /\ \A i \in 1..k : Bodies'[i] = Bodies[i]
  BY <1>3, <1>4, AppendProperties
<1>6. E' = E /\ E \in Seq(Path) /\ Len(E) \in Nat
  BY <1>1, EmittedType DEF Emitted, CodeModules, ModuleSet, EmittedInBundle, buildVars, loadVars
<1>7. Followed'
  BY <1>1, FollowedSame
<1>8. /\ Len(BodyPaths) = k /\ \A i \in 1..k : BodyPaths[i] = E[i]
  BY InOrder
<1>9. /\ Len(Bodies') <= Len(E') /\ \A i \in 1..Len(Bodies') : BodyPaths'[i] = E'[i]
      /\ Len(BodyPaths') = Len(Bodies')
  <2>1. (OrderInv /\ Followed => Len(Bodies) <= Len(Emitted)
           /\ Len(BodyPaths) = Len(Bodies) /\ \A i \in 1..Len(Bodies) : BodyPaths[i] = Emitted[i])'
    BY InOrder, RanPrefix, PTL
  <2>2. QED
    BY <1>7, <2>1
<1>10. k + 1 \in 1..Len(E) /\ p = E[k + 1]
  <2>1. k + 1 \in 1..Len(E)
    BY <1>1, <1>5, <1>6, <1>9
  <2>2. BodyPaths'[k + 1] = Bodies'[k + 1].path
    BY <1>1, <1>5 DEF BodyPaths
  <2>3. k + 1 \in 1..Len(Bodies')
    BY <1>1, <1>5
  <2>4. QED
    BY <1>3, <1>5, <1>6, <1>9, <2>1, <2>2, <2>3
<1>11. BodyPaths' = Append(BodyPaths, p)
  <2> DEFINE a == Append(BodyPaths, p)
             b == BodyPaths
  <2>1. b = [i \in 1..k |-> E[i]] /\ BodyPaths' = [i \in 1..(k + 1) |-> E[i]]
    BY <1>1, <1>5, <1>6, <1>8, <1>9 DEF BodyPaths
  <2>2. \A i \in 1..(k + 1) : E[i] \in Path
    <3>1. \A i \in 1..(k + 1) : i \in 1..Len(E)
      BY <1>1, <1>6, <1>10
    <3>2. QED
      BY <1>6, <3>1, ElementOfSeq
  <2> HIDE DEF E, k, p, b
  <2>3. b \in Seq(Path) /\ Len(b) = k /\ BodyPaths' \in Seq(Path) /\ Len(BodyPaths') = k + 1
    BY <1>1, <2>1, <2>2
  <2>4. Append(b, p) \in Seq(Path) /\ Len(Append(b, p)) = k + 1 /\ Append(b, p)[k + 1] = p
        /\ \A i \in 1..k : Append(b, p)[i] = b[i]
    BY <1>3, <2>3, AppendProperties
  <2>5. \A i \in 1..(k + 1) : BodyPaths'[i] = Append(b, p)[i]
    <3>1. \A i \in 1..(k + 1) : i \in 1..k \/ i = k + 1
      BY <1>1
    <3>2. QED
      BY <1>10, <2>1, <2>4, <3>1
  <2>6. BodyPaths' = Append(b, p)
    <3>1. PICK y \in Seq(Path) : y = BodyPaths'
      BY <2>3
    <3>2. Len(y) = Len(Append(b, p)) /\ \A i \in 1..Len(y) : y[i] = Append(b, p)[i]
      BY <2>3, <2>4, <2>5, <3>1
    <3>3. y = Append(b, p)
      BY <2>4, <3>2, SeqEqual
    <3>4. QED
      BY <3>1, <3>3
  <2>7. QED
    BY <2>6 DEF b
<1>12. /\ modules \in Seq(Path) /\ Len(modules) \in Nat
       /\ \A i, j \in 1..Len(modules) : modules[i] = modules[j] => i = j
       /\ ModuleSet = {modules[i] : i \in 1..Len(modules)}
       /\ ModuleSet = visited \ Decl /\ DepsFirst
  BY <1>1, Finally DEF CompilerInv
<1>13. \A i, j \in 1..Len(E) : E[i] = E[j] => i = j
  BY <1>12, KeptApart DEF Emitted
<1>14. p \in CodeModules
  <2>1. PICK n \in 0..Len(modules) : n = Len(modules)
    BY <1>12
  <2>2. E = KeptAfter(modules, CodeModules)[n]
    BY <2>1 DEF Emitted, Kept
  <2>3. KeptAfter(modules, CodeModules)[n][k + 1] \in CodeModules
    BY <1>10, <1>12, <2>2, KeptIsIn
  <2>4. QED
    BY <1>10, <2>2, <2>3
<1> DEFINE R == {BodyPaths[i] : i \in 1..Len(BodyPaths)}
<1>15. p \notin R
  <2> SUFFICES ASSUME NEW i \in 1..k, E[i] = p PROVE FALSE
    BY <1>8
  <2>1. i \in 1..Len(E) /\ i # k + 1
    BY <1>1, <1>6, <1>10
  <2>2. QED
    BY <1>10, <1>13, <2>1
<1>16. ASSUME NEW q \in BeshtImports(tree, p) \cap CodeModules, ~Reaches(tree, q, p) PROVE q \in R
  <2>1. p \in ModuleSet /\ q \in ModuleSet
    BY <1>14, <1>16 DEF CodeModules
  <2>2. PICK m \in 1..Len(modules) : modules[m] = p
    BY <1>12, <2>1
  <2>3. q \notin Decl
    BY <1>12, <2>1
  <2>4. PICK n \in 1..(m - 1) : modules[n] = q
    BY <1>12, <1>16, <2>2, <2>3 DEF DepsFirst
  <2>5. n \in 1..Len(modules) /\ n < m /\ modules[n] \in CodeModules
    BY <1>12, <1>16, <2>2, <2>4
  <2>6. \E j \in 1..((k + 1) - 1) : E[j] = q
    <3> HIDE DEF k, p
    <3>1. /\ k + 1 \in 1..Len(Kept(modules, CodeModules)) /\ Kept(modules, CodeModules)[k + 1] = modules[m]
          /\ \A i, j \in 1..Len(Kept(modules, CodeModules)) :
               Kept(modules, CodeModules)[i] = Kept(modules, CodeModules)[j] => i = j
      BY <1>10, <1>13, <2>2 DEF Emitted
    <3>2. \E j \in 1..((k + 1) - 1) : Kept(modules, CodeModules)[j] = modules[n]
      BY <1>12, <2>5, <3>1, KeptInOrder
    <3>3. QED
      BY <2>4, <3>2 DEF Emitted
  <2>7. PICK j \in 1..k : E[j] = q
    BY <1>1, <2>6
  <2>8. QED
    BY <1>8, <2>7
<1>17. /\ DOMAIN Needs = CodeModules
       /\ Needs[p] = {q \in BeshtImports(tree, p) \cap CodeModules : ~Reaches(tree, q, p)}
  BY <1>1, <1>14 DEF Needs
<1>18. Needs' = Needs
  BY <1>1, NeedsSame
<1>19. p \in DOMAIN Needs \ R /\ Needs[p] \subseteq R
  BY <1>14, <1>15, <1>16, <1>17
<1> HIDE DEF k, p, E
<1>20. QED
  BY <1>11, <1>18, <1>19 DEF Promise!Run, Promise!Ran

LEMMA PromiseSteps ==
  ASSUME OrderInv, OrderInv', started => Followed, [ProgramNext]_programVars
  PROVE  Promise!Next \/ UNCHANGED <<Needs, BodyPaths>>
<1>1. CompilerInv /\ RunInv
  BY DEF OrderInv
<1>2. CASE StartScript
  BY <1>1, <1>2, PromiseLinks DEF Promise!Next
<1>3. CASE ShStep
  <2>1. started /\ started' = started /\ UNCHANGED buildVars
    BY <1>1, <1>3, ShStepInside
  <2>2. Needs' = Needs
    BY <2>1, NeedsSame
  <2>3. CASE RunBody
    BY <1>3, <2>1, <2>3, PromiseRuns DEF Promise!Next
  <2>4. CASE SetRoot \/ RunShellFile
    <3>1. /\ frames # << >> /\ Text # << >> /\ Head(Text).op # "body" /\ trace' = Append(trace, Head(Text))
      BY <2>4 DEF SetRoot, RunShellFile, Executing
    <3>2. Head(Text) \in Instr
      <4>1. Head(Text) \in ScriptInstr
        BY <1>1, <3>1, RestShape DEF RunInv
      <4>2. QED
        BY <4>1 DEF ScriptInstr
    <3>3. BodyPaths' = BodyPaths
      BY <1>1, <3>1, <3>2, BodiesGrow, BodyPathsSame
    <3>4. QED
      BY <2>2, <3>3
  <2>5. CASE trace' = trace
    BY <2>2, <2>5, BodiesStay, BodyPathsSame
  <2>6. QED
    BY <1>3, <2>3, <2>4, <2>5 DEF ShStep, EndOfFile, GuardReturns, GuardPasses, SourceModule, SourceShell
<1>4. CASE CompileStep \/ UNCHANGED programVars
  <2>1. UNCHANGED <<started, trace>> /\ (started => UNCHANGED buildVars)
    BY <1>1, <1>4, BuiltStays DEF CompileStep, RunInv, programVars, shVars
  <2>2. BodyPaths' = BodyPaths
    BY <2>1, BodiesStay, BodyPathsSame
  <2>3. Needs' = Needs
    <3>1. CASE started
      BY <2>1, <3>1, NeedsSame
    <3>2. CASE ~started
      BY <2>1, <3>2 DEF Needs
    <3>3. QED
      BY <3>1, <3>2
  <2>4. QED
    BY <2>2, <2>3
<1>5. QED
  BY <1>2, <1>3, <1>4 DEF ProgramNext

\* A program keeps the promise of module ModuleInit, bundled or split, when it
\* is run as it was loaded: each module's code runs at most once, and after that
\* of the modules it imports, import cycles excepted.
THEOREM ProgramKeepsPromise ==
  ProgramSpec /\ [](started => Followed) => Promise!Spec
<1>1. ProgramInit => Promise!Init
  BY PromiseBegins
<1>2. OrderInv /\ OrderInv' /\ (started => Followed) /\ [ProgramNext]_programVars
        => [Promise!Next]_<<Needs, BodyPaths>>
  BY PromiseSteps
<1>3. QED
  BY <1>1, <1>2, OrderInvHolds, PTL DEF ProgramSpec, Promise!Spec

-----------------------------------------------------------------------------
(* Calls. *)

\* The raw shell files of the program.
LinkedShells == UNION {ShellImports(p) : p \in ModuleSet}

\* What the files of a program are: a file exports what it defines, a declaration
\* file exports nothing, a shell file defines what is imported from it, and a
\* file without statements defines nothing.
FilesAgree ==
  /\ \A p \in Path : tree.exports[p] \subseteq IF p \in Decl THEN {} ELSE tree.defs[p]
  /\ \A p \in ModuleSet :
       /\ tree.content[p] = "empty" => tree.defs[p] = {}
       /\ \A i \in 1..Len(tree.imports[p]) :
            IsShell(tree.imports[p][i]) => tree.imports[p][i].names \subseteq tree.defs[tree.imports[p][i].path]

\* A name that p imports from a declaration file has no other meaning in p.
DeclaredOnce(p) ==
  \A i \in 1..Len(tree.imports[p]) :
    ~IsShell(tree.imports[p][i]) /\ tree.imports[p][i].path \in Decl =>
      /\ tree.imports[p][i].names \cap tree.defs[p] = {}
      /\ \A j \in 1..Len(tree.imports[p]) :
           i # j => tree.imports[p][i].names \cap tree.imports[p][j].names = {}

\* Prefixes tell the modules apart, and no two shell files define one function.
NamesApart ==
  /\ \A p, q \in ModuleSet : PrefixOf[p] = PrefixOf[q] => p = q
  /\ \A s, t \in LinkedShells : s # t => tree.defs[s] \cap tree.defs[t] = {}
  /\ \A p \in ModuleSet : DeclaredOnce(p)

-----------------------------------------------------------------------------
(* The functions that are defined. *)

\* The code of a module stands behind the shell files it imports, but for those
\* of which the guard is in g.
TextOK(x, g) ==
  \A l \in 1..Len(x) :
    /\ x[l].op = "body" =>
         /\ x[l].path \in ModuleSet
         /\ \A s \in ShellImports(x[l].path) :
              <<"sh", s>> \in g \/ \E j \in 1..(l - 1) : x[j] = Do("shell", s)
    /\ x[l].op \in {"shell", "raw"} => x[l].path \in LinkedShells

\* A shell file whose guard is set has run, or is about to.
Entered(s) ==
  \/ \E t \in 1..Len(trace) : trace[t] = Do("raw", s)
  \/ frames # << >> /\ frames[Len(frames)] = <<Do("raw", s)>>

LinkOK ==
  /\ \A i \in 1..Len(frames) : TextOK(frames[i], guards)
  /\ \A s \in Path : <<"sh", s>> \in guards => Entered(s)

\* A function is one of a file that has run, and has the name that file gives it;
\* every function of a file that has run is there, or another one of its name.
FnsOK ==
  /\ \A k \in Key : fns[k] # NoPath =>
       /\ k[2] \in tree.defs[fns[k]]
       /\ IF k[1] = Bare THEN fns[k] \in LinkedShells
          ELSE fns[k] \in ModuleSet /\ PrefixOf[fns[k]] = k[1]
  /\ \A t \in 1..Len(trace), n \in Name :
       n \in tree.defs[trace[t].path] =>
         /\ trace[t].op = "raw" => fns[BareKey(n)] # NoPath
         /\ trace[t].op = "body" => fns[QualKey(trace[t].path, n)] # NoPath

LEMMA LinkedImport ==
  ASSUME CompilerInv, stage = "built", NEW p \in ModuleSet, NEW i \in 1..Len(tree.imports[p])
  PROVE  LET imp == tree.imports[p][i] IN
         /\ p \in Path /\ imp \in Import /\ imp.path \in Path
         /\ IsShell(imp) => imp.path \in ShellImports(p) /\ imp.path \in LinkedShells
         /\ ~IsShell(imp) => /\ imp.kind = "besht" /\ imp.path \in BeshtImports(tree, p)
                             /\ imp.path \in visited
<1> DEFINE imp == tree.imports[p][i]
<1>1. /\ p \in Path /\ p \in visited /\ visited = Finished /\ TraversalInv /\ LoadTypeOK
  BY Finally DEF CompilerInv
<1>2. tree.imports[p] \in Seq(Import) /\ imp \in Import
  BY <1>1, ImportsType, ElementOfSeq
<1>3. imp.path \in Path /\ imp.kind \in {"besht", "shell", "malformed"}
  BY <1>2 DEF Import
<1>4. ImportOk(tree, imp)
  BY <1>1 DEF TraversalInv, ImportsOK
<1>5. ASSUME IsShell(imp) PROVE imp.path \in ShellImports(p) /\ imp.path \in LinkedShells
  <2>1. imp \in ToSet(tree.imports[p])
    BY <1>2 DEF ToSet
  <2>2. imp.path \in ShellImports(p)
    BY <1>5, <2>1 DEF ShellImports
  <2>3. QED
    BY <2>2 DEF LinkedShells
<1>6. ASSUME ~IsShell(imp)
      PROVE  imp.kind = "besht" /\ imp.path \in BeshtImports(tree, p) /\ imp.path \in visited
  <2>1. imp.kind = "besht"
    BY <1>3, <1>4, <1>6 DEF ImportOk, IsShell
  <2>2. imp.path \in BeshtImports(tree, p)
    BY <1>3, <2>1 DEF BeshtImports
  <2>3. imp.path \in visited
    BY <1>1, <2>2 DEF TraversalInv, LoadInv, ProgressOK, LoadedBy
  <2>4. QED
    BY <2>1, <2>2, <2>3
<1>7. QED
  BY <1>1, <1>2, <1>3, <1>5, <1>6

\* The shell files that p imports, by their place in its list.
LEMMA ShellImportIs ==
  ASSUME LoadTypeOK, NEW p \in Path, NEW s \in ShellImports(p)
  PROVE  /\ s \in Path
         /\ \E i \in 1..Len(tree.imports[p]) : /\ IsShell(tree.imports[p][i])
                                               /\ tree.imports[p][i].path = s
<1>1. tree.imports[p] \in Seq(Import)
  BY ImportsType
<1>2. PICK imp \in ToSet(tree.imports[p]) : IsShell(imp) /\ imp.path = s
  BY DEF ShellImports
<1>3. PICK i \in 1..Len(tree.imports[p]) : tree.imports[p][i] = imp
  BY <1>1, <1>2 DEF ToSet
<1>4. imp \in Import
  BY <1>1, <1>3, ElementOfSeq
<1>5. QED
  BY <1>2, <1>3, <1>4 DEF Import

\* A text of which nothing has been executed.
Fresh(x) ==
  \A l \in 1..Len(x) :
    /\ x[l].op = "body" =>
         /\ x[l].path \in ModuleSet
         /\ \A s \in ShellImports(x[l].path) : \E j \in 1..(l - 1) : x[j] = Do("shell", s)
    /\ x[l].op \in {"shell", "raw"} => x[l].path \in LinkedShells

LEMMA FreshTexts ==
  ASSUME CompilerInv, stage = "built", NEW p \in ModuleSet
  PROVE  Fresh(TextOf(p))
<1> DEFINE n == Len(Sourced(p))
           x == TextOf(p)
           s == tree.imports[p]
<1>1. p \in Path /\ LoadTypeOK
  BY Finally DEF CompilerInv
<1>2. /\ Len(x) = n + 2 /\ n \in Nat
      /\ x[1] = Opening(p) /\ x[n + 2] = Do("body", p)
      /\ \A i \in 1..n : x[i + 1] = ImportInstr(Sourced(p)[i])
  BY <1>1, TextIs, SourcedSteps
<1>3. /\ Opening(p).op \in {"root", "guard"}
      /\ Do("body", p).op = "body" /\ Do("body", p).path = p
  BY <1>1, DoIsInstr DEF Opening
<1>4. ASSUME NEW i \in 1..n
      PROVE  /\ x[i + 1].op \in {"shell", "source"}
             /\ x[i + 1].op = "shell" => x[i + 1].path \in LinkedShells
  <2>1. Sourced(p)[i] \in Import /\ \E j \in 1..Len(s) : Sourced(p)[i] = s[j]
    BY <1>1, SourcedIs
  <2>2. PICK j \in 1..Len(s) : Sourced(p)[i] = s[j]
    BY <2>1
  <2>3. IsShell(s[j]) => s[j].path \in LinkedShells
    BY LinkedImport
  <2>4. QED
    BY <1>2, <2>1, <2>2, <2>3, ImportInstrIs
<1>5. ASSUME NEW q \in ShellImports(p) PROVE \E j \in 1..((n + 2) - 1) : x[j] = Do("shell", q)
  <2>1. PICK i \in 1..Len(s) : IsShell(s[i]) /\ s[i].path = q
    BY <1>1, ShellImportIs
  <2>2. s \in Seq(Import) /\ Len(s) \in Nat /\ s[i] \in Import
    BY <1>1, ImportsType, ElementOfSeq
  <2>3. s[i] \in SourcedImports
    BY <2>1, <2>2 DEF SourcedImports
  <2> HIDE DEF s
  <2>4. \E j \in 1..Len(KeptAfter(s, SourcedImports)[Len(s)]) : KeptAfter(s, SourcedImports)[Len(s)][j] = s[i]
    <3>1. Len(s) \in 0..Len(s)
      BY <2>2
    <3>2. QED
      BY <2>2, <2>3, <3>1, KeptHas
  <2>5. PICK j \in 1..n : Sourced(p)[j] = s[i]
    BY <2>4 DEF Sourced, Kept, s
  <2>6. x[j + 1] = Do("shell", q) /\ j + 1 \in 1..((n + 2) - 1)
    BY <1>2, <2>1, <2>5 DEF ImportInstr
  <2>7. QED
    BY <2>6
<1> HIDE DEF x, n
<1>6. ASSUME NEW l \in 1..Len(x)
      PROVE  /\ x[l].op = "body" =>
                  /\ x[l].path \in ModuleSet
                  /\ \A q \in ShellImports(x[l].path) : \E j \in 1..(l - 1) : x[j] = Do("shell", q)
             /\ x[l].op \in {"shell", "raw"} => x[l].path \in LinkedShells
  <2>1. CASE l = 1
    BY <1>2, <1>3, <2>1
  <2>2. CASE l = n + 2
    BY <1>2, <1>3, <1>5, <2>2
  <2>3. CASE l # 1 /\ l # n + 2
    <3>1. l - 1 \in 1..n /\ (l - 1) + 1 = l
      BY <1>2, <2>3
    <3>2. QED
      BY <1>4, <3>1
  <2>4. QED
    BY <2>1, <2>2, <2>3
<1>7. QED
  BY <1>6 DEF Fresh, x

LEMMA ShellTextHas ==
  ASSUME LoadTypeOK, NEW p \in Path
  PROVE  LET x == ShellText(p) IN
         /\ x \in Seq(BundleInstr)
         /\ \A i \in 1..Len(x) : x[i].op = "shell" /\ x[i].path \in ShellImports(p)
         /\ \A s \in ShellImports(p) : \E i \in 1..Len(x) : x[i] = Do("shell", s)
<1> DEFINE s == tree.imports[p]
           S == {imp \in Import : IsShell(imp)}
           k == Kept(s, S)
           n == Len(k)
           x == ShellText(p)
<1>1. s \in Seq(Import) /\ Len(s) \in Nat /\ Len(s) \in 0..Len(s)
  BY ImportsType
<1>2. x = [i \in 1..n |-> Do("shell", k[i].path)] /\ x \in Seq(BundleInstr)
  BY ShellTextIs DEF ShellText
<1>3. k = KeptAfter(s, S)[Len(s)]
  BY DEF Kept
<1>4. n \in Nat /\ Len(x) = n
  <2>1. KeptAfter(s, S) \in [0..Len(s) -> Seq(Import)]
    <3> HIDE DEF s, S
    <3>1. QED
      BY <1>1, KeptSteps
  <2>2. KeptAfter(s, S)[Len(s)] \in Seq(Import)
    <3> HIDE DEF s, S
    <3>1. QED
      BY <1>1, <2>1
  <2> HIDE DEF k
  <2>3. n \in Nat
    BY <1>3, <2>2
  <2>4. QED
    BY <1>2, <2>3
<1>5. ASSUME NEW i \in 1..n PROVE x[i].op = "shell" /\ x[i].path \in ShellImports(p)
  <2>1. /\ KeptAfter(s, S)[Len(s)][i] \in S
        /\ \E j \in 1..Len(s) : KeptAfter(s, S)[Len(s)][i] = s[j]
    <3>1. i \in 1..Len(KeptAfter(s, S)[Len(s)])
      BY <1>3
    <3> HIDE DEF s, S
    <3>2. QED
      BY <1>1, <3>1, KeptIsIn
  <2>2. k[i] \in S /\ \E j \in 1..Len(s) : k[i] = s[j]
    BY <1>3, <2>1
  <2>3. k[i] \in Import /\ IsShell(k[i]) /\ k[i] \in ToSet(tree.imports[p])
    <3> HIDE DEF k
    <3>1. PICK j \in 1..Len(s) : k[i] = s[j]
      BY <2>2
    <3>2. s[j] \in ToSet(s)
      BY <1>1 DEF ToSet
    <3>3. QED
      BY <2>2, <3>1, <3>2
  <2>4. k[i].path \in ShellImports(p) /\ k[i].path \in Path
    BY <2>3 DEF ShellImports, Import
  <2> HIDE DEF k
  <2>5. QED
    BY <1>2, <2>4, DoIsInstr
<1>6. ASSUME NEW q \in ShellImports(p) PROVE \E i \in 1..n : x[i] = Do("shell", q)
  <2>1. PICK i \in 1..Len(s) : IsShell(s[i]) /\ s[i].path = q
    BY ShellImportIs
  <2>2. s[i] \in S
    BY <1>1, <2>1, ElementOfSeq
  <2>3. \E j \in 1..Len(KeptAfter(s, S)[Len(s)]) : KeptAfter(s, S)[Len(s)][j] = s[i]
    <3> HIDE DEF s, S
    <3>1. QED
      BY <1>1, <2>2, KeptHas
  <2>4. PICK j \in 1..n : k[j] = s[i]
    BY <1>3, <2>3
  <2> HIDE DEF k
  <2>5. x[j] = Do("shell", q)
    BY <1>2, <2>1, <2>4
  <2>6. QED
    BY <2>5
<1>7. QED
  BY <1>2, <1>4, <1>5, <1>6

\* The text of a module put behind that of others.
LEMMA FreshGrows ==
  ASSUME NEW v \in Seq(BundleInstr), NEW t \in Seq(BundleInstr), Fresh(v),
         NEW p \in ModuleSet, Do("body", p) \in BundleInstr, p \in Path,
         \A i \in 1..Len(t) : t[i].op = "shell" /\ t[i].path \in LinkedShells,
         \A s \in ShellImports(p) : \E i \in 1..Len(t) : t[i] = Do("shell", s)
  PROVE  Fresh(v \o t \o <<Do("body", p)>>)
<1> DEFINE U == BundleInstr
           e == Do("body", p)
           w == v \o t
           x == w \o <<e>>
           m == Len(v)
           n == Len(t)
<1>1. m \in Nat /\ n \in Nat /\ e \in U /\ e.op = "body" /\ e.path = p
  BY DoIsInstr
<1> HIDE DEF U, e
<1>2. /\ w \in Seq(U) /\ Len(w) = m + n
      /\ \A i \in 1..m : w[i] = v[i]
      /\ \A i \in 1..n : w[i + m] = t[i]
  <2>1. /\ w \in Seq(U) /\ Len(w) = m + n
        /\ \A i \in 1..(m + n) : w[i] = IF i <= m THEN v[i] ELSE t[i - m]
    BY ConcatProperties DEF U
  <2>2. \A i \in 1..m : i \in 1..(m + n) /\ i <= m
    BY <1>1
  <2>3. \A i \in 1..n : i + m \in 1..(m + n) /\ ~(i + m <= m) /\ (i + m) - m = i
    BY <1>1
  <2> HIDE DEF w, m, n
  <2>4. QED
    BY <2>1, <2>2, <2>3
<1>3. /\ Len(x) = m + n + 1 /\ x[m + n + 1] = e
      /\ \A i \in 1..(m + n) : x[i] = w[i]
  <2> HIDE DEF w, m, n
  <2>1. x = Append(w, e)
    BY <1>1, <1>2
  <2> HIDE DEF x
  <2>2. /\ Len(Append(w, e)) = Len(w) + 1 /\ Append(w, e)[Len(w) + 1] = e
        /\ \A i \in 1..Len(w) : Append(w, e)[i] = w[i]
    BY <1>1, <1>2, AppendProperties
  <2>3. QED
    BY <1>2, <2>1, <2>2
<1> HIDE DEF x, w, m, n
<1>4. /\ \A i \in 1..m : x[i] = v[i]
      /\ \A i \in 1..n : x[i + m] = t[i]
  <2>1. \A i \in 1..m : i \in 1..(m + n)
    BY <1>1
  <2>2. \A i \in 1..n : i + m \in 1..(m + n)
    BY <1>1
  <2>3. QED
    BY <1>2, <1>3, <2>1, <2>2
<1>5. ASSUME NEW l \in 1..Len(x)
      PROVE  /\ x[l].op = "body" =>
                  /\ x[l].path \in ModuleSet
                  /\ \A q \in ShellImports(x[l].path) : \E j \in 1..(l - 1) : x[j] = Do("shell", q)
             /\ x[l].op \in {"shell", "raw"} => x[l].path \in LinkedShells
  <2>1. CASE l \in 1..m
    <3>1. l \in 1..Len(v) /\ x[l] = v[l] /\ \A j \in 1..(l - 1) : j \in 1..m
      BY <1>1, <1>4, <2>1 DEF m
    <3>2. \A j \in 1..(l - 1) : x[j] = v[j]
      BY <1>4, <3>1
    <3>3. QED
      BY <3>1, <3>2 DEF Fresh
  <2>2. CASE l = m + n + 1
    <3>1. \A q \in ShellImports(p) : \E j \in 1..(l - 1) : x[j] = Do("shell", q)
      <4> SUFFICES ASSUME NEW q \in ShellImports(p) PROVE \E j \in 1..(l - 1) : x[j] = Do("shell", q)
        OBVIOUS
      <4>1. PICK i \in 1..n : t[i] = Do("shell", q)
        BY DEF n
      <4>2. x[i + m] = Do("shell", q) /\ i + m \in 1..(l - 1)
        BY <1>1, <1>4, <2>2, <4>1
      <4>3. QED
        BY <4>2
    <3>2. QED
      BY <1>1, <1>3, <2>2, <3>1
  <2>3. CASE l \notin 1..m /\ l # m + n + 1
    <3>1. l - m \in 1..n /\ (l - m) + m = l
      BY <1>1, <1>3, <2>3
    <3>2. x[l].op = "shell" /\ x[l].path \in LinkedShells
      <4>1. x[l] = t[l - m]
        BY <1>4, <3>1
      <4>2. QED
        BY <3>1, <4>1 DEF n
    <3>3. QED
      BY <3>2
  <2>4. QED
    BY <2>1, <2>2, <2>3
<1>6. Fresh(x)
  BY <1>5 DEF Fresh
<1>7. QED
  BY <1>6 DEF x, w, e

LEMMA FreshBundle ==
  ASSUME CompilerInv, stage = "built"
  PROVE  Fresh(BundleText)
<1> DEFINE N == Len(modules)
           b == BundleAfter
           T == {n \in 0..N : Fresh(b[n])}
<1>1. /\ LoadTypeOK /\ N \in Nat /\ \A n \in 1..N : modules[n] \in ModuleSet /\ modules[n] \in Path
  BY Finally, ElementOfSeq DEF CompilerInv
<1>2. /\ b \in [0..N -> Seq(BundleInstr)]
      /\ b[0] = << >>
      /\ \A n \in 1..N : b[n] = IF EmittedInBundle(modules[n])
                                THEN b[n - 1] \o ShellText(modules[n]) \o <<Do("body", modules[n])>>
                                ELSE b[n - 1]
  BY <1>1, BundleSteps
<1> HIDE DEF b, N
<1>3. 0 \in T
  <2>1. PICK x : x = << >>
    OBVIOUS
  <2>2. Len(x) = 0
    BY <2>1
  <2>3. Fresh(x)
    BY <2>2 DEF Fresh
  <2>4. QED
    BY <1>1, <1>2, <2>1, <2>3
<1>4. ASSUME NEW n \in 1..N, n - 1 \in T PROVE n \in T
  <2>1. n \in 0..N /\ n - 1 \in 0..N /\ b[n - 1] \in Seq(BundleInstr) /\ Fresh(b[n - 1])
    BY <1>1, <1>2, <1>4
  <2>2. CASE ~EmittedInBundle(modules[n])
    BY <1>2, <2>1, <2>2
  <2>3. CASE EmittedInBundle(modules[n])
    <3> DEFINE p == modules[n]
               t == ShellText(p)
    <3>1. p \in ModuleSet /\ p \in Path
      BY <1>1
    <3>2. /\ t \in Seq(BundleInstr)
          /\ \A i \in 1..Len(t) : t[i].op = "shell" /\ t[i].path \in ShellImports(p)
          /\ \A s \in ShellImports(p) : \E i \in 1..Len(t) : t[i] = Do("shell", s)
      BY <1>1, <3>1, ShellTextHas
    <3>3. Do("body", p) \in BundleInstr
      BY <3>1, DoIsInstr DEF BundleInstr
    <3> HIDE DEF p, t
    <3>4. \A i \in 1..Len(t) : t[i].op = "shell" /\ t[i].path \in LinkedShells
      BY <3>1, <3>2 DEF LinkedShells
    <3>5. Fresh(b[n - 1] \o t \o <<Do("body", p)>>)
      BY <2>1, <3>1, <3>2, <3>3, <3>4, FreshGrows
    <3>6. QED
      BY <1>2, <2>1, <2>3, <3>5 DEF p, t
  <2>4. QED
    BY <2>2, <2>3
<1> HIDE DEF T
<1>5. \A n \in 0..N : n \in T
  BY <1>1, <1>3, <1>4, UpTo
<1>6. N \in T
  BY <1>1, <1>5
<1>7. QED
  BY <1>6 DEF T, b, N, BundleText

-----------------------------------------------------------------------------
(* A shell file is entered before the code that imports it.                *)

LEMMA TextIsOK ==
  ASSUME NEW x, Fresh(x), NEW g
  PROVE  TextOK(x, g)
  BY DEF Fresh, TextOK

LEMMA TextMore ==
  ASSUME NEW x, NEW g, NEW h, TextOK(x, g), g \subseteq h
  PROVE  TextOK(x, h)
  BY DEF TextOK

LEMMA TextTail ==
  ASSUME NEW U, NEW x \in Seq(U), x # << >>, NEW g, NEW h, TextOK(x, g), g \subseteq h,
         x[1].op = "shell" => <<"sh", x[1].path>> \in h
  PROVE  TextOK(Tail(x), h)
<1> DEFINE y == Tail(x)
<1>1. Len(x) \in Nat /\ Len(x) > 0 /\ Len(y) = Len(x) - 1 /\ \A i \in 1..(Len(x) - 1) : y[i] = x[i + 1]
  BY TailIs, EmptySeq
<1> HIDE DEF y
<1>2. ASSUME NEW l \in 1..Len(y)
      PROVE  /\ y[l].op = "body" =>
                  /\ y[l].path \in ModuleSet
                  /\ \A s \in ShellImports(y[l].path) :
                       <<"sh", s>> \in h \/ \E j \in 1..(l - 1) : y[j] = Do("shell", s)
             /\ y[l].op \in {"shell", "raw"} => y[l].path \in LinkedShells
  <2>1. l + 1 \in 1..Len(x) /\ y[l] = x[l + 1] /\ (l + 1) - 1 = l /\ l \in Nat
    BY <1>1
  <2>2. /\ y[l].op = "body" => y[l].path \in ModuleSet
        /\ y[l].op \in {"shell", "raw"} => y[l].path \in LinkedShells
    BY <2>1 DEF TextOK
  <2>3. ASSUME y[l].op = "body", NEW s \in ShellImports(y[l].path), <<"sh", s>> \notin h
        PROVE  \E j \in 1..(l - 1) : y[j] = Do("shell", s)
    <3>1. <<"sh", s>> \notin g
      BY <2>3
    <3>2. PICK j \in 1..l : x[j] = Do("shell", s)
      BY <2>1, <2>3, <3>1 DEF TextOK
    <3>3. j # 1
      BY <2>3, <3>2 DEF Do
    <3>4. j - 1 \in 1..(l - 1) /\ j - 1 \in 1..(Len(x) - 1) /\ (j - 1) + 1 = j
      BY <1>1, <2>1, <3>3
    <3>5. y[j - 1] = x[j]
      BY <1>1, <3>4
    <3>6. QED
      BY <3>2, <3>4, <3>5
  <2>4. QED
    BY <2>2, <2>3
<1>3. QED
  BY <1>2 DEF TextOK, y

LEMMA LinkFrom ==
  ASSUME UNCHANGED buildVars,
         \A i \in 1..Len(frames') : TextOK(frames'[i], guards'),
         \A s \in Path : <<"sh", s>> \in guards' =>
           \/ \E t \in 1..Len(trace') : trace'[t] = Do("raw", s)
           \/ frames' # << >> /\ frames'[Len(frames')] = <<Do("raw", s)>>
  PROVE  LinkOK'
<1>1. tree' = tree /\ ModuleSet' = ModuleSet
  BY DEF buildVars, loadVars, ModuleSet
<1>2. LinkedShells' = LinkedShells
  BY <1>1 DEF LinkedShells, ShellImports
<1>3. \A i \in 1..Len(frames') :
        \A l \in 1..Len(frames'[i]) :
          /\ frames'[i][l].op = "body" =>
               /\ frames'[i][l].path \in ModuleSet'
               /\ \A s \in ShellImports(frames'[i][l].path) :
                    <<"sh", s>> \in guards' \/ \E j \in 1..(l - 1) : frames'[i][j] = Do("shell", s)
          /\ frames'[i][l].op \in {"shell", "raw"} => frames'[i][l].path \in LinkedShells'
  BY <1>1, <1>2 DEF TextOK
<1>4. \A i \in 1..Len(frames') : TextOK(frames[i], guards)'
  BY <1>1, <1>2, <1>3 DEF TextOK, ShellImports
<1>5. \A s \in Path : <<"sh", s>> \in guards' => Entered(s)'
  BY DEF Entered
<1>6. QED
  BY <1>4, <1>5 DEF LinkOK

LEMMA LinkStep ==
  ASSUME CompilerInv, RunInv, LinkOK, ShStep
  PROVE  LinkOK'
<1> DEFINE S == ScriptInstr
<1>1. /\ frames # << >> /\ UNCHANGED buildVars /\ frames \in Seq(Seq(S)) /\ stage = "built"
  BY ShStepInside DEF RunInv
<1>2. /\ Depth \in Nat \ {0} /\ Depth = Len(frames) /\ Text = frames[Depth] /\ Text \in Seq(S)
      /\ Outer \in Seq(Seq(S)) /\ Len(Outer) = Depth - 1 /\ \A i \in 1..(Depth - 1) : Outer[i] = frames[i]
  BY <1>1, TextShape DEF Depth
<1>3. ASSUME Text # << >>
      PROVE  /\ Head(Text) \in S /\ Head(Text) \in Instr /\ Head(Text).path \in Path /\ Head(Text) = Text[1]
             /\ Rest \in Seq(Seq(S)) /\ Len(Rest) = Depth /\ Rest[Depth] = Tail(Text)
             /\ \A i \in 1..(Depth - 1) : Rest[i] = frames[i]
  <2>1. Head(Text) \in S
    BY <1>1, <1>3, RestShape
  <2>2. QED
    BY <1>1, <1>3, <2>1, RestShape DEF S, ScriptInstr, Instr
<1>4. \A i \in 1..Depth : TextOK(frames[i], guards)
  BY <1>2 DEF LinkOK
<1>5. ASSUME Text # << >>, guards \subseteq guards',
             Head(Text).op = "shell" => <<"sh", Head(Text).path>> \in guards'
      PROVE  \A i \in 1..Depth : TextOK(Rest[i], guards')
  <2>1. TextOK(Tail(Text), guards')
    <3>1. TextOK(Text, guards) /\ Text[1] = Head(Text)
      BY <1>2, <1>3, <1>4, <1>5
    <3>2. Text[1].op = "shell" => <<"sh", Text[1].path>> \in guards'
      BY <1>5, <3>1
    <3>3. PICK x \in Seq(S) : x = Text
      BY <1>2
    <3>4. TextOK(Tail(x), guards')
      <4> HIDE DEF S
      <4>1. QED
        BY <1>5, <3>1, <3>2, <3>3, TextTail
    <3>5. QED
      BY <3>3, <3>4
  <2>2. \A i \in 1..(Depth - 1) : TextOK(frames[i], guards')
    BY <1>2, <1>4, <1>5, TextMore
  <2>3. \A i \in 1..Depth : i \in 1..(Depth - 1) \/ i = Depth
    BY <1>2
  <2>4. QED
    BY <1>3, <1>5, <2>1, <2>2, <2>3
\* Nothing is about to run but what is on top.
<1>6. ASSUME Text = << >> \/ Head(Text).op # "raw", NEW s \in Path, <<"sh", s>> \in guards
      PROVE  \E t \in 1..Len(trace) : trace[t] = Do("raw", s)
  <2>1. Text # <<Do("raw", s)>>
    BY <1>6 DEF Do
  <2>2. QED
    BY <1>2, <1>6, <2>1 DEF LinkOK, Entered
<1> HIDE DEF S
<1>7. CASE EndOfFile \/ GuardReturns
  <2>1. /\ frames' = Outer /\ guards' = guards /\ trace' = trace
        /\ Text = << >> \/ Head(Text).op # "raw"
    BY <1>7 DEF EndOfFile, GuardReturns, Executing
  <2>2. \A i \in 1..Len(frames') : TextOK(frames'[i], guards')
    <3>1. \A i \in 1..(Depth - 1) : i \in 1..Depth
      BY <1>2
    <3>2. Len(frames') = Depth - 1 /\ \A i \in 1..(Depth - 1) : frames'[i] = frames[i]
      BY <1>2, <2>1
    <3>3. QED
      BY <1>4, <2>1, <3>1, <3>2
  <2>3. \A s \in Path : <<"sh", s>> \in guards' => \E t \in 1..Len(trace') : trace'[t] = Do("raw", s)
    BY <1>6, <2>1
  <2>4. QED
    BY <1>1, <2>2, <2>3, LinkFrom
<1>8. CASE SetRoot \/ RunBody
  <2>1. /\ Text # << >> /\ Head(Text).op \in {"root", "body"} /\ frames' = Rest /\ guards' = guards
        /\ trace' = Append(trace, Head(Text))
    BY <1>8 DEF SetRoot, RunBody, Executing
  <2>2. \A i \in 1..Len(frames') : TextOK(frames'[i], guards')
    BY <1>3, <1>5, <2>1
  <2>3. Len(trace') = Len(trace) + 1 /\ Len(trace) \in Nat /\ \A t \in 1..Len(trace) : trace'[t] = trace[t]
    BY <1>3, <2>1, AppendProperties DEF RunInv
  <2>4. \A s \in Path : <<"sh", s>> \in guards' => \E t \in 1..Len(trace') : trace'[t] = Do("raw", s)
    <3> SUFFICES ASSUME NEW s \in Path, <<"sh", s>> \in guards
                 PROVE  \E t \in 1..Len(trace') : trace'[t] = Do("raw", s)
      BY <2>1
    <3>1. PICK t \in 1..Len(trace) : trace[t] = Do("raw", s)
      BY <1>6, <2>1
    <3>2. t \in 1..Len(trace') /\ trace'[t] = Do("raw", s)
      BY <2>3, <3>1
    <3>3. QED
      BY <3>2
  <2>5. QED
    BY <1>1, <2>2, <2>4, LinkFrom
<1>9. CASE GuardPasses
  <2>1. /\ Text # << >> /\ Head(Text).op = "guard" /\ frames' = Rest /\ trace' = trace
        /\ guards' = guards \cup {<<"lib", PrefixOf[Head(Text).path]>>}
    BY <1>9 DEF GuardPasses, Executing, Guard
  <2>2. \A i \in 1..Len(frames') : TextOK(frames'[i], guards')
    BY <1>3, <1>5, <2>1
  <2>3. \A s \in Path : <<"sh", s>> \in guards' => \E t \in 1..Len(trace') : trace'[t] = Do("raw", s)
    BY <1>6, <2>1
  <2>4. QED
    BY <1>1, <2>2, <2>3, LinkFrom
<1>10. CASE SourceModule
  <2>1. /\ Text # << >> /\ Head(Text).op = "source" /\ guards' = guards /\ trace' = trace
        /\ frames' = Append(Rest, FileText(Operand))
    BY <1>10 DEF SourceModule, Executing
  <2>2. Operand \in ModuleSet /\ mode = "split"
    BY <1>3, <2>1 DEF Operand, ScriptInstr, S
  <2>3. FileText(Operand) = TextOf(Operand) /\ FileText(Operand) \in Seq(S) /\ Operand \in Path
    BY <1>1, <2>2, FileTextIs, Finally DEF S
  <2>4. TextOK(FileText(Operand), guards')
    BY <1>1, <2>2, <2>3, FreshTexts, TextIsOK
  <2>5. /\ Len(frames') = Depth + 1 /\ frames'[Depth + 1] = FileText(Operand)
        /\ \A i \in 1..Depth : frames'[i] = Rest[i]
    BY <1>2, <1>3, <2>1, <2>3, AppendProperties
  <2>6. \A i \in 1..Len(frames') : TextOK(frames'[i], guards')
    <3>1. \A i \in 1..(Depth + 1) : i \in 1..Depth \/ i = Depth + 1
      BY <1>2
    <3>2. QED
      BY <1>5, <2>1, <2>4, <2>5, <3>1
  <2>7. \A s \in Path : <<"sh", s>> \in guards' => \E t \in 1..Len(trace') : trace'[t] = Do("raw", s)
    BY <1>6, <2>1
  <2>8. QED
    BY <1>1, <2>6, <2>7, LinkFrom
<1>11. CASE SourceShell
  <2>1. /\ Text # << >> /\ Head(Text).op = "shell" /\ guards' = guards \cup {<<"sh", Operand>>}
        /\ trace' = trace /\ Operand \in Path /\ Operand = Head(Text).path
        /\ frames' = IF <<"sh", Operand>> \in guards THEN Rest ELSE Append(Rest, <<Do("raw", Operand)>>)
    BY <1>3, <1>11 DEF SourceShell, Executing, Guard, Operand
  <2>2. \A i \in 1..Depth : TextOK(Rest[i], guards')
    BY <1>5, <2>1
  <2>3. CASE <<"sh", Operand>> \in guards
    <3>1. \A i \in 1..Len(frames') : TextOK(frames'[i], guards')
      BY <1>3, <2>1, <2>2, <2>3
    <3>2. \A s \in Path : <<"sh", s>> \in guards' => \E t \in 1..Len(trace') : trace'[t] = Do("raw", s)
      BY <1>6, <2>1, <2>3
    <3>3. QED
      BY <1>1, <3>1, <3>2, LinkFrom
  <2>4. CASE <<"sh", Operand>> \notin guards
    <3> DEFINE x == <<Do("raw", Operand)>>
    <3>1. x \in Seq(S)
      <4>1. Do("raw", Operand) \in S
        BY <2>1, DoIsInstr DEF S, ScriptInstr
      <4>2. QED
        BY <4>1
    <3>2. TextOK(x, guards')
      <4>1. Operand \in LinkedShells
        <5>1. Len(Text) \in Nat /\ 1 \in 1..Len(Text)
          BY <1>1, <2>1, RestShape, TextShape
        <5>2. Depth \in 1..Depth
          BY <1>2
        <5>3. QED
          BY <1>2, <1>3, <1>4, <2>1, <5>1, <5>2 DEF TextOK
      <4>2. Len(x) = 1 /\ x[1].op = "raw" /\ x[1].path = Operand
        BY DEF Do
      <4>3. \A l \in 1..Len(x) : l = 1
        BY <4>2
      <4> HIDE DEF x
      <4>4. QED
        BY <4>1, <4>2, <4>3 DEF TextOK
    <3>3. /\ Len(frames') = Depth + 1 /\ frames'[Depth + 1] = x
          /\ \A i \in 1..Depth : frames'[i] = Rest[i]
      <4> HIDE DEF x
      <4>1. frames' = Append(Rest, x)
        BY <2>1, <2>4 DEF x
      <4>2. PICK r \in Seq(Seq(S)) : r = Rest
        BY <1>3, <2>1
      <4>3. Len(r) = Depth /\ x \in Seq(S)
        BY <1>3, <2>1, <3>1, <4>2
      <4>4. /\ Len(Append(r, x)) = Depth + 1 /\ Append(r, x)[Depth + 1] = x
            /\ \A i \in 1..Depth : Append(r, x)[i] = r[i]
        BY <4>3, AppendProperties
      <4>5. QED
        BY <4>1, <4>2, <4>4
    <3>4. \A i \in 1..Len(frames') : TextOK(frames'[i], guards')
      <4>1. \A i \in 1..(Depth + 1) : i \in 1..Depth \/ i = Depth + 1
        BY <1>2
      <4> HIDE DEF x
      <4>2. QED
        BY <2>2, <3>2, <3>3, <4>1
    <3>5. frames' # << >> /\ frames'[Len(frames')] = x
      <4>1. Len(frames') # 0
        BY <1>2, <3>3
      <4>2. frames' # << >>
        BY <4>1
      <4>3. QED
        BY <3>3, <4>2
    <3>6. \A s \in Path : <<"sh", s>> \in guards' =>
             \/ \E t \in 1..Len(trace') : trace'[t] = Do("raw", s)
             \/ frames' # << >> /\ frames'[Len(frames')] = <<Do("raw", s)>>
      <4> SUFFICES ASSUME NEW s \in Path, <<"sh", s>> \in guards', s # Operand
                   PROVE  \E t \in 1..Len(trace') : trace'[t] = Do("raw", s)
        BY <3>5
      <4>1. <<"sh", s>> \in guards
        BY <2>1
      <4>2. QED
        BY <1>6, <2>1, <4>1
    <3>7. QED
      BY <1>1, <3>4, <3>6, LinkFrom
  <2>5. QED
    BY <2>3, <2>4
<1>12. CASE RunShellFile
  <2>1. /\ Text # << >> /\ Head(Text).op = "raw" /\ guards' = guards
        /\ trace' = Append(trace, Head(Text)) /\ frames' = Rest
    BY <1>12 DEF RunShellFile, Executing
  <2>2. \A i \in 1..Len(frames') : TextOK(frames'[i], guards')
    BY <1>3, <1>5, <2>1
  <2>3. /\ Len(trace') = Len(trace) + 1 /\ Len(trace) \in Nat /\ trace'[Len(trace) + 1] = Head(Text)
        /\ \A t \in 1..Len(trace) : trace'[t] = trace[t]
    BY <1>3, <2>1, AppendProperties DEF RunInv
  <2>4. \A s \in Path : <<"sh", s>> \in guards' => \E t \in 1..Len(trace') : trace'[t] = Do("raw", s)
    <3> SUFFICES ASSUME NEW s \in Path, <<"sh", s>> \in guards
                 PROVE  \E t \in 1..Len(trace') : trace'[t] = Do("raw", s)
      BY <2>1
    <3>1. CASE \E t \in 1..Len(trace) : trace[t] = Do("raw", s)
      <4>1. PICK t \in 1..Len(trace) : trace[t] = Do("raw", s)
        BY <3>1
      <4>2. t \in 1..Len(trace') /\ trace'[t] = Do("raw", s)
        BY <2>3, <4>1
      <4>3. QED
        BY <4>2
    <3>2. CASE Text = <<Do("raw", s)>>
      <4>1. Head(Text) = Do("raw", s) /\ Len(trace) + 1 \in 1..Len(trace')
        BY <2>3, <3>2
      <4>2. QED
        BY <2>3, <4>1
    <3>3. QED
      BY <1>2, <3>1, <3>2 DEF LinkOK, Entered
  <2>5. QED
    BY <1>1, <2>2, <2>4, LinkFrom
<1>13. QED
  BY <1>7, <1>8, <1>9, <1>10, <1>11, <1>12 DEF ShStep

-----------------------------------------------------------------------------
(* The functions there are.                                                *)

LEMMA FnsFrom ==
  ASSUME UNCHANGED buildVars,
         \A k \in Key : fns'[k] # NoPath =>
           /\ k[2] \in tree.defs[fns'[k]]
           /\ IF k[1] = Bare THEN fns'[k] \in LinkedShells
              ELSE fns'[k] \in ModuleSet /\ PrefixOf[fns'[k]] = k[1],
         \A t \in 1..Len(trace'), n \in Name :
           n \in tree.defs[trace'[t].path] =>
             /\ trace'[t].op = "raw" => fns'[BareKey(n)] # NoPath
             /\ trace'[t].op = "body" => fns'[QualKey(trace'[t].path, n)] # NoPath
  PROVE  FnsOK'
<1>1. tree' = tree /\ ModuleSet' = ModuleSet
  BY DEF buildVars, loadVars, ModuleSet
<1>2. LinkedShells' = LinkedShells
  BY <1>1 DEF LinkedShells, ShellImports
<1>3. QED
  BY <1>1, <1>2 DEF FnsOK, BareKey, QualKey

LEMMA TopIsOK ==
  ASSUME NEW S, frames \in Seq(Seq(S)), frames # << >>, LinkOK
  PROVE  TextOK(Text, guards)
<1>1. Depth \in Nat \ {0} /\ Text = frames[Depth] /\ Depth = Len(frames)
  BY TextShape DEF Depth
<1>2. Depth \in 1..Len(frames)
  BY <1>1
<1>3. TextOK(frames[Depth], guards)
  BY <1>2 DEF LinkOK
<1>4. QED
  BY <1>1, <1>3

LEMMA FnsStep ==
  ASSUME CompilerInv, RunInv, LinkOK, FnsOK, ShStep
  PROVE  FnsOK'
<1> DEFINE S == ScriptInstr
<1>1. /\ frames # << >> /\ UNCHANGED buildVars /\ frames \in Seq(Seq(S)) /\ stage = "built"
      /\ trace \in Seq(Instr) /\ Len(trace) \in Nat /\ fns \in [Key -> Path \cup {NoPath}]
  BY ShStepInside DEF RunInv
<1>2. ASSUME Text # << >>
      PROVE  /\ Head(Text) \in Instr /\ Operand \in Path /\ Operand = Head(Text).path
             /\ Head(Text).op = "body" => Operand \in ModuleSet
             /\ Head(Text).op = "raw" => Operand \in LinkedShells
  <2>1. Head(Text) \in S /\ Head(Text) = Text[1] /\ 1 \in 1..Len(Text)
    BY <1>1, <1>2, RestShape, TextShape
  <2>2. TextOK(Text, guards)
    BY <1>1, TopIsOK
  <2>3. Head(Text) \in Instr /\ Head(Text).path \in Path
    BY <2>1 DEF S, ScriptInstr, Instr
  <2>4. QED
    BY <2>1, <2>2, <2>3 DEF Operand, TextOK
<1> HIDE DEF S
<1>3. \A n \in Name : BareKey(n) \in Key /\ \A p \in Path : QualKey(p, n) \in Key
  BY NameAssumption DEF BareKey, QualKey, Key
<1>4. \A t \in 1..Len(trace) : trace[t] \in Instr /\ trace[t].path \in Path
  <2>1. \A t \in 1..Len(trace) : trace[t] \in Instr
    BY <1>1, ElementOfSeq
  <2>2. QED
    BY <2>1 DEF Instr
<1>5. CASE fns' = fns /\ trace' = trace
  BY <1>1, <1>5, FnsFrom DEF FnsOK
<1>6. ASSUME Text # << >>, trace' = Append(trace, Head(Text))
      PROVE  /\ \A t \in 1..Len(trace') : (t \in 1..Len(trace) /\ trace'[t] = trace[t]) \/ trace'[t] = Head(Text)
  <2>1. Len(trace') = Len(trace) + 1 /\ trace'[Len(trace) + 1] = Head(Text)
        /\ \A t \in 1..Len(trace) : trace'[t] = trace[t]
    BY <1>1, <1>2, <1>6, AppendProperties
  <2>2. \A t \in 1..Len(trace') : t \in 1..Len(trace) \/ t = Len(trace) + 1
    BY <1>1, <2>1
  <2>3. QED
    BY <2>1, <2>2
<1>7. CASE SetRoot
  <2>1. Text # << >> /\ Head(Text).op = "root" /\ fns' = fns /\ trace' = Append(trace, Head(Text))
    BY <1>7 DEF SetRoot, Executing
  <2>2. \A t \in 1..Len(trace'), n \in Name :
           n \in tree.defs[trace'[t].path] =>
             /\ trace'[t].op = "raw" => fns'[BareKey(n)] # NoPath
             /\ trace'[t].op = "body" => fns'[QualKey(trace'[t].path, n)] # NoPath
    BY <1>6, <2>1 DEF FnsOK
  <2>3. QED
    BY <1>1, <2>1, <2>2, FnsFrom DEF FnsOK
<1>8. CASE RunShellFile
  <2>1. /\ Text # << >> /\ Head(Text).op = "raw" /\ trace' = Append(trace, Head(Text))
        /\ fns' = [k \in Key |-> IF k[1] = Bare /\ k[2] \in tree.defs[Operand] THEN Operand ELSE fns[k]]
    BY <1>8 DEF RunShellFile, Executing
  <2>2. Operand \in LinkedShells /\ Operand \in Path /\ Operand # NoPath
    BY <1>2, <2>1, PathAssumption
  <2>3. \A k \in Key : fns'[k] = IF k[1] = Bare /\ k[2] \in tree.defs[Operand] THEN Operand ELSE fns[k]
    BY <2>1
  <2>4. \A k \in Key : fns'[k] # NoPath =>
           /\ k[2] \in tree.defs[fns'[k]]
           /\ IF k[1] = Bare THEN fns'[k] \in LinkedShells
              ELSE fns'[k] \in ModuleSet /\ PrefixOf[fns'[k]] = k[1]
    BY <2>2, <2>3 DEF FnsOK
  <2>5. \A k \in Key : fns[k] # NoPath => fns'[k] # NoPath
    BY <2>2, <2>3
  <2>6. \A n \in Name : n \in tree.defs[Operand] => fns'[BareKey(n)] # NoPath
    BY <1>3, <2>2, <2>3 DEF BareKey
  <2>7. ASSUME NEW t \in 1..Len(trace'), NEW n \in Name, n \in tree.defs[trace'[t].path]
        PROVE  /\ trace'[t].op = "raw" => fns'[BareKey(n)] # NoPath
               /\ trace'[t].op = "body" => fns'[QualKey(trace'[t].path, n)] # NoPath
    <3>1. CASE t \in 1..Len(trace) /\ trace'[t] = trace[t]
      <4>1. /\ trace[t].op = "raw" => fns[BareKey(n)] # NoPath
            /\ trace[t].op = "body" => fns[QualKey(trace[t].path, n)] # NoPath
        BY <2>7, <3>1 DEF FnsOK
      <4>2. QED
        BY <1>3, <1>4, <2>5, <3>1, <4>1
    <3>2. CASE trace'[t] = Head(Text)
      BY <1>2, <2>1, <2>6, <2>7, <3>2
    <3>3. QED
      BY <1>6, <2>1, <3>1, <3>2
  <2>8. QED
    BY <1>1, <2>4, <2>7, FnsFrom
<1>9. CASE RunBody
  <2>1. /\ Text # << >> /\ Head(Text).op = "body" /\ trace' = Append(trace, Head(Text))
        /\ fns' = [k \in Key |-> IF k[1] = PrefixOf[Operand] /\ k[2] \in tree.defs[Operand]
                                 THEN Operand ELSE fns[k]]
    BY <1>9 DEF RunBody, Executing
  <2>2. /\ Operand \in ModuleSet /\ Operand \in Path /\ Operand # NoPath
        /\ PrefixOf[Operand] # Bare
    BY <1>2, <2>1, PathAssumption, NameAssumption
  <2>3. \A k \in Key : fns'[k] = IF k[1] = PrefixOf[Operand] /\ k[2] \in tree.defs[Operand]
                                 THEN Operand ELSE fns[k]
    BY <2>1
  <2>4. \A k \in Key : fns'[k] # NoPath =>
           /\ k[2] \in tree.defs[fns'[k]]
           /\ IF k[1] = Bare THEN fns'[k] \in LinkedShells
              ELSE fns'[k] \in ModuleSet /\ PrefixOf[fns'[k]] = k[1]
    BY <2>2, <2>3 DEF FnsOK
  <2>5. \A k \in Key : fns[k] # NoPath => fns'[k] # NoPath
    BY <2>2, <2>3
  <2>6. \A n \in Name : n \in tree.defs[Operand] => fns'[QualKey(Operand, n)] # NoPath
    BY <1>3, <2>2, <2>3 DEF QualKey
  <2>7. ASSUME NEW t \in 1..Len(trace'), NEW n \in Name, n \in tree.defs[trace'[t].path]
        PROVE  /\ trace'[t].op = "raw" => fns'[BareKey(n)] # NoPath
               /\ trace'[t].op = "body" => fns'[QualKey(trace'[t].path, n)] # NoPath
    <3>1. CASE t \in 1..Len(trace) /\ trace'[t] = trace[t]
      <4>1. /\ trace[t].op = "raw" => fns[BareKey(n)] # NoPath
            /\ trace[t].op = "body" => fns[QualKey(trace[t].path, n)] # NoPath
        BY <2>7, <3>1 DEF FnsOK
      <4>2. QED
        BY <1>3, <1>4, <2>5, <3>1, <4>1
    <3>2. CASE trace'[t] = Head(Text)
      BY <1>2, <2>1, <2>6, <2>7, <3>2
    <3>3. QED
      BY <1>6, <2>1, <3>1, <3>2
  <2>8. QED
    BY <1>1, <2>4, <2>7, FnsFrom
<1>10. QED
  BY <1>5, <1>7, <1>8, <1>9
     DEF ShStep, EndOfFile, GuardReturns, GuardPasses, SourceModule, SourceShell

-----------------------------------------------------------------------------
(* The names that calls are rewritten to, and the files they mean.         *)

\* The import at place i of the list of p is one of n.
Means(p, i, n) ==
  LET imp == tree.imports[p][i]
  IN n \in imp.names /\ (IsShell(imp) \/ n \in tree.exports[imp.path])

LEMMA MeantIs ==
  ASSUME LoadTypeOK, NEW p \in Path, NEW n
  PROVE  LET N == Len(tree.imports[p])
             I == {i \in 1..N : Means(p, i, n)}
         IN  Meant(p, n) = IF I # {} THEN {tree.imports[p][i].path : i \in I}
                           ELSE {p} \cap {q \in Path : n \in tree.defs[q]}
<1> DEFINE s == tree.imports[p]
           I == {i \in 1..Len(s) : Means(p, i, n)}
           A == {imp \in ToSet(s) : n \in imp.names /\ (IsShell(imp) \/ n \in tree.exports[imp.path])}
<1>1. ToSet(s) = {s[i] : i \in 1..Len(s)}
  BY ImportsType DEF ToSet
<1>2. A = {s[i] : i \in I}
  BY <1>1 DEF Means
<1> HIDE DEF A, I
<1>3. {imp.path : imp \in A} = {s[i].path : i \in I}
  BY <1>2
<1>4. {s[i].path : i \in I} # {} <=> I # {}
  OBVIOUS
<1>5. Meant(p, n) = IF {imp.path : imp \in A} # {} THEN {imp.path : imp \in A}
                    ELSE {p} \cap {q \in Path : n \in tree.defs[q]}
  BY DEF Meant, A
<1>6. QED
  BY <1>3, <1>4, <1>5 DEF I

LEMMA CallMeans ==
  ASSUME CompilerInv, stage = "built", FilesAgree, NamesApart,
         NEW p \in ModuleSet, NEW n \in Name, Meant(p, n) # {}
  PROVE  \/ p \in Meant(p, n) /\ n \in tree.defs[p] /\ Callee(p, n) = QualKey(p, n)
         \/ \E q \in Meant(p, n) : /\ q \in ShellImports(p) /\ q \in LinkedShells /\ q \in Path
                                   /\ n \in tree.defs[q] /\ Callee(p, n) = BareKey(n)
         \/ \E q \in Meant(p, n) : /\ q \in BeshtImports(tree, p) /\ q \in ModuleSet
                                   /\ n \in tree.defs[q] /\ Callee(p, n) = QualKey(q, n)
<1> DEFINE s == tree.imports[p]
           N == Len(s)
           T == BindingImports(p, n)
           I == {i \in 1..N : Means(p, i, n)}
<1>1. p \in Path /\ LoadTypeOK /\ s \in Seq(Import) /\ N \in Nat /\ DOMAIN s = 1..N
  <2>1. p \in Path /\ LoadTypeOK
    BY Finally DEF CompilerInv
  <2>2. QED
    BY <2>1, ImportsType
<1>2. Meant(p, n) = IF I # {} THEN {s[i].path : i \in I}
                    ELSE {p} \cap {q \in Path : n \in tree.defs[q]}
  BY <1>1, MeantIs
<1>3. \A i \in 1..N :
        /\ s[i].path \in Path
        /\ IsShell(s[i]) => s[i].path \in ShellImports(p) /\ s[i].path \in LinkedShells
        /\ ~IsShell(s[i]) => s[i].path \in BeshtImports(tree, p) /\ s[i].path \in visited
  BY LinkedImport
<1>4. T = {i \in 1..N : Binding(p, i, n) # {}}
  BY <1>1 DEF BindingImports
<1>5. \A i \in 1..N : n \in tree.exports[s[i].path] => s[i].path \notin Decl /\ n \in tree.defs[s[i].path]
  BY <1>3 DEF FilesAgree
<1>6. \A i \in 1..N : Means(p, i, n) => i \in T
  BY <1>4, <1>5 DEF Means, Binding
\* An import that binds n means it, or else it is one of a declaration file.
<1>7. \A i \in T : i \in 1..N /\ n \in s[i].names /\ (Means(p, i, n) \/ (~IsShell(s[i]) /\ s[i].path \in Decl))
  BY <1>4 DEF Means, Binding
<1>8. DeclaredOnce(p)
  BY DEF NamesApart
<1>9. CASE I = {}
  <2>1. p \in Meant(p, n) /\ n \in tree.defs[p]
    BY <1>2, <1>9
  <2>2. T = {}
    BY <1>7, <1>8, <1>9, <2>1 DEF DeclaredOnce
  <2>3. Callee(p, n) = QualKey(p, n)
    BY <2>1, <2>2 DEF Callee
  <2>4. QED
    BY <2>1, <2>3
<1>10. CASE I # {}
  <2>1. PICK i \in 1..N : Means(p, i, n)
    BY <1>10
  <2>2. T # {} /\ T \in SUBSET (0..N)
    BY <1>4, <1>6, <2>1
  <2> DEFINE m == Max(T)
  <2>3. m \in T
    <3>1. \E x \in T : \A y \in T : x >= y
      <4> HIDE DEF T, N
      <4>1. QED
        BY <1>1, <2>2, GreatestIsOne
    <3>2. QED
      BY <3>1 DEF Max
  <2> HIDE DEF m
  <2>4. m \in 1..N /\ n \in s[m].names
    BY <1>7, <2>3
  <2>5. Means(p, m, n)
    <3> SUFFICES ASSUME ~IsShell(s[m]), s[m].path \in Decl PROVE FALSE
      BY <1>7, <2>3
    <3>1. i # m
      BY <1>5, <2>1, <2>4 DEF Means
    <3>2. s[m].names \cap s[i].names = {}
      BY <1>8, <2>1, <2>4, <3>1 DEF DeclaredOnce
    <3>3. QED
      BY <2>1, <2>4, <3>2 DEF Means
  <2>6. s[m].path \in Meant(p, n)
    BY <1>2, <1>10, <2>4, <2>5
  <2>7. Callee(p, n) = CHOOSE k \in Binding(p, m, n) : TRUE
    BY <2>2 DEF Callee, m
  <2>8. CASE IsShell(s[m])
    <3>1. Binding(p, m, n) = {BareKey(n)}
      BY <2>4, <2>8 DEF Binding
    <3>2. Callee(p, n) = BareKey(n)
      BY <2>7, <3>1
    <3>3. n \in tree.defs[s[m].path]
      BY <2>4, <2>8 DEF FilesAgree
    <3>4. QED
      BY <1>3, <2>4, <2>6, <2>8, <3>2, <3>3
  <2>9. CASE ~IsShell(s[m])
    <3>1. n \in tree.exports[s[m].path]
      BY <2>5, <2>9 DEF Means
    <3>2. s[m].path \notin Decl /\ n \in tree.defs[s[m].path]
      BY <1>5, <2>4, <3>1
    <3>3. Binding(p, m, n) = {QualKey(s[m].path, n)}
      BY <2>4, <2>9, <3>1, <3>2 DEF Binding
    <3>4. Callee(p, n) = QualKey(s[m].path, n)
      BY <2>7, <3>3
    <3>5. s[m].path \in ModuleSet /\ s[m].path \in BeshtImports(tree, p)
      BY <1>3, <2>4, <2>9, <3>2, Finally
    <3>6. QED
      BY <2>6, <3>2, <3>4, <3>5
  <2>10. QED
    BY <2>8, <2>9
<1>11. QED
  BY <1>9, <1>10

-----------------------------------------------------------------------------
(* A call is answered.                                                     *)

\* The imports of a module have run before it, import cycles excepted.
LEMMA NeededHasRun ==
  ASSUME OrderInv, OrderInv', Followed, ShStep, RunBody,
         NEW q \in CodeModules, q \in BeshtImports(tree, Operand), ~Reaches(tree, q, Operand),
         Operand \in Path
  PROVE  \E t \in 1..Len(trace) : trace[t] = Do("body", q)
<1> DEFINE k == Len(Bodies)
<1>1. /\ RunInv /\ RunInv' /\ CompilerInv /\ started /\ stage = "built" /\ UNCHANGED <<buildVars, started>>
      /\ frames # << >> /\ frames \in Seq(Seq(ScriptInstr)) /\ trace \in Seq(Instr) /\ k \in Nat
  BY ShStepInside, BodiesType DEF OrderInv, RunInv
<1>2. Text # << >> /\ Head(Text).op = "body" /\ trace' = Append(trace, Head(Text))
  BY DEF RunBody, Executing
<1>3. Head(Text) \in Instr /\ Head(Text).path = Operand
  <2>1. Head(Text) \in ScriptInstr
    BY <1>1, <1>2, RestShape
  <2>2. QED
    BY <2>1 DEF ScriptInstr, Operand
<1>4. Bodies' = Append(Bodies, Head(Text)) /\ Bodies \in Seq(Instr)
  BY <1>1, <1>2, <1>3, BodiesGrow, BodiesType
<1>5. Len(Bodies') = k + 1 /\ Bodies'[k + 1] = Head(Text)
  BY <1>3, <1>4, AppendProperties
<1>6. PICK m \in DOMAIN Needs : /\ Needs[m] \subseteq {BodyPaths[i] : i \in 1..Len(BodyPaths)}
                                /\ BodyPaths' = Append(BodyPaths, m)
  BY PromiseRuns DEF Promise!Run, Promise!Ran
<1>7. m = Operand
  <2>1. BodyPaths'[k + 1] = Operand
    BY <1>1, <1>3, <1>5 DEF BodyPaths
  <2>2. m \in Path
    BY <1>1, <1>6, Finally DEF Needs, CodeModules
  <2>3. BodyPaths \in Seq(Path) /\ Len(BodyPaths) = k
    <3>1. \A i \in 1..k : Bodies[i].path \in Path
      <4>1. \A i \in 1..k : Bodies[i] \in Instr
        BY <1>4, ElementOfSeq
      <4>2. QED
        BY <4>1 DEF Instr
    <3> DEFINE x == [i \in 1..k |-> Bodies[i].path]
    <3>2. BodyPaths = x
      BY DEF BodyPaths
    <3> HIDE DEF k
    <3>3. x \in Seq(Path) /\ Len(x) = k
      BY <1>1, <3>1, IsASeq
    <3>4. QED
      BY <3>2, <3>3
  <2>4. Append(BodyPaths, m)[k + 1] = m
    BY <2>2, <2>3, AppendProperties
  <2>5. QED
    BY <1>6, <2>1, <2>4
<1>8. q \in Needs[Operand]
  BY <1>1, <1>6, <1>7 DEF Needs
<1>9. PICK i \in 1..Len(BodyPaths) : BodyPaths[i] = q
  BY <1>6, <1>7, <1>8
<1>10. i \in 1..k /\ Bodies[i].path = q
  BY <1>1, <1>9 DEF BodyPaths
<1>11. /\ Bodies[i] \in BodyInstr
       /\ \E t \in 1..Len(trace) : Bodies[i] = trace[t]
  <2>1. Bodies = KeptAfter(trace, BodyInstr)[Len(trace)] /\ Len(trace) \in 0..Len(trace)
    BY <1>1 DEF Bodies, BodyInstr, Kept
  <2>2. i \in 1..Len(KeptAfter(trace, BodyInstr)[Len(trace)])
    BY <1>10, <2>1
  <2>3. /\ KeptAfter(trace, BodyInstr)[Len(trace)][i] \in BodyInstr
        /\ \E t \in 1..Len(trace) : KeptAfter(trace, BodyInstr)[Len(trace)][i] = trace[t]
    <3>1. PICK S : S = BodyInstr
      OBVIOUS
    <3>2. PICK x \in Seq(Instr) : x = trace
      BY <1>1
    <3>3. Len(x) \in 0..Len(x) /\ i \in 1..Len(KeptAfter(x, S)[Len(x)])
      BY <2>1, <2>2, <3>1, <3>2
    <3>4. /\ KeptAfter(x, S)[Len(x)][i] \in S
          /\ \E t \in 1..Len(x) : KeptAfter(x, S)[Len(x)][i] = x[t]
      BY <3>3, KeptIsIn
    <3>5. QED
      BY <3>1, <3>2, <3>4
  <2>4. QED
    BY <2>1, <2>3
<1>12. Bodies[i] = Do("body", q)
  BY <1>10, <1>11 DEF BodyInstr, Do
<1>13. QED
  BY <1>11, <1>12

\* The new call of n is answered.
LEMMA AnsweredCall ==
  ASSUME OrderInv, OrderInv', Followed, FilesAgree, NamesApart, LinkOK, FnsOK, FnsOK', ShStep, RunBody,
         NEW n \in Name, Meant(Operand, n) # {}
  PROVE  LET w == fns'[Callee(Operand, n)] IN
         \/ w \in Meant(Operand, n)
         \/ w = NoPath /\ \E q \in Meant(Operand, n) : Reaches(tree, q, Operand)
<1> DEFINE p == Operand
           M == Meant(p, n)
<1>1. /\ RunInv /\ CompilerInv /\ stage = "built" /\ UNCHANGED buildVars
      /\ frames # << >> /\ frames \in Seq(Seq(ScriptInstr)) /\ trace \in Seq(Instr) /\ Len(trace) \in Nat
  BY ShStepInside DEF OrderInv, RunInv
<1>2. /\ Text # << >> /\ Head(Text).op = "body" /\ trace' = Append(trace, Head(Text))
      /\ fns' = [k \in Key |-> IF k[1] = PrefixOf[p] /\ k[2] \in tree.defs[p] THEN p ELSE fns[k]]
  BY DEF RunBody, Executing
<1>3. /\ Head(Text) = Text[1] /\ 1 \in 1..Len(Text) /\ Head(Text) \in Instr /\ p = Head(Text).path
      /\ TextOK(Text, guards)
  <2>1. Head(Text) \in ScriptInstr /\ Head(Text) = Text[1] /\ 1 \in 1..Len(Text)
    BY <1>1, <1>2, RestShape, TextShape
  <2>2. TextOK(Text, guards)
    BY <1>1, TopIsOK
  <2>3. QED
    BY <2>1, <2>2 DEF ScriptInstr, Operand
<1>4. p \in ModuleSet /\ p \in Path /\ \A s \in ShellImports(p) : <<"sh", s>> \in guards
  <2>1. p \in ModuleSet
    BY <1>2, <1>3 DEF TextOK
  <2>2. ASSUME NEW s \in ShellImports(p) PROVE <<"sh", s>> \in guards
    <3>1. <<"sh", s>> \in guards \/ \E j \in 1..(1 - 1) : Text[j] = Do("shell", s)
      BY <1>2, <1>3, <2>2 DEF TextOK
    <3>2. QED
      BY <3>1
  <2>3. QED
    BY <1>1, <2>1, <2>2, Finally
<1> HIDE DEF p
<1>5. /\ Len(trace') = Len(trace) + 1
      /\ \A t \in 1..Len(trace) : t \in 1..Len(trace') /\ trace'[t] = trace[t]
  BY <1>1, <1>2, <1>3, AppendProperties
<1>6. tree' = tree /\ ModuleSet' = ModuleSet /\ LinkedShells' = LinkedShells
  BY <1>1 DEF buildVars, loadVars, ModuleSet, LinkedShells, ShellImports
<1>7. /\ BareKey(n) \in Key /\ BareKey(n)[1] = Bare /\ BareKey(n)[2] = n
      /\ \A q \in Path : QualKey(q, n) \in Key /\ QualKey(q, n)[1] = PrefixOf[q] /\ QualKey(q, n)[2] = n
                         /\ PrefixOf[q] # Bare
  BY NameAssumption DEF BareKey, QualKey, Key
<1>8. \A k \in Key : fns'[k] # NoPath =>
           /\ k[2] \in tree.defs[fns'[k]]
           /\ IF k[1] = Bare THEN fns'[k] \in LinkedShells
              ELSE fns'[k] \in ModuleSet /\ PrefixOf[fns'[k]] = k[1]
  BY <1>6 DEF FnsOK
<1>9. \A t \in 1..Len(trace) :
         n \in tree.defs[trace[t].path] =>
           /\ trace[t].op = "raw" => fns'[BareKey(n)] # NoPath
           /\ trace[t].op = "body" => fns'[QualKey(trace[t].path, n)] # NoPath
  BY <1>5, <1>6 DEF FnsOK, BareKey, QualKey
<1>10. CASE p \in M /\ n \in tree.defs[p] /\ Callee(p, n) = QualKey(p, n)
  <2>1. fns'[QualKey(p, n)] = p
    BY <1>2, <1>4, <1>7, <1>10
  <2>2. QED
    BY <1>10, <2>1 DEF p
<1>11. ASSUME NEW q \in M, q \in ShellImports(p), q \in LinkedShells, q \in Path,
              n \in tree.defs[q], Callee(p, n) = BareKey(n)
       PROVE  fns'[Callee(p, n)] = q
  <2>1. \E t \in 1..Len(trace) : trace[t] = Do("raw", q)
    <3>1. Entered(q)
      BY <1>4, <1>11 DEF LinkOK
    <3>2. Text # <<Do("raw", q)>>
      BY <1>2 DEF Do
    <3>3. QED
      BY <3>1, <3>2 DEF Entered, Text, Depth
  <2>2. PICK t \in 1..Len(trace) : trace[t] = Do("raw", q)
    BY <2>1
  <2>3. trace[t].op = "raw" /\ trace[t].path = q
    BY <2>2 DEF Do
  <2>4. fns'[BareKey(n)] # NoPath
    BY <1>9, <1>11, <2>3
  <2>5. fns'[BareKey(n)] \in LinkedShells /\ n \in tree.defs[fns'[BareKey(n)]]
    BY <1>7, <1>8, <2>4
  <2>6. QED
    BY <1>11, <2>5 DEF NamesApart
<1>12. ASSUME NEW q \in M, q \in BeshtImports(tree, p), q \in ModuleSet,
              n \in tree.defs[q], Callee(p, n) = QualKey(q, n)
       PROVE  fns'[Callee(p, n)] = q \/ (fns'[Callee(p, n)] = NoPath /\ Reaches(tree, q, p))
  <2>1. q \in Path
    BY <1>1, <1>12, Finally
  <2>2. CASE fns'[QualKey(q, n)] # NoPath
    <3>1. fns'[QualKey(q, n)] \in ModuleSet /\ PrefixOf[fns'[QualKey(q, n)]] = PrefixOf[q]
      BY <1>7, <1>8, <2>1, <2>2
    <3>2. QED
      BY <1>12, <3>1 DEF NamesApart
  <2>3. CASE fns'[QualKey(q, n)] = NoPath
    <3> SUFFICES ASSUME ~Reaches(tree, q, p) PROVE FALSE
      BY <1>12, <2>3
    <3>1. q \in CodeModules
      <4>1. tree.content[q] # "empty"
        BY <1>12 DEF FilesAgree
      <4>2. QED
        BY <1>12, <4>1 DEF CodeModules, EmittedInBundle
    <3>2. PICK t \in 1..Len(trace) : trace[t] = Do("body", q)
      BY <1>4, <1>12, <3>1, NeededHasRun DEF p
    <3>3. trace[t].op = "body" /\ trace[t].path = q
      BY <3>2 DEF Do
    <3>4. QED
      BY <1>9, <1>12, <2>3, <3>3
  <2>4. QED
    BY <2>2, <2>3
<1>13. \/ p \in M /\ n \in tree.defs[p] /\ Callee(p, n) = QualKey(p, n)
       \/ \E q \in M : /\ q \in ShellImports(p) /\ q \in LinkedShells /\ q \in Path
                       /\ n \in tree.defs[q] /\ Callee(p, n) = BareKey(n)
       \/ \E q \in M : /\ q \in BeshtImports(tree, p) /\ q \in ModuleSet
                       /\ n \in tree.defs[q] /\ Callee(p, n) = QualKey(q, n)
  <2>1. M # {}
    BY DEF p
  <2>2. QED
    BY <1>1, <1>4, <2>1, CallMeans
<1>14. QED
  BY <1>10, <1>11, <1>12, <1>13 DEF p

LEMMA CallsStep ==
  ASSUME OrderInv, OrderInv', Followed, FilesAgree, NamesApart, LinkOK, FnsOK, FnsOK', ShStep,
         CallsReachMeant
  PROVE  CallsReachMeant'
<1>1. UNCHANGED buildVars /\ RunInv /\ CompilerInv
  BY ShStepInside DEF OrderInv
<1>2. tree' = tree
  BY <1>1 DEF buildVars, loadVars
<1>3. SUFFICES ASSUME NEW c \in dispatched', Meant(c.caller, c.name) # {}
               PROVE  \/ c.owner \in Meant(c.caller, c.name)
                      \/ /\ c.owner = NoPath
                         /\ \E q \in Meant(c.caller, c.name) : Reaches(tree, q, c.caller)
  BY <1>2 DEF CallsReachMeant, Meant
<1>4. CASE c \in dispatched
  BY <1>3, <1>4 DEF CallsReachMeant
<1>5. CASE c \notin dispatched
  <2>1. RunBody
    BY <1>5 DEF ShStep, EndOfFile, SetRoot, GuardReturns, GuardPasses, SourceModule, SourceShell,
                RunShellFile
  <2>2. PICK n \in tree.calls[Operand] : c = [caller |-> Operand, name |-> n, owner |-> fns'[Callee(Operand, n)]]
    BY <1>5, <2>1 DEF RunBody
  <2>3. Operand \in Path
    <3>1. frames # << >> /\ frames \in Seq(Seq(ScriptInstr)) /\ Text # << >>
      BY <1>1, <2>1, ShStepInside DEF RunInv, RunBody, Executing
    <3>2. Head(Text) \in ScriptInstr
      BY <3>1, RestShape
    <3>3. QED
      BY <3>2 DEF ScriptInstr, Instr, Operand
  <2>4. n \in Name
    BY <1>1, <2>2, <2>3 DEF CompilerInv, LoadTypeOK, SourceTrees
  <2>5. c.caller = Operand /\ c.name = n /\ c.owner = fns'[Callee(Operand, n)]
    BY <2>2
  <2>6. QED
    BY <1>3, <2>1, <2>4, <2>5, AnsweredCall
<1>6. QED
  BY <1>4, <1>5

\* What holds while a program that is run as it was loaded runs.
CallInv == started /\ Followed =>
  LinkOK /\ FnsOK /\ (FilesAgree /\ NamesApart => CallsReachMeant)

LEMMA PremisesSame ==
  ASSUME UNCHANGED buildVars
  PROVE  FilesAgree' = FilesAgree /\ NamesApart' = NamesApart
<1>1. tree' = tree /\ ModuleSet' = ModuleSet
  BY DEF buildVars, loadVars, ModuleSet
<1>2. LinkedShells' = LinkedShells
  BY <1>1 DEF LinkedShells, ShellImports
<1>3. QED
  BY <1>1, <1>2 DEF FilesAgree, NamesApart, DeclaredOnce

LEMMA CallInvKept ==
  ASSUME OrderInv, OrderInv', CallInv, [ProgramNext]_programVars,
         ~started => fns = [k \in Key |-> NoPath]
  PROVE  CallInv'
<1>1. CompilerInv /\ RunInv
  BY DEF OrderInv
<1>2. CASE ShStep
  <2>1. started /\ UNCHANGED buildVars /\ (Followed' <=> Followed)
    BY <1>1, <1>2, ShStepInside, FollowedSame
  <2>2. FilesAgree' = FilesAgree /\ NamesApart' = NamesApart
    BY <2>1, PremisesSame
  <2>3. ASSUME Followed PROVE LinkOK' /\ FnsOK' /\ (FilesAgree /\ NamesApart => CallsReachMeant')
    <3>1. LinkOK /\ FnsOK /\ (FilesAgree /\ NamesApart => CallsReachMeant)
      BY <2>1, <2>3 DEF CallInv
    <3>2. LinkOK' /\ FnsOK'
      BY <1>1, <1>2, <3>1, LinkStep, FnsStep
    <3>3. QED
      BY <1>2, <2>3, <3>1, <3>2, CallsStep
  <2>4. QED
    BY <2>1, <2>2, <2>3 DEF CallInv
<1>3. CASE StartScript
  <2>1. /\ stage = "built" /\ ~started /\ UNCHANGED <<buildVars, guards, fns, trace, dispatched>>
        /\ guards = {} /\ trace = << >> /\ dispatched = {}
        /\ frames' = << IF mode = "bundle" THEN BundleText ELSE EntryText >>
        /\ fns = [k \in Key |-> NoPath]
    BY <1>1, <1>3 DEF StartScript, RunInv
  <2>2. CallsReachMeant'
    BY <2>1 DEF CallsReachMeant
  <2>3. FnsOK'
    <3>1. trace' = << >> /\ Len(trace') = 0 /\ \A k \in Key : fns'[k] = NoPath
      BY <2>1
    <3>2. QED
      BY <2>1, <3>1, FnsFrom
  <2>4. ASSUME Followed PROVE LinkOK'
    <3> DEFINE x == IF mode = "bundle" THEN BundleText ELSE EntryText
    <3>1. Fresh(x)
      <4>1. CASE mode = "bundle"
        BY <1>1, <2>1, <4>1, FreshBundle
      <4>2. CASE mode # "bundle"
        <5>1. Entry \in ModuleSet
          BY <1>1, <2>1, <2>4, <4>2, Finally DEF Followed, DeclsApart
        <5>2. QED
          BY <1>1, <2>1, <4>2, <5>1, FreshTexts DEF TextOf
      <4>3. QED
        BY <4>1, <4>2
    <3> HIDE DEF x
    <3>2. TextOK(x, guards') /\ Len(frames') = 1 /\ frames'[1] = x
      BY <2>1, <3>1, TextIsOK DEF x
    <3>3. \A i \in 1..Len(frames') : TextOK(frames'[i], guards')
      BY <3>2
    <3>4. QED
      BY <2>1, <3>3, LinkFrom
  <2>5. QED
    BY <2>1, <2>2, <2>3, <2>4, FollowedSame DEF CallInv
<1>4. CASE CompileStep \/ UNCHANGED programVars
  <2>1. UNCHANGED shVars /\ (started => UNCHANGED buildVars)
    BY <1>1, <1>4, BuiltStays DEF CompileStep, RunInv, programVars, shVars
  <2>2. CASE ~started
    BY <2>1, <2>2 DEF CallInv, shVars
  <2>3. CASE started
    <3>1. UNCHANGED programVars
      BY <2>1, <2>3 DEF programVars
    <3>2. /\ UNCHANGED <<buildVars, loadVars, tree, started, frames, guards, fns, trace, dispatched>>
          /\ ModuleSet' = ModuleSet
      BY <3>1 DEF programVars, shVars, buildVars, loadVars, ModuleSet
    <3>3. LinkedShells' = LinkedShells
      BY <3>2 DEF LinkedShells, ShellImports
    <3>4. LinkOK' = LinkOK
      BY <3>2, <3>3 DEF LinkOK, TextOK, Entered, ShellImports
    <3>5. FnsOK' = FnsOK
      BY <3>2, <3>3 DEF FnsOK
    <3>6. CallsReachMeant' = CallsReachMeant
      BY <3>2 DEF CallsReachMeant, Meant
    <3>7. QED
      BY <3>2, <3>4, <3>5, <3>6, PremisesSame, FollowedSame DEF CallInv
  <2>4. QED
    BY <2>2, <2>3
<1>5. QED
  BY <1>2, <1>3, <1>4 DEF ProgramNext

\* A call is answered by the function it means, whatever other modules define,
\* export or declare under its name, or, around an import cycle, not yet by any:
\* in every bundle and every split program that is run as it was loaded, if its
\* files agree and its names are apart (buildImportedMaps, rewriteExpr).
THEOREM ProgramCallsReachMeant ==
  ProgramSpec => [](Followed /\ FilesAgree /\ NamesApart => CallsReachMeant)
<1> DEFINE NoFns == ~started => fns = [k \in Key |-> NoPath]
<1>1. ProgramInit => NoFns /\ CallInv
  BY DEF ProgramInit, CallInv
<1>2. NoFns /\ OrderInv /\ [ProgramNext]_programVars => NoFns'
  <2> SUFFICES ASSUME NoFns, OrderInv, [ProgramNext]_programVars PROVE NoFns'
    OBVIOUS
  <2>1. CASE ShStep
    BY <2>1, ShStepInside DEF OrderInv
  <2>2. CASE StartScript
    BY <2>2 DEF StartScript
  <2>3. CASE CompileStep \/ UNCHANGED programVars
    BY <2>3 DEF CompileStep, programVars, shVars
  <2>4. QED
    BY <2>1, <2>2, <2>3 DEF ProgramNext
<1>3. NoFns /\ OrderInv /\ OrderInv' /\ CallInv /\ [ProgramNext]_programVars => CallInv'
  BY CallInvKept
<1>4. OrderInv /\ CallInv => (Followed /\ FilesAgree /\ NamesApart => CallsReachMeant)
  BY DEF OrderInv, CallInv, RunInv, CallsReachMeant
<1> HIDE DEF NoFns
<1>5. QED
  BY <1>1, <1>2, <1>3, <1>4, OrderInvHolds, PTL DEF ProgramSpec

=============================================================================
