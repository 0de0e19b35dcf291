----------------------------- MODULE OrderProofs ----------------------------
(***************************************************************************)
(* The order of the module list.  A load is a depth-first traversal of the *)
(* imports that leave a trace in the text of a script, and there is one    *)
(* such traversal only: each moment of it determines the next.  The moments *)
(* a load goes through are kept in a log that ends with its result; the    *)
(* proofs about sh follow that log.                                        *)
(***************************************************************************)
EXTENDS Program, LoaderProofs, ListProofs

\* The imports of p that its script sources, and how many of them are among
\* the first n imports.
Sourced(p) == Kept(tree.imports[p], SourcedImports)
SourcedAmong(p, n) == Len(KeptAfter(tree.imports[p], SourcedImports)[n])

\* A moment of the traversal: the file about to be visited, the files being
\* visited with the number of imports they are past, the files visited, and
\* those done.
Spot == [path : Path, done : Nat]
Moment == [call : Path \cup {NoPath}, stack : Seq(Spot), seen : SUBSET Path, ran : Seq(Path)]

Start == [call |-> Entry, stack |-> << >>, seen |-> {}, ran |-> << >>]

Innermost(m) == m.stack[Len(m.stack)]
Visiting(m) == m.call = NoPath /\ m.stack # << >>

\* The innermost file goes past an import; a file it imports is to be visited.
Pass(m, n) ==
  LET at == Innermost(m)
      imp == Sourced(at.path)[at.done + 1]
  IN /\ Visiting(m)
     /\ at.done < Len(Sourced(at.path))
     /\ Len(n.stack) = Len(m.stack)
     /\ Innermost(n) = [path |-> at.path, done |-> at.done + 1]
     /\ \A i \in 1..(Len(m.stack) - 1) : n.stack[i] = m.stack[i]
     /\ n.call = IF IsShell(imp) THEN NoPath ELSE imp.path
     /\ n.seen = m.seen /\ n.ran = m.ran

Return(m, n) == m.call \in m.seen /\ n = [m EXCEPT !.call = NoPath]

Enter(m, n) ==
  /\ m.call # NoPath /\ m.call \notin m.seen
  /\ n = [call |-> NoPath, stack |-> Append(m.stack, [path |-> m.call, done |-> 0]),
          seen |-> m.seen \cup {m.call}, ran |-> m.ran]

Finish(m, n) ==
  /\ Visiting(m)
  /\ Innermost(m).done = Len(Sourced(Innermost(m).path))
  /\ n = [call |-> NoPath, stack |-> SubSeq(m.stack, 1, Len(m.stack) - 1),
          seen |-> m.seen, ran |-> Append(m.ran, Innermost(m).path)]

Onward(m, n) == Pass(m, n) \/ Return(m, n) \/ Enter(m, n) \/ Finish(m, n)

IsLog(h) ==
  /\ h \in Seq(Moment) /\ h # << >> /\ h[1] = Start
  /\ \A i \in 1..(Len(h) - 1) : Onward(h[i], h[i + 1])

\* A moment that the load has left behind it, or is at.
Behind(m) ==
  /\ \A i \in 1..Len(m.stack) : m.stack[i].path \in visited \ Decl
  /\ Len(m.ran) <= Len(modules)
  /\ \A i \in 1..Len(m.ran) : m.ran[i] = modules[i]

\* The moment the load is at, declaration files left out.
Present(m) ==
  /\ m.call = IF call \in Decl THEN NoPath ELSE call
  /\ m.seen = visited \ Decl
  /\ m.ran = modules
  /\ Len(m.stack) <= Len(stack)
  /\ \A i \in 1..Len(m.stack) :
       /\ stack[i].path \notin Decl
       /\ m.stack[i].path = stack[i].path
       /\ m.stack[i].done = SourcedAmong(stack[i].path, stack[i].done)
  /\ \A i \in (Len(m.stack) + 1)..Len(stack) : stack[i].path \in Decl

\* The entry is a module, and declaration files load none.
DeclsApart ==
  /\ Entry \notin Decl
  /\ \A p \in visited \cap Decl : BeshtImports(tree, p) \subseteq Decl

LogOK ==
  DeclsApart =>
    \E h : IsLog(h) /\ Present(h[Len(h)]) /\ \A i \in 1..Len(h) : Behind(h[i])

-----------------------------------------------------------------------------
(* Imports that are sourced. *)

LEMMA ImportsType ==
  ASSUME LoadTypeOK, NEW p \in Path
  PROVE  tree.imports[p] \in Seq(Import) /\ Len(tree.imports[p]) \in Nat
  BY DEF LoadTypeOK, SourceTrees

LEMMA SourcedSteps ==
  ASSUME LoadTypeOK, NEW p \in Path
  PROVE  /\ Sourced(p) \in Seq(Import)
         /\ Len(Sourced(p)) \in Nat
         /\ SourcedAmong(p, 0) = 0
         /\ SourcedAmong(p, Len(tree.imports[p])) = Len(Sourced(p))
         /\ \A n \in 0..Len(tree.imports[p]) : SourcedAmong(p, n) \in Nat
<1> DEFINE s == tree.imports[p]
           N == Len(s)
           k == KeptAfter(s, SourcedImports)
<1>1. s \in Seq(Import) /\ N \in Nat
  BY ImportsType
<1> HIDE DEF s
<1>2. k \in [0..N -> Seq(Import)] /\ k[0] = << >>
  BY <1>1, KeptSteps
<1>3. Sourced(p) = k[N]
  BY DEF Sourced, Kept, s
<1>4. \A n : SourcedAmong(p, n) = Len(k[n])
  BY DEF SourcedAmong, s
<1> HIDE DEF k, N
<1>5. k[N] \in Seq(Import) /\ \A n \in 0..N : k[n] \in Seq(Import)
  BY <1>1, <1>2
<1>6. SourcedAmong(p, 0) = 0 /\ SourcedAmong(p, N) = Len(Sourced(p))
  BY <1>2, <1>3, <1>4
<1>7. /\ Sourced(p) \in Seq(Import)
      /\ Len(Sourced(p)) \in Nat
      /\ \A n \in 0..N : SourcedAmong(p, n) \in Nat
  BY <1>3, <1>4, <1>5
<1>8. N = Len(tree.imports[p])
  BY DEF N, s
<1>9. QED
  BY <1>6, <1>7, <1>8

\* Past import n: it was sourced, and stood at its place, or it was not.
LEMMA SourcedNext ==
  ASSUME LoadTypeOK, NEW p \in Path, NEW n \in 1..Len(tree.imports[p])
  PROVE  LET imp == tree.imports[p][n]
             k == SourcedAmong(p, n - 1)
         IN  /\ imp \in Import
             /\ imp \in SourcedImports =>
                  SourcedAmong(p, n) = k + 1 /\ k < Len(Sourced(p)) /\ Sourced(p)[k + 1] = imp
             /\ imp \notin SourcedImports => SourcedAmong(p, n) = k
<1> DEFINE s == tree.imports[p]
           K == KeptAfter(s, SourcedImports)
           l == Len(K[n - 1])
<1>1. s \in Seq(Import) /\ n \in 1..Len(s)
  BY ImportsType
<1>2. s[n] \in Import /\ n - 1 \in 0..Len(s)
  BY <1>1, ElementOfSeq
<1>3. Sourced(p) = Kept(s, SourcedImports) /\ \A i : SourcedAmong(p, i) = Len(K[i])
  BY DEF Sourced, SourcedAmong
<1> HIDE DEF s
<1>4. /\ K[n - 1] \in Seq(Import)
      /\ K[n] = IF s[n] \in SourcedImports THEN Append(K[n - 1], s[n]) ELSE K[n - 1]
  BY <1>1, <1>2, KeptSteps
<1>5. s[n] \in SourcedImports => l + 1 \in 1..Len(Kept(s, SourcedImports)) /\ Kept(s, SourcedImports)[l + 1] = s[n]
  BY <1>1, KeptPlace
<1> HIDE DEF K
<1>6. l \in Nat /\ (s[n] \in SourcedImports => Len(K[n]) = l + 1)
  BY <1>2, <1>4, AppendProperties
<1>7. Kept(s, SourcedImports) = Sourced(p) /\ Len(Sourced(p)) \in Nat
  BY <1>3, SourcedSteps
<1>8. SourcedAmong(p, n - 1) = l /\ s = tree.imports[p]
  BY <1>3 DEF s
<1> HIDE DEF l
<1>9. s[n] \in SourcedImports =>
        SourcedAmong(p, n) = l + 1 /\ l < Len(Sourced(p)) /\ Sourced(p)[l + 1] = s[n]
  BY <1>3, <1>5, <1>6, <1>7
<1>10. s[n] \notin SourcedImports => SourcedAmong(p, n) = l
  BY <1>3, <1>4 DEF l
<1>11. QED
  BY <1>2, <1>8, <1>9, <1>10

-----------------------------------------------------------------------------
(* The log grows with the load. *)

LEMMA LogGrows ==
  ASSUME NEW h, IsLog(h), NEW n \in Moment, Onward(h[Len(h)], n)
  PROVE  \E g : /\ IsLog(g) /\ g[Len(g)] = n
               /\ \A i \in 1..Len(g) : g[i] = n \/ (i \in 1..Len(h) /\ g[i] = h[i])
<1> DEFINE g == Append(h, n)
           l == Len(h)
<1>1. h \in Seq(Moment) /\ l \in Nat /\ l > 0
  BY EmptySeq DEF IsLog
<1>2. g \in Seq(Moment) /\ Len(g) = l + 1 /\ g[l + 1] = n /\ \A i \in 1..l : g[i] = h[i]
  BY <1>1, AppendProperties
<1> HIDE DEF g
<1>3. \A i \in 1..(l + 1) : g[i] = n \/ (i \in 1..l /\ g[i] = h[i])
  <2>1. \A i \in 1..(l + 1) : i = l + 1 \/ i \in 1..l
    BY <1>1
  <2>2. QED
    BY <1>2, <2>1
<1>4. \A i \in 1..l : Onward(g[i], g[i + 1])
  <2>1. \A i \in 1..l : i = l \/ (i \in 1..(l - 1) /\ i + 1 \in 1..l)
    BY <1>1
  <2>2. Onward(g[l], g[l + 1])
    BY <1>1, <1>2
  <2>3. \A i \in 1..(l - 1) : Onward(h[i], h[i + 1])
    BY DEF IsLog
  <2>4. ASSUME NEW i \in 1..l PROVE Onward(g[i], g[i + 1])
    <3>1. CASE i = l
      BY <2>2, <3>1
    <3>2. CASE i # l
      <4>1. i \in 1..(l - 1) /\ i \in 1..l /\ i + 1 \in 1..l
        BY <2>1, <3>2
      <4>2. g[i] = h[i] /\ g[i + 1] = h[i + 1]
        BY <1>2, <4>1
      <4>3. QED
        BY <2>3, <4>1, <4>2
    <3>3. QED
      BY <3>1, <3>2
  <2>5. QED
    BY <2>4
<1>5. g[1] = Start /\ g # << >>
  BY <1>1, <1>2, EmptySeq DEF IsLog
<1>6. IsLog(g)
  BY <1>1, <1>2, <1>4, <1>5 DEF IsLog
<1>7. QED
  BY <1>2, <1>3, <1>6

\* What is logged of the load does not change.
LEMMA LogStays ==
  ASSUME LoadTypeOK, LoadTypeOK', tree' = tree, visited \subseteq visited',
         Len(modules) <= Len(modules'), \A i \in 1..Len(modules) : modules'[i] = modules[i]
  PROVE  /\ \A h : IsLog(h) => IsLog(h)'
         /\ \A m \in Moment : Behind(m) => Behind(m)'
<1>1. ASSUME NEW m, NEW n, Onward(m, n) PROVE Onward(m, n)'
  BY <1>1 DEF Onward, Pass, Return, Enter, Finish, Sourced
<1>2. \A h : IsLog(h) => IsLog(h)'
  BY <1>1 DEF IsLog
<1>3. ASSUME NEW m \in Moment, Behind(m) PROVE Behind(m)'
  <2>1. Len(m.ran) \in Nat /\ Len(modules) \in Nat /\ Len(modules') \in Nat
    BY DEF Moment, LoadTypeOK
  <2>2. QED
    BY <1>3, <2>1 DEF Behind
<1>4. QED
  BY <1>2, <1>3

LEMMA PresentIsBehind ==
  ASSUME LoadTypeOK', StackOK', NEW m \in Moment, Present(m)'
  PROVE  Behind(m)'
<1>1. Len(m.stack) \in Nat /\ Len(stack') \in Nat /\ Len(modules') \in Nat
  BY DEF Moment, LoadTypeOK
<1>2. \A i \in 1..Len(m.stack) : m.stack[i].path = stack'[i].path /\ stack'[i].path \notin Decl
  BY DEF Present
<1>3. \A i \in 1..Len(m.stack) : i \in 1..Len(stack')
  BY <1>1 DEF Present
<1>4. QED
  BY <1>1, <1>2, <1>3 DEF Behind, Present, StackOK

-----------------------------------------------------------------------------
(* Each step of the load leaves the traversal where it is, or takes it on. *)

Moves(m) == \E n \in Moment : (n = m \/ Onward(m, n)) /\ Present(n)'

\* What a declaration file asks for is a declaration file, so the files above
\* one on the stack are all declaration files.
LEMMA DeclChild ==
  ASSUME LoadTypeOK, StackOK, CallOK, DeclsApart, stack # << >>, Top.path \in Decl
  PROVE  /\ \A q \in LoadedBy(tree, Top.path) : q \in Decl
         /\ call # NoPath => call \in Decl
<1>1. Top.path \in visited \cap Decl /\ Top.path # Entry
  BY StackTop DEF LoadTypeOK, StackOK, DeclsApart
<1>2. \A q \in LoadedBy(tree, Top.path) : q \in Decl
  BY <1>1 DEF LoadedBy, DeclsApart
<1>3. QED
  BY <1>2 DEF CallOK

LEMMA PresentTop ==
  ASSUME LoadTypeOK, NEW m \in Moment, Present(m), stack # << >>
  PROVE  /\ Top.path \in Decl => Len(m.stack) < Len(stack)
         /\ Top.path \notin Decl =>
              /\ Len(m.stack) = Len(stack) /\ m.stack # << >>
              /\ Innermost(m) \in Spot
              /\ Innermost(m).path = Top.path
              /\ Innermost(m).done = SourcedAmong(Top.path, Top.done)
<1>1. Len(m.stack) \in Nat /\ m.stack \in Seq(Spot) /\ Len(stack) \in Nat \ {0} /\ Top = stack[Len(stack)]
  BY StackTop DEF Moment, LoadTypeOK
<1>2. Top.path \in Decl => Len(m.stack) < Len(stack)
  <2>1. CASE Len(m.stack) = Len(stack)
    <3>1. Len(stack) \in 1..Len(m.stack)
      BY <1>1, <2>1
    <3>2. QED
      BY <1>1, <3>1 DEF Present
  <2>2. CASE Len(m.stack) # Len(stack)
    BY <1>1, <2>2 DEF Present
  <2>3. QED
    BY <2>1, <2>2
<1>3. Top.path \notin Decl => Len(m.stack) = Len(stack)
  <2>1. CASE Len(m.stack) = Len(stack)
    BY <2>1
  <2>2. CASE Len(m.stack) # Len(stack)
    <3>1. Len(stack) \in (Len(m.stack) + 1)..Len(stack)
      BY <1>1, <2>2 DEF Present
    <3>2. QED
      BY <1>1, <3>1 DEF Present
  <2>3. QED
    BY <2>1, <2>2
<1>4. QED
  BY <1>1, <1>2, <1>3, EmptySeq DEF Present, Innermost

\* The innermost frame moves on, and asks for nothing that leaves a trace.
LEMMA StandsStill ==
  ASSUME LoadTypeOK, NEW m \in Moment, Present(m), stack # << >>,
         NEW fr \in Frame, fr.path = Top.path, stack' = SetTop(fr),
         Top.path \in Decl \/ SourcedAmong(Top.path, fr.done) = SourcedAmong(Top.path, Top.done),
         call = NoPath, call' = NoPath \/ call' \in Decl,
         UNCHANGED <<tree, visited, modules>>
  PROVE  Moves(m)
<1> DEFINE l == Len(stack)
           d == Len(m.stack)
<1>1. d \in Nat /\ l \in Nat \ {0} /\ Top = stack[l]
  BY StackTop DEF Moment, LoadTypeOK
<1>2. Len(stack') = l /\ stack'[l] = fr /\ \A i \in 1..(l - 1) : stack'[i] = stack[i]
  BY SetTopShape DEF LoadTypeOK
<1>3. \A p, n : SourcedAmong(p, n)' = SourcedAmong(p, n)
  BY DEF SourcedAmong
<1>4. \A i \in 1..l : stack'[i].path = stack[i].path
  BY <1>1, <1>2
<1>5. d <= l /\ \A i \in (d + 1)..l : stack[i].path \in Decl
  BY DEF Present
<1>6. ASSUME NEW i \in 1..d
      PROVE  /\ stack'[i].path \notin Decl
             /\ m.stack[i].path = stack'[i].path
             /\ m.stack[i].done = SourcedAmong(stack'[i].path, stack'[i].done)
  <2>1. /\ i \in 1..l /\ stack[i].path \notin Decl
        /\ m.stack[i].path = stack[i].path
        /\ m.stack[i].done = SourcedAmong(stack[i].path, stack[i].done)
    BY <1>1, <1>5 DEF Present
  <2>2. CASE i = l
    BY <1>1, <1>2, <2>1, <2>2
  <2>3. CASE i # l
    BY <1>1, <1>2, <2>1, <2>3
  <2>4. QED
    BY <2>2, <2>3
<1>7. m.call = NoPath /\ NoPath \notin Decl
  BY PathAssumption DEF Present
<1>8. m.call = IF call' \in Decl THEN NoPath ELSE call'
  BY <1>7
<1>9. Present(m)'
  <2>1. m.seen = visited' \ Decl /\ m.ran = modules'
    BY DEF Present
  <2>2. d <= Len(stack')
    BY <1>2, <1>5
  <2>3. \A i \in (d + 1)..Len(stack') : stack'[i].path \in Decl
    BY <1>1, <1>2, <1>4, <1>5
  <2>4. QED
    BY <1>3, <1>6, <1>8, <2>1, <2>2, <2>3 DEF Present
<1>10. QED
  BY <1>9 DEF Moves

\* The innermost frame goes past an import that is sourced.
LEMMA PassesOn ==
  ASSUME LoadTypeOK, LoadTypeOK', NEW m \in Moment, Present(m), stack # << >>, Top.path \notin Decl,
         NEW fr \in Frame, fr.path = Top.path, stack' = SetTop(fr),
         NEW k, k = SourcedAmong(Top.path, Top.done), k \in Nat, k < Len(Sourced(Top.path)),
         SourcedAmong(Top.path, fr.done) = k + 1,
         call = NoPath, call' \notin Decl,
         call' = IF IsShell(Sourced(Top.path)[k + 1]) THEN NoPath ELSE Sourced(Top.path)[k + 1].path,
         UNCHANGED <<tree, visited, modules>>
  PROVE  Moves(m)
<1> DEFINE l == Len(stack)
<1>1. /\ l \in Nat \ {0} /\ Top = stack[l] /\ Top \in Frame
      /\ m.stack \in Seq(Spot) /\ m.seen \in SUBSET Path /\ m.ran \in Seq(Path)
      /\ Len(m.stack) = l /\ m.stack # << >>
      /\ Innermost(m).path = Top.path /\ Innermost(m).done = k
  BY StackTop, PresentTop DEF Moment, LoadTypeOK
<1>2. [path |-> Top.path, done |-> k + 1] \in Spot
  BY <1>1 DEF Spot, Frame
<1>3. PICK s \in Seq(Spot) : /\ Len(s) = l /\ s[l] = [path |-> Top.path, done |-> k + 1]
                             /\ \A i \in 1..(l - 1) : s[i] = m.stack[i]
  <2> DEFINE x == [m.stack EXCEPT ![l] = [path |-> Top.path, done |-> k + 1]]
  <2>1. x \in Seq(Spot) /\ Len(x) = l /\ x[l] = [path |-> Top.path, done |-> k + 1]
        /\ \A i \in 1..(l - 1) : x[i] = m.stack[i]
    BY <1>1, <1>2, ExceptSeq
  <2>2. QED
    BY <2>1
<1>4. PICK n \in Moment : n = [call |-> call', stack |-> s, seen |-> m.seen, ran |-> m.ran]
  BY <1>1, <1>3 DEF Moment, LoadTypeOK
<1>5. m.call = NoPath
  BY PathAssumption DEF Present
<1>6. Pass(m, n)
  <2>1. Visiting(m) /\ Innermost(m).done < Len(Sourced(Innermost(m).path))
    BY <1>1, <1>5 DEF Visiting
  <2>2. Len(n.stack) = Len(m.stack) /\ \A i \in 1..(Len(m.stack) - 1) : n.stack[i] = m.stack[i]
    BY <1>1, <1>3, <1>4
  <2>3. Innermost(n) = [path |-> Innermost(m).path, done |-> Innermost(m).done + 1]
    BY <1>1, <1>3, <1>4 DEF Innermost
  <2>4. n.call = IF IsShell(Sourced(Innermost(m).path)[Innermost(m).done + 1]) THEN NoPath
                 ELSE Sourced(Innermost(m).path)[Innermost(m).done + 1].path
    BY <1>1, <1>4
  <2>5. n.seen = m.seen /\ n.ran = m.ran
    BY <1>4
  <2>6. QED
    BY <2>1, <2>2, <2>3, <2>4, <2>5 DEF Pass
<1>7. Len(stack') = l /\ stack'[l] = fr /\ \A i \in 1..(l - 1) : stack'[i] = stack[i]
  BY <1>1, SetTopShape DEF LoadTypeOK
<1>8. \A p, x : SourcedAmong(p, x)' = SourcedAmong(p, x)
  BY DEF SourcedAmong
<1>9. ASSUME NEW i \in 1..l
      PROVE  /\ stack'[i].path \notin Decl
             /\ s[i].path = stack'[i].path
             /\ s[i].done = SourcedAmong(stack'[i].path, stack'[i].done)
  <2>1. CASE i = l
    BY <1>1, <1>3, <1>7, <2>1
  <2>2. CASE i # l
    <3>1. i \in 1..(l - 1) /\ i \in 1..Len(m.stack)
      BY <1>1, <2>2
    <3>2. QED
      BY <1>3, <1>7, <3>1 DEF Present
  <2>3. QED
    BY <2>1, <2>2
<1>10. Present(n)'
  <2>1. n.call = IF call' \in Decl THEN NoPath ELSE call'
    BY <1>4
  <2>2. n.seen = visited' \ Decl /\ n.ran = modules'
    BY <1>4 DEF Present
  <2>3. Len(n.stack) = l /\ Len(n.stack) <= Len(stack') /\ (Len(n.stack) + 1)..Len(stack') = {}
    BY <1>1, <1>3, <1>4, <1>7
  <2>4. n.stack = s
    BY <1>4
  <2>5. QED
    BY <1>8, <1>9, <2>1, <2>2, <2>3, <2>4 DEF Present
<1>11. QED
  BY <1>4, <1>6, <1>10 DEF Moves, Onward

\* A new file is visited.
LEMMA EntersNew ==
  ASSUME LoadTypeOK, LoadTypeOK', StackOK, CallOK, DeclsApart, EnterNew, NEW m \in Moment, Present(m)
  PROVE  Moves(m)
<1> DEFINE l == Len(stack)
           d == Len(m.stack)
           fr == [path |-> call, phase |-> "stdlib", done |-> 0]
<1>1. call \in Path /\ fr \in Frame /\ NoPath \notin Decl
  BY PathAssumption DEF EnterNew, LoadTypeOK, Frame, Phase
<1>2. /\ Len(stack') = l + 1 /\ stack'[l + 1] = fr /\ l \in Nat
      /\ \A i \in 1..l : stack'[i] = stack[i]
  BY <1>1, PushShape DEF EnterNew, LoadTypeOK
<1>3. /\ m.stack \in Seq(Spot) /\ m.seen \in SUBSET Path /\ m.ran \in Seq(Path)
      /\ d \in Nat /\ d <= l
  BY DEF Moment, Present
<1>4. \A p, x : SourcedAmong(p, x)' = SourcedAmong(p, x)
  BY DEF SourcedAmong, EnterNew
<1>5. tree' = tree /\ modules' = modules /\ call' = NoPath /\ visited' = visited \cup {call}
  BY DEF EnterNew
<1>6. \A i \in 1..d : /\ stack'[i].path \notin Decl
                      /\ m.stack[i].path = stack'[i].path
                      /\ m.stack[i].done = SourcedAmong(stack'[i].path, stack'[i].done)
  BY <1>2, <1>3 DEF Present
<1>7. CASE call \in Decl
  <2>1. m.call = NoPath
    BY <1>7 DEF Present
  <2>2. \A i \in (d + 1)..Len(stack') : stack'[i].path \in Decl
    <3>1. \A i \in (d + 1)..l : stack'[i].path \in Decl
      BY <1>2, <1>3 DEF Present
    <3>2. stack'[l + 1].path \in Decl
      BY <1>2, <1>7
    <3>3. \A i \in (d + 1)..(l + 1) : i \in (d + 1)..l \/ i = l + 1
      BY <1>2, <1>3
    <3>4. QED
      BY <1>2, <3>1, <3>2, <3>3
  <2>3. d <= Len(stack') /\ m.seen = visited' \ Decl /\ m.ran = modules'
    BY <1>2, <1>3, <1>5, <1>7 DEF Present
  <2>4. m.call = IF call' \in Decl THEN NoPath ELSE call'
    BY <1>5, <2>1
  <2>5. Present(m)'
    BY <1>4, <1>6, <2>2, <2>3, <2>4 DEF Present
  <2>6. QED
    BY <2>5 DEF Moves
<1>8. CASE call \notin Decl
  <2>1. d = l
    <3>1. CASE stack = << >>
      BY <1>3, <3>1
    <3>2. CASE stack # << >>
      <4>1. Top.path \notin Decl
        BY <1>1, <1>8, <3>2, DeclChild DEF EnterNew
      <4>2. QED
        BY <3>2, <4>1, PresentTop
    <3>3. QED
      BY <3>1, <3>2
  <2>2. [path |-> call, done |-> 0] \in Spot
    BY <1>1 DEF Spot
  <2>3. m.call = call /\ call # NoPath /\ call \notin visited /\ m.seen = visited \ Decl
    BY <1>1, <1>8 DEF Present, EnterNew
  <2>4. PICK s \in Seq(Spot) : s = Append(m.stack, [path |-> m.call, done |-> 0])
    BY <1>3, <2>2, <2>3, AppendProperties
  <2>5. PICK n \in Moment : n = [call |-> NoPath, stack |-> s, seen |-> m.seen \cup {m.call}, ran |-> m.ran]
    BY <1>1, <1>3, <2>3 DEF Moment
  <2>6. Enter(m, n)
    BY <2>3, <2>4, <2>5 DEF Enter
  <2>7. SourcedAmong(call, 0) = 0
    BY <1>1, SourcedSteps
  <2>8. /\ Len(s) = l + 1 /\ s[l + 1].path = call /\ s[l + 1].done = 0
        /\ \A i \in 1..l : s[i] = m.stack[i]
    BY <1>3, <2>1, <2>2, <2>3, <2>4, AppendProperties
  <2>9. ASSUME NEW i \in 1..(l + 1)
        PROVE  /\ stack'[i].path \notin Decl
               /\ s[i].path = stack'[i].path
               /\ s[i].done = SourcedAmong(stack'[i].path, stack'[i].done)
    <3>1. CASE i = l + 1
      BY <1>2, <1>4, <1>8, <2>7, <2>8, <3>1
    <3>2. CASE i # l + 1
      BY <1>2, <1>4, <1>6, <2>1, <2>8, <3>2
    <3>3. QED
      BY <3>1, <3>2
  <2>10. n.seen = visited' \ Decl /\ n.ran = modules' /\ n.call = IF call' \in Decl THEN NoPath ELSE call'
    BY <1>1, <1>5, <1>8, <2>3, <2>5 DEF Present
  <2>11. n.stack = s /\ Len(n.stack) <= Len(stack') /\ (Len(n.stack) + 1)..Len(stack') = {} /\ Len(s) = l + 1
    BY <1>2, <2>5, <2>8
  <2>12. Present(n)'
    BY <1>4, <2>9, <2>10, <2>11 DEF Present
  <2>13. QED
    BY <2>6, <2>12 DEF Moves, Onward
<1>9. QED
  BY <1>7, <1>8

\* A file visited before is not visited again.
LEMMA EntersVisited ==
  ASSUME LoadTypeOK, EnterVisited, NEW m \in Moment, Present(m)
  PROVE  Moves(m)
<1> DEFINE n == [m EXCEPT !.call = NoPath]
<1>1. /\ n \in Moment /\ n.call = NoPath /\ n.stack = m.stack /\ n.seen = m.seen /\ n.ran = m.ran
  BY DEF Moment
<1>2. NoPath \notin Decl
  BY PathAssumption
<1>3. UNCHANGED <<tree, stack, visited, modules>> /\ call' = NoPath
  BY DEF EnterVisited
<1>4. \A p, x : SourcedAmong(p, x)' = SourcedAmong(p, x)
  BY <1>3 DEF SourcedAmong
<1>5. Present(n)'
  <2> HIDE DEF n
  <2>1. QED
    BY <1>1, <1>2, <1>3, <1>4 DEF Present
<1>6. CASE call \in Decl
  <2>1. n = m
    BY <1>6 DEF Present, Moment
  <2>2. QED
    BY <1>1, <1>5, <2>1 DEF Moves
<1>7. CASE call \notin Decl
  <2>1. m.call \in m.seen
    BY <1>7 DEF Present, EnterVisited
  <2>2. Return(m, n)
    BY <2>1 DEF Return
  <2>3. QED
    BY <1>1, <1>5, <2>2 DEF Moves, Onward
<1>8. QED
  BY <1>6, <1>7

\* A file is done.
LEMMA Finishes ==
  ASSUME LoadTypeOK, LoadTypeOK', StackOK, FinishModule, NEW m \in Moment, Present(m)
  PROVE  Moves(m)
<1> DEFINE l == Len(stack)
           d == Len(m.stack)
<1>1. /\ l \in Nat \ {0} /\ Top = stack[l] /\ Top \in Frame /\ stack # << >>
      /\ m.stack \in Seq(Spot) /\ m.seen \in SUBSET Path /\ m.ran \in Seq(Path)
      /\ d \in Nat /\ d <= l
  BY StackTop DEF Moment, LoadTypeOK, FinishModule, AtEnd, Working, Present
<1>2. Len(stack') = l - 1 /\ \A i \in 1..(l - 1) : stack'[i] = stack[i]
  BY <1>1, PopShape DEF FinishModule, LoadTypeOK
<1>3. \A p, x : SourcedAmong(p, x)' = SourcedAmong(p, x)
  BY DEF SourcedAmong, FinishModule
<1>4. /\ tree' = tree /\ visited' = visited /\ call' = call /\ call = NoPath
      /\ modules' = AppendModule(Top.path)
  BY DEF FinishModule, AtEnd, Working
<1>5. m.call = NoPath /\ NoPath \notin Decl
  BY <1>4, PathAssumption DEF Present
<1>6. \A i \in 1..d : i <= l - 1 =>
        /\ stack'[i].path \notin Decl
        /\ m.stack[i].path = stack'[i].path
        /\ m.stack[i].done = SourcedAmong(stack'[i].path, stack'[i].done)
  BY <1>1, <1>2 DEF Present
<1>7. CASE Top.path \in Decl
  <2>1. d <= l - 1
    BY <1>1, <1>7, PresentTop
  <2>2. \A i \in (d + 1)..(l - 1) : stack'[i].path \in Decl
    BY <1>1, <1>2 DEF Present
  <2>3. m.seen = visited' \ Decl /\ m.ran = modules' /\ m.call = IF call' \in Decl THEN NoPath ELSE call'
    BY <1>4, <1>5, <1>7 DEF Present, AppendModule
  <2>4. Present(m)'
    BY <1>1, <1>2, <1>3, <1>6, <2>1, <2>2, <2>3 DEF Present
  <2>5. QED
    BY <2>4 DEF Moves
<1>8. CASE Top.path \notin Decl
  <2>1. d = l /\ m.stack # << >> /\ Innermost(m) \in Spot /\ Innermost(m).path = Top.path
        /\ Innermost(m).done = SourcedAmong(Top.path, Top.done)
    BY <1>1, <1>8, PresentTop
  <2>2. Top.done = Len(tree.imports[Top.path])
    <3>1. Top.done <= Len(tree.imports[Top.path]) /\ Top.path \in Path
      BY <1>1 DEF StackOK, Frame
    <3>2. Top.done \in Nat /\ ~(Top.done < Len(tree.imports[Top.path]))
      BY <1>1 DEF FinishModule, AtEnd, MoreImports, Frame
    <3>3. Len(tree.imports[Top.path]) \in Nat
      BY <3>1, ImportsType
    <3>4. QED
      BY <3>1, <3>2, <3>3
  <2>3. Innermost(m).done = Len(Sourced(Innermost(m).path))
    BY <1>1, <2>1, <2>2, SourcedSteps DEF Frame
  <2>4. PICK s \in Seq(Spot) : s = SubSeq(m.stack, 1, Len(m.stack) - 1)
    BY <1>1, <2>1, FrontShape
  <2>5. Len(s) = l - 1 /\ \A i \in 1..(l - 1) : s[i] = m.stack[i]
    BY <1>1, <2>1, <2>4, FrontShape
  <2>6. PICK n \in Moment : n = [call |-> NoPath, stack |-> s, seen |-> m.seen,
                                 ran |-> Append(m.ran, Innermost(m).path)]
    <3>1. Append(m.ran, Innermost(m).path) \in Seq(Path)
      BY <1>1, <2>1, AppendProperties DEF Spot
    <3>2. QED
      BY <1>1, <3>1 DEF Moment
  <2>7. Finish(m, n)
    BY <1>5, <2>1, <2>3, <2>4, <2>6 DEF Finish, Visiting
  <2>8. ASSUME NEW i \in 1..(l - 1)
        PROVE  /\ stack'[i].path \notin Decl
               /\ s[i].path = stack'[i].path
               /\ s[i].done = SourcedAmong(stack'[i].path, stack'[i].done)
    BY <1>1, <1>6, <2>1, <2>5
  <2>9. n.seen = visited' \ Decl /\ n.ran = modules' /\ n.call = IF call' \in Decl THEN NoPath ELSE call'
    BY <1>4, <1>5, <1>8, <2>1, <2>6 DEF Present, AppendModule
  <2>10. n.stack = s /\ Len(n.stack) <= Len(stack') /\ (Len(n.stack) + 1)..Len(stack') = {} /\ Len(s) = l - 1
    BY <1>1, <1>2, <2>5, <2>6
  <2>11. Present(n)'
    BY <1>3, <2>8, <2>9, <2>10 DEF Present
  <2>12. QED
    BY <2>7, <2>11 DEF Moves, Onward
<1>9. QED
  BY <1>7, <1>8

\* An import leaves a trace in the text unless it is of a declaration file.
LEMMA GoesPast ==
  ASSUME LoadTypeOK, LoadTypeOK', StackOK, CallOK, DeclsApart, SkipShellImport \/ LoadImport,
         NEW m \in Moment, Present(m)
  PROVE  Moves(m)
<1> DEFINE p == Top.path
           x == Top.done + 1
           fr == [Top EXCEPT !.done = @ + 1]
           k == SourcedAmong(p, Top.done)
<1>1. Working("imports") /\ MoreImports /\ ImportOk(tree, NextImport)
      /\ stack # << >> /\ call = NoPath /\ stack' = SetTop(fr)
      /\ UNCHANGED <<tree, visited, modules>>
  BY DEF SkipShellImport, LoadImport, Working
<1>2. /\ Top \in Frame /\ fr \in Frame /\ fr.path = p /\ fr.done = x
      /\ NextImport = tree.imports[p][x] /\ NextImport \in Import
      /\ x \in 1..Len(tree.imports[p])
  BY <1>1, NextImportFacts
<1>3. p \in Path /\ x - 1 = Top.done /\ Top.done \in 0..Len(tree.imports[p])
  BY <1>2, ImportsType DEF Frame
<1>4. k \in Nat
  BY <1>3, SourcedSteps
<1>5. /\ NextImport \in SourcedImports =>
           SourcedAmong(p, x) = k + 1 /\ k < Len(Sourced(p)) /\ Sourced(p)[k + 1] = NextImport
      /\ NextImport \notin SourcedImports => SourcedAmong(p, x) = k
  BY <1>2, <1>3, SourcedNext
<1>6. call' = IF IsShell(NextImport) THEN NoPath ELSE NextImport.path
  BY <1>1 DEF SkipShellImport, LoadImport
<1>7. ~IsShell(NextImport) => NextImport.kind = "besht" /\ NextImport.path \in LoadedBy(tree, p)
  <2> SUFFICES ASSUME ~IsShell(NextImport)
               PROVE  NextImport.kind = "besht" /\ NextImport.path \in LoadedBy(tree, p)
    OBVIOUS
  <2>1. NextImport.kind = "besht" /\ NextImport.path \in Path
    BY <1>1, <1>2 DEF IsShell, ImportOk, Import
  <2>2. QED
    BY <1>2, <2>1 DEF LoadedBy, BeshtImports
<1> HIDE DEF fr, x, k
<1>8. CASE NextImport \in SourcedImports /\ p \notin Decl
  <2>1. call' \notin Decl
    BY <1>6, <1>8, PathAssumption DEF SourcedImports
  <2>2. call' = IF IsShell(Sourced(Top.path)[k + 1]) THEN NoPath ELSE Sourced(Top.path)[k + 1].path
    BY <1>5, <1>6, <1>8
  <2>3. SourcedAmong(Top.path, fr.done) = k + 1 /\ k < Len(Sourced(Top.path))
    BY <1>2, <1>5, <1>8
  <2>4. QED
    BY <1>1, <1>2, <1>4, <1>8, <2>1, <2>2, <2>3, PassesOn DEF k
<1>9. CASE ~(NextImport \in SourcedImports /\ p \notin Decl)
  <2>1. p \in Decl \/ SourcedAmong(p, fr.done) = SourcedAmong(p, Top.done)
    BY <1>2, <1>5, <1>9 DEF k
  <2>2. call' = NoPath \/ call' \in Decl
    <3>1. CASE p \in Decl
      BY <1>1, <1>6, <1>7, <3>1, DeclChild
    <3>2. CASE p \notin Decl
      BY <1>2, <1>6, <1>9, <3>2 DEF SourcedImports
    <3>3. QED
      BY <3>1, <3>2
  <2>3. QED
    BY <1>1, <1>2, <2>1, <2>2, StandsStill
<1>10. QED
  BY <1>8, <1>9

LEMMA LoadMoves ==
  ASSUME LoadTypeOK, LoadTypeOK', StackOK, CallOK, DeclsApart, [LoadNext]_loadVars,
         NEW m \in Moment, Present(m)
  PROVE  Moves(m)
<1>1. CASE EnterOutside \/ ReadFails \/ ImportRejected \/ ValidateRejects \/ UndeclaredCall
           \/ UNCHANGED loadVars
  <2>1. UNCHANGED <<tree, call, stack, visited, modules>>
    BY <1>1 DEF EnterOutside, ReadFails, ImportRejected, ValidateRejects, UndeclaredCall, Fail, loadVars
  <2>2. \A p, x : SourcedAmong(p, x)' = SourcedAmong(p, x)
    BY <2>1 DEF SourcedAmong
  <2>3. Present(m)'
    BY <2>1, <2>2 DEF Present
  <2>4. QED
    BY <2>3 DEF Moves
<1>2. CASE LoadStdlib \/ ReadAndParse
  <2>1. PICK fr \in Frame : fr.path = Top.path /\ fr.done = Top.done /\ stack' = SetTop(fr)
    <3>1. Top \in Frame
      BY <1>2, StackTop DEF LoadTypeOK, LoadStdlib, ReadAndParse, Working
    <3>2. \A ph \in Phase : /\ [Top EXCEPT !.phase = ph] \in Frame
                            /\ [Top EXCEPT !.phase = ph].path = Top.path
                            /\ [Top EXCEPT !.phase = ph].done = Top.done
      BY <3>1 DEF Frame
    <3>3. "read" \in Phase /\ "imports" \in Phase
      BY DEF Phase
    <3>4. QED
      BY <1>2, <3>2, <3>3 DEF LoadStdlib, ReadAndParse
  <2>2. stack # << >> /\ call = NoPath /\ UNCHANGED <<tree, visited, modules>>
    BY <1>2 DEF LoadStdlib, ReadAndParse, Working
  <2>3. call' = NoPath \/ call' \in Decl
    BY <1>2, <2>2, PathAssumption DEF LoadStdlib, ReadAndParse
  <2>4. QED
    BY <2>1, <2>2, <2>3, StandsStill
<1>3. CASE SkipShellImport \/ LoadImport
  BY <1>3, GoesPast
<1>4. QED
  BY <1>1, <1>2, <1>3, EntersVisited, EntersNew, Finishes DEF LoadNext

\* A load has a log, from its beginning to its result.
LEMMA LogKept ==
  ASSUME LoadTypeOK, LoadTypeOK', LoadInv, LoadInv', LogOK, [LoadNext]_loadVars
  PROVE  LogOK'
<1> USE DEF LoadInv
<1> SUFFICES ASSUME DeclsApart'
             PROVE  \E h : IsLog(h)' /\ Present(h[Len(h)])' /\ \A i \in 1..Len(h) : Behind(h[i])'
  BY DEF LogOK
<1>1. tree' = tree
  BY DEF LoadNext, loadVars, EnterOutside, EnterVisited, EnterNew, LoadStdlib, ReadFails,
         ReadAndParse, ImportRejected, SkipShellImport, LoadImport, ValidateRejects,
         UndeclaredCall, FinishModule, Fail
<1>2. visited \subseteq visited' /\ (modules' = modules \/ \E p \in Path : modules' = Append(modules, p))
  <2>1. FinishModule => Top.path \in Path
    BY StackTop DEF FinishModule, AtEnd, Working, LoadTypeOK, Frame
  <2>2. QED
    BY <2>1 DEF LoadNext, loadVars, EnterOutside, EnterVisited, EnterNew, LoadStdlib, ReadFails,
       ReadAndParse, ImportRejected, SkipShellImport, LoadImport, ValidateRejects,
       UndeclaredCall, FinishModule, Fail, AppendModule
<1>3. Len(modules) <= Len(modules') /\ \A i \in 1..Len(modules) : modules'[i] = modules[i]
  <2>1. modules \in Seq(Path) /\ Len(modules) \in Nat
    BY DEF LoadTypeOK
  <2>2. CASE modules' = modules
    BY <2>1, <2>2
  <2>3. CASE modules' # modules
    <3>1. PICK p \in Path : modules' = Append(modules, p)
      BY <1>2, <2>3
    <3>2. QED
      BY <2>1, <3>1, AppendProperties
  <2>4. QED
    BY <2>2, <2>3
<1>4. DeclsApart
  BY <1>1, <1>2 DEF DeclsApart, BeshtImports
<1>5. PICK h : IsLog(h) /\ Present(h[Len(h)]) /\ \A i \in 1..Len(h) : Behind(h[i])
  BY <1>4 DEF LogOK
<1>6. h \in Seq(Moment) /\ Len(h) \in Nat \ {0} /\ h[Len(h)] \in Moment
      /\ \A i \in 1..Len(h) : h[i] \in Moment
  BY <1>5, EmptySeq DEF IsLog
<1>7. PICK n \in Moment : (n = h[Len(h)] \/ Onward(h[Len(h)], n)) /\ Present(n)'
  BY <1>4, <1>5, <1>6, LoadMoves DEF Moves
<1>8. IsLog(h)' /\ \A i \in 1..Len(h) : Behind(h[i])'
  BY <1>1, <1>2, <1>3, <1>5, <1>6, LogStays
<1>9. CASE n = h[Len(h)]
  BY <1>7, <1>8, <1>9
<1>10. CASE Onward(h[Len(h)], n)
  <2>1. Behind(n)'
    BY <1>7, PresentIsBehind
  <2>2. PICK g : /\ IsLog(g) /\ g[Len(g)] = n
                 /\ \A i \in 1..Len(g) : g[i] = n \/ (i \in 1..Len(h) /\ g[i] = h[i])
    BY <1>5, <1>10, LogGrows
  <2>3. IsLog(g)'
    BY <1>1, <1>2, <1>3, <2>2, LogStays
  <2>4. QED
    BY <1>7, <1>8, <2>1, <2>2, <2>3
<1>11. QED
  BY <1>7, <1>9, <1>10

LEMMA LogStarts ==
  ASSUME LoadTypeOK, LoadInit
  PROVE  LogOK
<1> SUFFICES ASSUME DeclsApart PROVE \E h : IsLog(h) /\ Present(h[Len(h)]) /\ \A i \in 1..Len(h) : Behind(h[i])
  BY DEF LogOK
<1>1. Start \in Moment /\ Start.stack = << >> /\ Start.ran = << >> /\ Start.seen = {} /\ Start.call = Entry
  BY PathAssumption, EmptySeq DEF Start, Moment
<1> DEFINE h == <<Start>>
<1>2. h \in Seq(Moment) /\ Len(h) = 1 /\ h[1] = Start /\ h # << >>
  BY <1>1
<1>3. stack = << >> /\ Len(stack) = 0 /\ visited = {} /\ modules = << >> /\ call = Entry /\ Entry \notin Decl
  BY DEF LoadInit, DeclsApart
<1> HIDE DEF h
<1>4. IsLog(h)
  BY <1>2 DEF IsLog
<1>5. Present(Start)
  BY <1>1, <1>3 DEF Present
<1>6. Behind(Start)
  BY <1>1, <1>3 DEF Behind
<1>7. QED
  BY <1>2, <1>4, <1>5, <1>6

-----------------------------------------------------------------------------
(* The imports of a file that is done were all accepted. *)

ImportsOK ==
  \A p \in Finished : \A j \in 1..Len(tree.imports[p]) : ImportOk(tree, tree.imports[p][j])

LEMMA ImportsKept ==
  ASSUME LoadTypeOK, LoadInv, AcceptedOK, ImportsOK, [LoadNext]_loadVars
  PROVE  ImportsOK'
<1> USE DEF LoadInv
<1>1. CASE QuietStep \/ EnterVisited
  BY <1>1 DEF QuietStep, EnterVisited, ImportsOK, Finished, OnStack
<1>2. CASE EnterNew
  <2>1. Finished' = Finished
    BY <1>2, EnterShape DEF EnterNew, Finished
  <2>2. QED
    BY <1>2, <2>1 DEF EnterNew, ImportsOK
<1>3. ASSUME NEW fr \in Frame, AdvanceStep(fr) PROVE ImportsOK'
  BY <1>3, AdvanceShape DEF AdvanceStep, ImportsOK
<1>4. CASE FinishModule
  <2>1. /\ tree' = tree /\ Finished' = Finished \cup {Top.path} /\ Top.path \in Path
        /\ Len(stack) \in Nat \ {0} /\ Top = stack[Len(stack)] /\ Top.done \in Nat
        /\ ~(Top.done < Len(tree.imports[Top.path]))
    BY <1>4, FinishShape DEF FinishModule, AtEnd, MoreImports, Frame
  <2>2. Len(tree.imports[Top.path]) \in Nat
    BY <2>1, ImportsType
  <2>3. \A j \in 1..Len(tree.imports[Top.path]) : ImportOk(tree, tree.imports[Top.path][j])
    BY <2>1, <2>2 DEF AcceptedOK
  <2>4. QED
    BY <2>1, <2>3 DEF ImportsOK
<1>5. QED
  BY <1>1, <1>2, <1>3, <1>4, StepKinds

TraversalInv == LoadInv /\ AcceptedOK /\ ImportsOK /\ LogOK

\* Every load is a depth-first traversal of the imports its modules source.
LEMMA TraversalHolds == LoadSpec => [](LoadTypeOK /\ TraversalInv)
<1> DEFINE L == LoadTypeOK /\ LoadInv
           A == AcceptedOK /\ ImportsOK /\ LogOK
<1>1. LoadInit /\ L => A
  BY LogStarts, EmptySeq DEF LoadInit, AcceptedOK, ImportsOK, Finished
<1>2. L /\ L' /\ A /\ [LoadNext]_loadVars => A'
  BY LogKept, AcceptedKept, ImportsKept
<1>3. LoadSpec => []L
  BY LoadInvHolds
<1> HIDE DEF L, A
<1>4. LoadSpec => []A
  BY <1>1, <1>2, <1>3, PTL DEF LoadSpec
<1>5. L /\ A => LoadTypeOK /\ TraversalInv
  BY DEF L, A, TraversalInv
<1>6. QED
  BY <1>3, <1>4, <1>5, PTL

=============================================================================
