--------------------------- MODULE CommandProofs ----------------------------
(***************************************************************************)
(* Proofs about commands, for every program that uses them as documented:  *)
(* the verdict of the analysis is right, so are its warnings, and the      *)
(* script runs and prints what the program does.                           *)
(*                                                                         *)
(* After any number of statements of either walk the identities stand one  *)
(* for one for the command objects met so far, each name is bound to the   *)
(* identity of the object it denotes, and what is recorded of an identity  *)
(* is what the statements up to there do to its object (IdsOK). So each    *)
(* line generated is that of its statement (MeantLine). In front of each   *)
(* line of the script, the shell variables of the objects hold what their  *)
(* last runs gave (ShellOK).                                               *)
(***************************************************************************)
EXTENDS Commands, ListProofs

-----------------------------------------------------------------------------
(* Programs. *)

Decl(p, n) == DeclOf(p, p[n].y, n)

\* What Extends has let through.
Written(p) ==
  /\ p \in Seq(Statement)
  /\ \A n \in 1..Len(p) : p[n].op \in Using =>
       /\ Decl(p, n) # 0
       /\ (p[n].op = "print") <=> (p[Decl(p, n)].op \in {"fetch", "take"})

LEMMA StatementIs ==
  ASSUME NEW p \in Seq(Statement), NEW n \in 1..Len(p)
  PROVE  /\ Len(p) \in Nat /\ p[n] \in Statement
         /\ p[n].op \in Op /\ p[n].block \in BOOLEAN
         /\ p[n].x \in Variable \cup {NoVar} /\ p[n].y \in Variable \cup {NoVar}
         /\ p[n].op \in Binders => p[n].x \in Variable /\ p[n].x # NoVar
         /\ p[n].op \notin Binders => p[n].x = NoVar
         /\ p[n].op \in Using => p[n].y \in Variable
<1>1. Len(p) \in Nat /\ p[n] \in Statement
  OBVIOUS
<1>2. QED
  BY <1>1, VariableAssumption DEF Statement

LEMMA MaxIs ==
  ASSUME NEW N \in Nat, NEW S \in SUBSET (0..N), S # {}
  PROVE  Max(S) \in S /\ \A y \in S : y <= Max(S)
<1>1. \E m \in S : \A y \in S : m >= y
  BY GreatestIsOne
<1>2. Max(S) \in S /\ \A y \in S : Max(S) >= y
  BY <1>1 DEF Max
<1>3. QED
  BY <1>2

\* A declaration is in front of its use.
LEMMA DeclBound ==
  ASSUME NEW p \in Seq(Statement), NEW n \in 1..Len(p), Decl(p, n) # 0
  PROVE  /\ Decl(p, n) \in 1..(n - 1) /\ Decl(p, n) \in 1..Len(p)
         /\ p[Decl(p, n)].op \in Binders /\ p[Decl(p, n)].x = p[n].y
         /\ p[Decl(p, n)].block => SameBlock(p, Decl(p, n), n)
<1> DEFINE S == Declarations(p, p[n].y, n)
           I == {k \in S : p[k].block}
<1>1. S \in SUBSET (0..(n - 1)) /\ I \in SUBSET (0..(n - 1)) /\ n - 1 \in Nat
  BY DEF Declarations
<1>2. Decl(p, n) = IF I # {} THEN Max(I) ELSE IF S # {} THEN Max(S) ELSE 0
  BY DEF Decl, DeclOf
<1>3. Decl(p, n) \in S
  <2>1. I # {} => Max(I) \in I
    BY <1>1, MaxIs
  <2>2. S # {} => Max(S) \in S
    BY <1>1, MaxIs
  <2>3. QED
    BY <1>2, <2>1, <2>2
<1>4. PICK d \in 1..(n - 1) : /\ d = Decl(p, n)
                              /\ p[d].op \in Binders /\ p[d].x = p[n].y
                              /\ p[d].block => SameBlock(p, d, n)
  BY <1>3 DEF Declarations
<1>5. d \in 1..Len(p)
  OBVIOUS
<1>6. QED
  BY <1>4, <1>5

LEMMA DeclIs ==
  ASSUME NEW p, Written(p), NEW n \in 1..Len(p), p[n].op \in Using
  PROVE  /\ Decl(p, n) \in 1..(n - 1) /\ Decl(p, n) \in 1..Len(p) /\ Decl(p, n) < n
         /\ p[Decl(p, n)].op \in Binders /\ p[Decl(p, n)].x = p[n].y
         /\ p[Decl(p, n)].block => SameBlock(p, Decl(p, n), n)
<1>1. p \in Seq(Statement) /\ Decl(p, n) # 0
  BY DEF Written
<1>2. PICK d \in 1..(n - 1) : d = Decl(p, n)
  BY <1>1, DeclBound
<1>3. d < n
  OBVIOUS
<1>4. QED
  BY <1>1, <1>2, <1>3, DeclBound

\* Recursion to a smaller number: D[i] says to which.
LEMMA Descent ==
  ASSUME NEW V, NEW c \in V, NEW n \in Nat, NEW H, Stepwise(H, n, V),
         NEW D, \A i \in 1..n : D[i] \in 0..(i - 1)
  PROVE  \E g \in [0..n -> V] : g[0] = c /\ \A i \in 1..n : g[i] = H[i][g[D[i]]]
<1> DEFINE W == [0..n -> V]
           G == [i \in 1..n |-> [f \in W |-> [f EXCEPT ![i] = H[i][f[D[i]]]]]]
           s == [i \in 0..n |-> c]
<1>1. s \in W
  OBVIOUS
<1>2. \A i \in 1..n : D[i] \in 0..n /\ D[i] \in 0..(i - 1) /\ i - 1 \in 0..n /\ i \in 0..n
  <2> SUFFICES ASSUME NEW i \in 1..n
               PROVE  D[i] \in 0..n /\ D[i] \in 0..(i - 1) /\ i - 1 \in 0..n /\ i \in 0..n
    OBVIOUS
  <2>1. PICK d \in 0..(i - 1) : d = D[i]
    OBVIOUS
  <2>2. d \in 0..n
    OBVIOUS
  <2>3. QED
    BY <2>1, <2>2
<1>3. Stepwise(G, n, W)
  <2>1. ASSUME NEW i \in 1..n, NEW f \in W PROVE [f EXCEPT ![i] = H[i][f[D[i]]]] \in W
    <3>1. f[D[i]] \in V
      BY <1>2
    <3>2. H[i][f[D[i]]] \in V
      BY <3>1 DEF Stepwise
    <3>3. QED
      BY <3>2
  <2>2. QED
    BY <2>1 DEF Stepwise
<1>4. PICK h : Follows(h, s, G, n, W)
  <2> HIDE DEF W, G, s
  <2>1. QED
    BY <1>1, <1>3, Recursion
<1>5. /\ h \in [0..n -> W] /\ h[0] = s
      /\ \A i \in 1..n : h[i] = [h[i - 1] EXCEPT ![i] = H[i][h[i - 1][D[i]]]]
  <2>1. h \in [0..n -> W] /\ h[0] = s /\ \A i \in 1..n : h[i] = G[i][h[i - 1]]
    BY <1>4 DEF Follows
  <2>2. \A i \in 1..n : h[i - 1] \in W
    <3> HIDE DEF W
    <3>1. QED
      BY <1>2, <2>1
  <2>3. \A i \in 1..n, f \in W : G[i][f] = [f EXCEPT ![i] = H[i][f[D[i]]]]
    OBVIOUS
  <2> HIDE DEF W, G, s
  <2>4. QED
    BY <2>1, <2>2, <2>3
\* After i steps, what they have set stays.
<1>6. \A i \in 1..n : /\ h[i][i] = H[i][h[i - 1][D[i]]]
                      /\ \A k \in 0..n : k # i => h[i][k] = h[i - 1][k]
  <2> SUFFICES ASSUME NEW i \in 1..n
               PROVE  /\ h[i][i] = H[i][h[i - 1][D[i]]]
                      /\ \A k \in 0..n : k # i => h[i][k] = h[i - 1][k]
    OBVIOUS
  <2>1. h[i - 1] \in [0..n -> V]
    BY <1>2, <1>5
  <2>2. h[i] = [h[i - 1] EXCEPT ![i] = H[i][h[i - 1][D[i]]]]
    BY <1>5
  <2> HIDE DEF W, G, s
  <2>3. QED
    BY <1>2, <2>1, <2>2
<1> DEFINE T == {m \in 0..n : \A k \in 0..m : h[m][k] = h[k][k]}
<1>7. \A m \in 0..n : m \in T
  <2>1. 0 \in T
    OBVIOUS
  <2>2. ASSUME NEW m \in 1..n, m - 1 \in T PROVE m \in T
    <3>1. \A k \in 0..m : k = m \/ (k \in 0..(m - 1) /\ k \in 0..n /\ k # m)
      OBVIOUS
    <3>2. \A k \in 0..(m - 1) : h[m - 1][k] = h[k][k]
      BY <2>2
    <3>3. \A k \in 0..m : h[m][k] = h[k][k]
      BY <1>6, <3>1, <3>2
    <3>4. QED
      BY <3>3
  <2> HIDE DEF T
  <2>3. QED
    BY <2>1, <2>2, UpTo
<1> DEFINE g == h[n]
<1>8. g \in W /\ \A k \in 0..n : g[k] = h[k][k]
  <2>1. n \in T /\ n \in 0..n
    BY <1>7
  <2>2. h[n] \in W
    BY <1>5, <2>1
  <2>3. QED
    BY <2>1, <2>2
<1>9. ASSUME NEW i \in 1..n PROVE g[i] = H[i][g[D[i]]]
  <2>1. h[i - 1][D[i]] = h[D[i]][D[i]]
    <3>1. i - 1 \in T
      BY <1>2, <1>7
    <3>2. QED
      BY <1>2, <3>1
  <2>2. h[i][i] = H[i][h[i - 1][D[i]]] /\ g[i] = h[i][i] /\ g[D[i]] = h[D[i]][D[i]]
    BY <1>2, <1>6, <1>8
  <2> HIDE DEF W, G, s, T, g
  <2>3. QED
    BY <2>1, <2>2
<1>10. g[0] = c
  <2>1. 0 \in 0..n /\ s[0] = c
    OBVIOUS
  <2>2. QED
    BY <1>5, <1>8, <2>1
<1> HIDE DEF g
<1>11. QED
  BY <1>8, <1>9, <1>10

-----------------------------------------------------------------------------
(* What the analysis knows after some statements.                          *)

Lets == {"literal", "clone", "chain"}

\* Statement k is over, and what it declares is still there, at statement n.
Seen(p, k, n) == k \in 1..(n - 1) /\ (p[k].block => SameBlock(p, k, n))

\* Among the first m statements one of these is about object o.
Used(p, m, o, ops) == \E j \in 1..m : p[j].op \in ops /\ Object(p)[j] = o
ClonedIn(p, m, o) == \E j \in 1..m : p[j].op = "clone" /\ Object(p)[Decl(p, j)] = o
TwiceIn(p, m) ==
  \E i, j \in 1..m : i < j /\ {p[i].op, p[j].op} \subseteq RunOps /\ Object(p)[i] = Object(p)[j]

\* The identity of the object that each statement makes, and the objects that
\* have one when the first walk has passed a statements and the second m.
Identities(p, rt, cl) == [k \in 1..Len(p) |-> IF p[k].op = "clone" THEN cl[k] ELSE rt[k]]
Known(p, a, m) ==
  {k \in 1..Len(p) : (p[k].op \in Rooted /\ k <= a) \/ (p[k].op = "clone" /\ k <= m)}

OneForOne(K, J, N) ==
  /\ \A k \in K : J[k] \in 1..N
  /\ \A j, k \in K : J[j] = J[k] => j = k
  /\ \A i \in 1..N : \E k \in K : J[k] = i

\* What is recorded of the identity of object k; g is how far the generator is,
\* which names the identities of clones.
Recorded(p, m, g, k, ident) ==
  /\ ident.hasRun <=> (p[k].op = "for" \/ Used(p, m, k, {"run", "take", "fetch"}))
  /\ ident.text <=> Used(p, m, k, {"stdout", "take", "fetch", "for"})
  /\ ident.stderr <=> Used(p, m, k, {"stderr"})
  /\ ident.status <=> Used(p, m, k, {"status"})
  /\ ident.usedByClone <=> ClonedIn(p, m, k)
  /\ ident.name = IF p[k].op = "clone" /\ k > g THEN NoVar ELSE p[k].x

IdsOK(p, J, is, a, m, g) ==
  /\ is \in Seq(Identity)
  /\ OneForOne(Known(p, a, m), J, Len(is))
  /\ \A k \in Known(p, a, m) : Recorded(p, m, g, k, is[J[k]])

\* The program's variables denote the identities of their objects; the chains and
\* the literals do so since the first walk.
OuterOK(p, J, sc, a, m) ==
  \A k \in 1..Len(p) :
     ~p[k].block /\ ((p[k].op \in {"literal", "chain"} /\ k <= a) \/ (p[k].op = "clone" /\ k <= m))
       => sc.outer[p[k].x] = J[Object(p)[k]]

InnerOK(p, J, sc, m) ==
  /\ \A k \in 1..m :
       p[k].block /\ p[k].op \in {"literal", "clone"} /\ m < Len(p) /\ SameBlock(p, k, m + 1)
         => sc.inner[p[k].x] = J[k]
InnerNames(p, sc) ==
  \A v \in Variable : sc.inner[v] # NoId =>
     \E k \in 1..Len(p) : p[k].op \in Binders /\ p[k].x = v /\ p[k].block

-----------------------------------------------------------------------------
(* What the generator has written for the first g statements.              *)

\* The text behind every let.
Texts(p) ==
  LET text[n \in 0..Len(p)] ==
        IF n = 0 THEN NoText
        ELSE IF p[n].op = "literal" THEN Plain(n)
        ELSE IF p[n].op = "clone" THEN text[Decl(p, n)]
        ELSE IF p[n].op = "chain" THEN Chain(text[Decl(p, n)], n)
        ELSE NoText
  IN text

ReadsText(p, o) == Used(p, Len(p), o, {"stdout", "take", "fetch", "for"})
ReadsErrors(p, o) == Used(p, Len(p), o, {"stderr"})
ReadsStatus(p, o) == Used(p, Len(p), o, {"status"})

\* The line that runs object o: its output is in the variable of its declaration.
RunOf(p, o, text) ==
  [NoLine EXCEPT !.runs = text,
                 !.into = IF ReadsErrors(p, o) \/ ReadsText(p, o) THEN p[o].x ELSE NoVar,
                 !.stream = IF ReadsErrors(p, o) THEN "stderr" ELSE "stdout",
                 !.exit = IF ReadsStatus(p, o) THEN p[o].x ELSE NoVar]

MeantLine(p, n) ==
  LET o == Object(p)[n]
      text == Texts(p)[Decl(p, n)]
  IN CASE p[n].op \in Lets -> NoLine
       [] p[n].op = "run" -> RunOf(p, o, text)
       [] p[n].op = "take" -> [RunOf(p, o, text) EXCEPT !.copy = p[n].x, !.from = p[o].x]
       [] p[n].op = "fetch" -> [RunOf(p, n, Plain(n)) EXCEPT !.from = p[n].x]
       [] p[n].op = "for" -> [NoLine EXCEPT !.runs = Plain(n)]
       [] p[n].op \in Reads -> [NoLine EXCEPT !.shows = p[o].x, !.code = (p[n].op = "status")]
       [] OTHER -> [NoLine EXCEPT !.shows = p[n].y]

BoundOK(p, J, b, g) ==
  \A k \in 1..g : p[k].op \in Lets => b[p[k].x] = J[Object(p)[k]]
ChainsOK(p, ch, g) ==
  /\ \A k \in 1..g : p[k].op \in Lets => ch[p[k].x] = k
CodeOK(p, cd, g) == Len(cd) = g /\ \A k \in 1..g : cd[k] = MeantLine(p, k)

-----------------------------------------------------------------------------
(* What the statements executed so far have left.                          *)

\* A run of object o that has been executed in front of n in this round.
RunSeen(p, o, n) ==
  \E k \in 1..(n - 1) : p[k].op \in {"run", "take"} /\ Object(p)[k] = o /\ (p[o].block => o < k)

Shows(rs, stream, obj) ==
  IF obj \in DOMAIN rs THEN Value(stream, rs[obj].when, rs[obj].text) ELSE Empty

\* Declarations that are seen denote what they should.
EnvOK(p, e, ck, n) ==
  \A k \in 1..Len(p) : Seen(p, k, n) =>
    /\ p[k].op \in Lets => e[k].text = Texts(p)[k] /\ e[k].obj = e[Object(p)[k]].obj
    /\ p[k].op \in {"literal", "clone"} => e[k].obj[1] = k /\ e[k].obj[2] \in 0..ck

RunsOK(rs, ck) == \A o \in DOMAIN rs : o[2] <= ck

\* The shell variables hold what the last runs of the objects gave, where it is
\* read, and what was taken from them.
ShellOK(p, sh, e, rs, n) ==
  /\ \A o \in 1..Len(p) :
       p[o].op \in {"literal", "clone"} /\ Seen(p, o, n) /\ (p[o].block => RunSeen(p, o, n)) =>
         /\ ReadsText(p, o) => sh.out[p[o].x] = Shows(rs, "stdout", e[o].obj)
         /\ ReadsErrors(p, o) => sh.out[p[o].x] = Shows(rs, "stderr", e[o].obj)
         /\ ReadsStatus(p, o) => sh.exit[p[o].x] = Shows(rs, "status", e[o].obj)
  /\ \A o \in n..Len(p) :
       p[o].op \in {"literal", "clone"} /\ ~p[o].block =>
         sh.out[p[o].x] = Empty /\ sh.exit[p[o].x] = Empty
  /\ \A k \in 1..Len(p) :
       p[k].op \in {"fetch", "take"} /\ Seen(p, k, n) => sh.out[p[k].x] = e[k].value

-----------------------------------------------------------------------------
(* Objects and texts.                                                      *)

Makers == Rooted \cup {"clone", "runClone"}

LEMMA OpIs ==
  ASSUME NEW p, Written(p), NEW n \in 1..Len(p)
  PROVE  /\ p[n].op \in Op
         /\ p[n].op \notin Makers => p[n].op \in Using
         /\ p[n].op \in Lets => p[n].op \in Binders
<1>1. p[n].op \in Op
  BY StatementIs DEF Written
<1>2. QED
  BY <1>1 DEF Op, Makers, Rooted, Using, Binders, Lets

LEMMA ObjectIs ==
  ASSUME NEW p, Written(p)
  PROVE  /\ Object(p) \in [0..Len(p) -> 0..Len(p)]
         /\ \A n \in 1..Len(p) :
              Object(p)[n] = IF p[n].op \in Makers THEN n ELSE Object(p)[Decl(p, n)]
<1> DEFINE N == Len(p)
           V == 0..N
           D == [i \in 1..N |-> IF p[i].op \in Makers THEN 0 ELSE Decl(p, i)]
           H == [i \in 1..N |-> [v \in V |-> IF p[i].op \in Makers THEN i ELSE v]]
<1>1. N \in Nat /\ 0 \in V
  BY DEF Written
<1>2. \A i \in 1..N : p[i].op \notin Makers => Decl(p, i) \in 1..(i - 1)
  BY OpIs, DeclIs
<1>3. \A i \in 1..N : D[i] \in 0..(i - 1)
  <2> SUFFICES ASSUME NEW i \in 1..N PROVE D[i] \in 0..(i - 1)
    OBVIOUS
  <2>1. CASE p[i].op \in Makers
    BY <1>1, <2>1
  <2>2. CASE p[i].op \notin Makers
    <3>1. PICK d \in 1..(i - 1) : d = Decl(p, i)
      BY <1>2, <2>2
    <3>2. D[i] = d
      BY <2>2, <3>1
    <3>3. d \in 0..(i - 1)
      OBVIOUS
    <3>4. QED
      BY <3>2, <3>3
  <2>3. QED
    BY <2>1, <2>2
<1>4. Stepwise(H, N, V)
  BY <1>1 DEF Stepwise
<1>5. PICK g \in [0..N -> V] : g[0] = 0 /\ \A i \in 1..N : g[i] = H[i][g[D[i]]]
  <2> HIDE DEF N, V, D, H
  <2>1. QED
    BY <1>1, <1>3, <1>4, Descent
<1>6. \A i \in 1..N : g[i] = IF p[i].op \in Makers THEN i ELSE g[Decl(p, i)]
  <2> SUFFICES ASSUME NEW i \in 1..N
               PROVE  g[i] = IF p[i].op \in Makers THEN i ELSE g[Decl(p, i)]
    OBVIOUS
  <2>1. i - 1 \in 0..N /\ D[i] \in 0..N
    <3>1. PICK d \in 0..(i - 1) : d = D[i]
      BY <1>3
    <3>2. d \in 0..N
      BY <1>1
    <3>3. QED
      BY <1>1, <3>1, <3>2
  <2>2. g[D[i]] \in V
    BY <1>5, <2>1
  <2>3. H[i][g[D[i]]] = IF p[i].op \in Makers THEN i ELSE g[D[i]]
    BY <2>2
  <2>4. p[i].op \notin Makers => D[i] = Decl(p, i)
    OBVIOUS
  <2> HIDE DEF H, D, V
  <2>5. QED
    BY <1>5, <2>3, <2>4
<1>7. g = [n \in 0..N |->
             IF n = 0 THEN 0
             ELSE IF p[n].op \in Rooted \cup {"clone", "runClone"} THEN n
             ELSE g[DeclOf(p, p[n].y, n)]]
  <2>1. \A n \in 0..N : n = 0 \/ n \in 1..N
    OBVIOUS
  <2>2. g = [n \in 0..N |-> g[n]]
    BY <1>5
  <2> HIDE DEF N, V, D, H
  <2>3. QED
    BY <1>5, <1>6, <2>1, <2>2 DEF Makers, Decl
<1>8. Object(p) = [n \in 0..N |->
             IF n = 0 THEN 0
             ELSE IF p[n].op \in Rooted \cup {"clone", "runClone"} THEN n
             ELSE Object(p)[DeclOf(p, p[n].y, n)]]
  BY <1>7 DEF Object
<1>9. \A n \in 0..N : Object(p)[n] = g[n]
  <2> DEFINE T == {n \in 0..N : Object(p)[n] # g[n]}
  <2> SUFFICES ASSUME T # {} PROVE FALSE
    OBVIOUS
  <2>1. T \in SUBSET Nat
    BY <1>1
  <2>2. PICK n \in T : \A k \in T : n <= k
    <3> HIDE DEF T
    <3>1. QED
      BY <2>1, LeastNat
  <2>3. n # 0 /\ n \in 1..N
    <3>1. Object(p)[0] = 0
      BY <1>1, <1>8
    <3>2. QED
      BY <1>5, <2>2, <3>1
  <2>4. p[n].op \notin Makers
    BY <1>6, <1>8, <2>2, <2>3 DEF Makers
  <2>5. Object(p)[n] = Object(p)[Decl(p, n)] /\ g[n] = g[Decl(p, n)]
    BY <1>6, <1>8, <2>3, <2>4 DEF Makers, Decl
  <2>6. PICK d \in 1..(n - 1) : d = Decl(p, n)
    BY <1>2, <2>3, <2>4
  <2>7. d \in 0..N /\ d \notin T
    BY <1>1, <2>2, <2>3
  <2>8. QED
    BY <2>2, <2>5, <2>6, <2>7
<1>10. Object(p) = g
  BY <1>5, <1>8, <1>9
<1> HIDE DEF V, D, H
<1>11. QED
  BY <1>5, <1>6, <1>10 DEF V

\* A statement of a documented program, by what it does.
Calls == {"run", "take"} \cup Reads

LEMMA DocumentedOps ==
  ASSUME NEW p, Written(p), Documented(p), NEW n \in 1..Len(p)
  PROVE  /\ p[n].op \in Lets \cup Calls \cup {"fetch", "for", "print"}
         /\ p[n].op \in Makers <=> p[n].op \in {"literal", "clone", "fetch", "for"}
<1>1. p[n].op \in Op /\ p[n].op \notin {"runClone", "forRun"}
  BY OpIs DEF Documented
<1>2. QED
  BY <1>1 DEF Op, Makers, Rooted, Using, Binders, Reads, Lets, Calls

\* What a statement uses.
LEMMA UsedDecl ==
  ASSUME NEW p, Written(p), NEW n \in 1..Len(p), p[n].op \in Calls \cup {"clone", "chain"}
  PROVE  /\ Decl(p, n) \in 1..(n - 1) /\ Decl(p, n) \in 1..Len(p) /\ Decl(p, n) < n
         /\ p[Decl(p, n)].op \in Lets /\ p[Decl(p, n)].x = p[n].y
         /\ p[Decl(p, n)].block => SameBlock(p, Decl(p, n), n)
         /\ p[n].y \in Variable
<1>1. p[n].op \in Using /\ p[n].op # "print"
  BY DEF Calls, Using, Reads
<1>2. p[Decl(p, n)].op \notin {"fetch", "take"}
  BY <1>1 DEF Written
<1>3. p[n].y \in Variable
  BY <1>1, StatementIs DEF Written
<1>4. QED
  BY <1>1, <1>2, <1>3, DeclIs DEF Binders, Lets

\* The object of a let is made by a literal or a clone that is seen there, and
\* that of a chain by a literal outside of blocks.
LEMMA ChainObject ==
  ASSUME NEW p, Written(p), Documented(p), NEW n \in 1..Len(p), p[n].op = "chain"
  PROVE  /\ ~p[n].block /\ p[Object(p)[n]].op = "literal" /\ ~p[Object(p)[n]].block
         /\ Object(p)[n] \in 1..(n - 1) /\ Object(p)[n] = Object(p)[Decl(p, n)]
         /\ ~p[Decl(p, n)].block /\ p[Decl(p, n)].op \in {"literal", "chain"}
<1> DEFINE O == Object(p)
           Right(k) == p[O[k]].op = "literal" /\ ~p[O[k]].block /\ O[k] \in 1..(k - 1)
           T == {k \in 1..Len(p) : p[k].op = "chain" /\ ~Right(k)}
<1>1. ChainsAtTop(p)
  BY DEF Documented
<1>2. \A k \in 1..Len(p) : O[k] = IF p[k].op \in Makers THEN k ELSE O[Decl(p, k)]
  BY ObjectIs
<1>3. \A k \in 1..Len(p) : p[k].op = "chain" => p[O[k]].op = "literal" /\ ~p[k].block
  BY <1>1 DEF ChainsAtTop
<1>4. ASSUME NEW k \in 1..Len(p), p[k].op = "chain"
      PROVE  /\ Decl(p, k) \in 1..(k - 1) /\ Decl(p, k) \in 1..Len(p)
             /\ O[k] = O[Decl(p, k)] /\ ~p[Decl(p, k)].block
             /\ p[Decl(p, k)].op \in {"literal", "chain"}
             /\ p[Decl(p, k)].op = "literal" => O[k] = Decl(p, k)
  <2>1. /\ Decl(p, k) \in 1..(k - 1) /\ Decl(p, k) \in 1..Len(p)
        /\ p[Decl(p, k)].op \in Lets /\ (p[Decl(p, k)].block => SameBlock(p, Decl(p, k), k))
    BY <1>4, UsedDecl
  <2>2. O[k] = O[Decl(p, k)]
    BY <1>2, <1>4 DEF Makers, Rooted
  <2>3. p[Decl(p, k)].op \in {"literal", "clone"} => O[k] = Decl(p, k)
    BY <1>2, <2>1, <2>2 DEF Makers, Rooted
  <2>4. p[Decl(p, k)].op # "clone"
    BY <1>3, <1>4, <2>3
  <2>5. k \in Decl(p, k)..k
    <3>1. PICK d \in 1..(k - 1) : d = Decl(p, k)
      BY <2>1
    <3>2. k \in d..k
      OBVIOUS
    <3>3. QED
      BY <3>1, <3>2
  <2>6. ~p[Decl(p, k)].block
    BY <1>3, <1>4, <2>1, <2>5 DEF SameBlock
  <2> HIDE DEF O
  <2>7. QED
    BY <2>1, <2>2, <2>3, <2>4, <2>6 DEF Lets
<1>5. T = {}
  <2> SUFFICES ASSUME T # {} PROVE FALSE
    OBVIOUS
  <2>1. T \in SUBSET Nat
    OBVIOUS
  <2>2. PICK k \in T : \A j \in T : k <= j
    <3> HIDE DEF T
    <3>1. QED
      BY <2>1, LeastNat
  <2>3. k \in 1..Len(p) /\ p[k].op = "chain" /\ ~Right(k)
    BY <2>2
  <2>4. PICK d \in 1..(k - 1) : d = Decl(p, k)
    BY <1>4, <2>3
  <2>5. O[k] = O[d] /\ ~p[d].block /\ p[d].op \in {"literal", "chain"} /\ d \in 1..Len(p)
    BY <1>4, <2>3, <2>4
  <2>6. CASE p[d].op = "literal"
    <3>1. O[k] = d
      BY <1>4, <2>3, <2>4, <2>6
    <3>2. Right(k)
      BY <2>5, <2>6, <3>1
    <3>3. QED
      BY <2>3, <3>2
  <2>7. CASE p[d].op = "chain"
    <3>1. d \notin T
      BY <2>2, <2>4
    <3>2. Right(d)
      BY <2>5, <2>7, <3>1
    <3>3. PICK o \in 1..(d - 1) : o = O[d]
      BY <3>2
    <3>4. o \in 1..(k - 1)
      OBVIOUS
    <3>5. QED
      BY <2>3, <2>5, <3>2, <3>3, <3>4
  <2>8. QED
    BY <2>5, <2>6, <2>7
<1>6. Right(n)
  BY <1>5
<1> HIDE DEF T
<1>7. QED
  BY <1>3, <1>4, <1>6

LEMMA SameBlockSelf ==
  ASSUME NEW p, NEW n \in Nat, p[n].block
  PROVE  SameBlock(p, n, n)
<1>1. \A j \in n..n : j = n
  OBVIOUS
<1>2. QED
  BY <1>1 DEF SameBlock

LEMMA LetObject ==
  ASSUME NEW p, Written(p), Documented(p), NEW n \in 1..Len(p), p[n].op \in Lets
  PROVE  /\ Object(p)[n] \in 1..n /\ p[Object(p)[n]].op \in {"literal", "clone"}
         /\ Object(p)[Object(p)[n]] = Object(p)[n]
         /\ p[n].op \in {"literal", "clone"} => Object(p)[n] = n
         /\ p[Object(p)[n]].block => Object(p)[n] = n /\ p[n].op \in {"literal", "clone"}
<1>1. \A k \in 1..Len(p) : p[k].op \in {"literal", "clone"} => Object(p)[k] = k
  BY ObjectIs DEF Makers, Rooted
<1>2. CASE p[n].op = "chain"
  <2>1. /\ Object(p)[n] \in 1..(n - 1) /\ p[Object(p)[n]].op = "literal"
        /\ ~p[Object(p)[n]].block
    BY <1>2, ChainObject
  <2>2. PICK o \in 1..(n - 1) : o = Object(p)[n]
    BY <2>1
  <2>3. o \in 1..n /\ o \in 1..Len(p)
    BY DEF Written
  <2>4. QED
    BY <1>1, <1>2, <2>1, <2>2, <2>3
<1>3. CASE p[n].op \in {"literal", "clone"}
  BY <1>1, <1>3
<1>4. QED
  BY <1>2, <1>3 DEF Lets

\* The object a statement uses: it is made in front of it, and seen there.
LEMMA UsedObject ==
  ASSUME NEW p, Written(p), Documented(p), NEW n \in 1..Len(p),
         p[n].op \in Calls \cup {"clone", "chain"}, NEW o, o = Object(p)[Decl(p, n)]
  PROVE  /\ o \in 1..(n - 1) /\ o \in 1..Len(p) /\ o < n /\ o # n /\ p[o].op \in {"literal", "clone"}
         /\ Object(p)[o] = o /\ p[o].x \in Variable
         /\ p[o].block => SameBlock(p, o, n) /\ Decl(p, n) = o
         /\ p[n].op # "clone" => Object(p)[n] = o
<1> DEFINE d == Decl(p, n)
<1>1. /\ d \in 1..(n - 1) /\ d \in 1..Len(p) /\ p[d].op \in Lets
      /\ p[d].block => SameBlock(p, d, n)
  BY UsedDecl
<1>2. /\ o \in 1..d /\ p[o].op \in {"literal", "clone"} /\ Object(p)[o] = o
      /\ p[o].block => o = d
  BY <1>1, LetObject
<1>3. PICK e \in 1..(n - 1) : e = d
  BY <1>1
<1>4. o \in 1..(n - 1) /\ o \in 1..Len(p) /\ o < n /\ o # n
  <2>1. o \in 1..e
    BY <1>2, <1>3
  <2> HIDE DEF d
  <2>2. PICK u \in 1..e : u = o
    BY <2>1
  <2>3. u \in 1..(n - 1) /\ u \in 1..Len(p) /\ u < n
    BY DEF Written
  <2>4. QED
    BY <2>2, <2>3
<1>5. p[n].op # "clone" => Object(p)[n] = o
  <2>1. p[n].op # "clone" => p[n].op \notin Makers
    BY DEF Calls, Reads, Makers, Rooted
  <2>2. QED
    BY <2>1, ObjectIs
<1>6. p[o].x \in Variable
  BY <1>2, <1>4, StatementIs DEF Written, Binders
<1> HIDE DEF d
<1>7. QED
  BY <1>1, <1>2, <1>4, <1>5, <1>6 DEF d

-----------------------------------------------------------------------------
(* Blocks.                                                                 *)

LEMMA BlockEndIs ==
  ASSUME NEW p \in Seq(Statement), NEW n \in 1..Len(p), p[n].block
  PROVE  /\ BlockEnd(p, n) \in n..Len(p) /\ BlockEnd(p, n) \in 1..Len(p)
         /\ SameBlock(p, n, BlockEnd(p, n))
         /\ \A k \in 1..Len(p) : k = BlockEnd(p, n) + 1 => ~p[k].block
<1> DEFINE S == {k \in n..Len(p) : SameBlock(p, n, k)}
<1>1. Len(p) \in Nat /\ n \in S
  BY SameBlockSelf
<1>2. Max(S) \in S /\ \A y \in S : y <= Max(S)
  <2>1. S \in SUBSET (0..Len(p)) /\ S # {}
    BY <1>1
  <2> HIDE DEF S
  <2>2. QED
    BY <1>1, <2>1, MaxIs
<1>3. PICK b \in n..Len(p) : b = BlockEnd(p, n) /\ SameBlock(p, n, b)
  BY <1>2 DEF BlockEnd
<1>4. ASSUME NEW k \in 1..Len(p), k = b + 1, p[k].block PROVE FALSE
  <2>1. \A j \in n..k : j \in n..b \/ j = k
    BY <1>1, <1>4
  <2>2. SameBlock(p, n, k)
    BY <1>3, <1>4, <2>1 DEF SameBlock
  <2>3. k \in S
    BY <1>1, <1>4, <2>2
  <2>4. k <= b
    BY <1>2, <1>3, <2>3 DEF BlockEnd
  <2>5. QED
    BY <1>1, <1>4, <2>4
<1>5. b \in 1..Len(p)
  BY <1>1
<1> HIDE DEF S
<1>6. QED
  BY <1>3, <1>4, <1>5

LEMMA BlockStartIs ==
  ASSUME NEW p \in Seq(Statement), NEW n \in 1..Len(p), p[n].block
  PROVE  /\ BlockStart(p, n) \in 1..n /\ BlockStart(p, n) \in 1..Len(p)
         /\ SameBlock(p, BlockStart(p, n), n)
         /\ \A k \in 1..n : SameBlock(p, k, n) => BlockStart(p, n) <= k
<1> DEFINE S == {k \in 1..n : SameBlock(p, k, n)}
<1>1. Len(p) \in Nat /\ n \in S /\ S \in SUBSET Nat
  BY SameBlockSelf
<1>2. PICK b \in S : \A y \in S : b <= y
  <2> HIDE DEF S
  <2>1. QED
    BY <1>1, LeastNat
<1>3. Min(S) \in S /\ \A y \in S : Min(S) <= y
  BY <1>2 DEF Min
<1>4. PICK m \in 1..n : m = BlockStart(p, n) /\ SameBlock(p, m, n) /\ \A y \in S : m <= y
  BY <1>3 DEF BlockStart
<1>5. m \in 1..Len(p)
  BY <1>1
<1>6. QED
  BY <1>4, <1>5

-----------------------------------------------------------------------------
(* Types, for every program that is accepted by the validator.             *)

LEMMA DeclGrown ==
  ASSUME NEW p \in Seq(Statement), NEW s \in Statement, NEW n \in 1..Len(p)
  PROVE  Decl(Append(p, s), n) = Decl(p, n)
<1> DEFINE q == Append(p, s)
<1>1. \A k \in 1..Len(p) : q[k] = p[k]
  OBVIOUS
<1>2. \A k \in 1..(n - 1) : k \in 1..Len(p) /\ \A j \in k..n : j \in 1..Len(p)
  OBVIOUS
<1>3. \A k \in 1..(n - 1) : SameBlock(q, k, n) <=> SameBlock(p, k, n)
  BY <1>1, <1>2 DEF SameBlock
<1>4. Declarations(q, p[n].y, n) = Declarations(p, p[n].y, n)
  BY <1>1, <1>2, <1>3 DEF Declarations
<1>5. \A k \in Declarations(p, p[n].y, n) : q[k] = p[k]
  BY <1>1, <1>2 DEF Declarations
<1>6. {k \in Declarations(q, p[n].y, n) : q[k].block} = {k \in Declarations(p, p[n].y, n) : p[k].block}
  BY <1>4, <1>5
<1>7. q[n].y = p[n].y
  BY <1>1
<1> HIDE DEF q
<1>8. Decl(q, n) = Decl(p, n)
  BY <1>4, <1>6, <1>7 DEF Decl, DeclOf
<1>9. QED
  BY <1>8 DEF q

LEMMA WrittenGrows ==
  ASSUME NEW p, Written(p), NEW s \in Statement, Extends(p, s)
  PROVE  Written(Append(p, s))
<1> DEFINE q == Append(p, s)
           m == Len(p) + 1
<1>1. p \in Seq(Statement) /\ q \in Seq(Statement) /\ Len(q) = m /\ q[m] = s /\ m \in 1..m
  BY DEF Written
<1>2. \A n \in 1..m : n = m \/ n \in 1..Len(p)
  BY <1>1
<1>3. \A n \in 1..Len(p) : q[n] = p[n] /\ Decl(q, n) = Decl(p, n)
  BY <1>1, DeclGrown
<1>4. s.op \in Using => /\ Decl(q, m) # 0
                        /\ (s.op = "print") <=> (q[Decl(q, m)].op \in {"fetch", "take"})
  BY <1>1 DEF Extends, Decl
<1>5. ASSUME NEW n \in 1..Len(p), p[n].op \in Using
      PROVE  /\ Decl(q, n) # 0 
             /\ (q[n].op = "print") <=> (q[Decl(q, n)].op \in {"fetch", "take"})
  <2>1. /\ Decl(p, n) # 0
        /\ (p[n].op = "print") <=> (p[Decl(p, n)].op \in {"fetch", "take"})
    BY <1>5 DEF Written
  <2>2. Decl(p, n) \in 1..Len(p)
    BY <1>1, <2>1, DeclBound
  <2>3. QED
    BY <1>3, <2>1, <2>2
<1> HIDE DEF q, m
<1>6. QED
  BY <1>1, <1>2, <1>3, <1>4, <1>5 DEF Written, q

\* The recursion of genCmdChain, with the program and the chains as parameters.
ChainTexts(p, ch) ==
  LET text[k \in 0..MaxStatements] ==
        [u \in Variable |->
           LET n == ch[u]
           IN IF n = 0 \/ k = 0 THEN NoText
              ELSE IF p[n].op = "literal" THEN Plain(n)
              ELSE IF p[n].op = "chain" THEN Chain(text[k - 1][p[n].y], n)
              ELSE text[k - 1][p[n].y]]
  IN text

\* Every name stands for a let.
Chained(p, ch) ==
  /\ ch \in [Variable -> Index]
  /\ \A v \in Variable : ch[v] # 0 => ch[v] \in 1..Len(p) /\ p[ch[v]].op \in Lets

LEMMA TextType ==
  /\ NoText \in Text
  /\ \A n \in Index : Plain(n) \in Text
  /\ \A t \in Text, n \in Index : Chain(t, n) \in Text
<1>1. 0 \in Index
  BY VariableAssumption DEF Index
<1>2. NoText \in Text /\ \A n \in Index : Plain(n) \in Text
  BY <1>1 DEF Text, NoText, Plain
<1>3. ASSUME NEW t \in Text, NEW n \in Index PROVE Chain(t, n) \in Text
  <2>1. t.chained \cup {n} \in SUBSET Index
    BY DEF Text
  <2>2. QED
    BY <2>1 DEF Text, Chain
<1>4. QED
  BY <1>2, <1>3

LEMMA ChainTextsIs ==
  ASSUME NEW p, Written(p), Len(p) <= MaxStatements, NEW ch, Chained(p, ch)
  PROVE  \A k \in 0..MaxStatements : \A u \in Variable :
           /\ ChainTexts(p, ch)[k][u] \in Text
           /\ ChainTexts(p, ch)[k][u] =
                IF ch[u] = 0 \/ k = 0 THEN NoText
                ELSE IF p[ch[u]].op = "literal" THEN Plain(ch[u])
                ELSE IF p[ch[u]].op = "chain" THEN Chain(ChainTexts(p, ch)[k - 1][p[ch[u]].y], ch[u])
                ELSE ChainTexts(p, ch)[k - 1][p[ch[u]].y]
<1> DEFINE M == MaxStatements
           V == [Variable -> Text]
           At(k, f, u) ==
             IF ch[u] = 0 \/ k = 0 THEN NoText
             ELSE IF p[ch[u]].op = "literal" THEN Plain(ch[u])
             ELSE IF p[ch[u]].op = "chain" THEN Chain(f[p[ch[u]].y], ch[u])
             ELSE f[p[ch[u]].y]
           H == [k \in 1..M |-> [f \in V |-> [u \in Variable |-> At(k, f, u)]]]
           c == [u \in Variable |-> NoText]
<1>1. M \in Nat /\ c \in V
  BY VariableAssumption, TextType
<1>2. \A u \in Variable : ch[u] # 0 =>
        /\ ch[u] \in 1..Len(p) /\ ch[u] \in Index
        /\ p[ch[u]].op # "literal" => p[ch[u]].y \in Variable
  BY StatementIs DEF Written, Chained, Lets, Using
<1>3. ASSUME NEW k \in 0..M, NEW f \in V, NEW u \in Variable PROVE At(k, f, u) \in Text
  BY <1>2, TextType
<1>4. Stepwise(H, M, V)
  <2>1. \A k \in 1..M, f \in V : [u \in Variable |-> At(k, f, u)] \in V
    <3>1. \A k \in 1..M : k \in 0..M
      BY <1>1
    <3> HIDE DEF At
    <3>2. QED
      BY <1>3, <3>1
  <2> HIDE DEF At, V
  <2>2. QED
    BY <2>1 DEF Stepwise
<1>5. PICK g : Follows(g, c, H, M, V)
  <2> HIDE DEF M, V, H, c, At
  <2>1. QED
    BY <1>1, <1>4, Recursion
<1>6. /\ g \in [0..M -> V]
      /\ \A k \in 0..M : g[k] = IF k = 0 THEN c ELSE [u \in Variable |-> At(k, g[k - 1], u)]
  <2>1. g \in [0..M -> V] /\ g[0] = c /\ \A i \in 1..M : g[i] = H[i][g[i - 1]]
    BY <1>5 DEF Follows
  <2>2. \A i \in 1..M : g[i - 1] \in V
    <3>1. \A i \in 1..M : i - 1 \in 0..M
      BY <1>1
    <3> HIDE DEF V, At
    <3>2. QED
      BY <2>1, <3>1
  <2>3. \A i \in 1..M, f \in V : H[i][f] = [u \in Variable |-> At(i, f, u)]
    <3> HIDE DEF V, At
    <3>1. QED
      OBVIOUS
  <2>4. \A k \in 0..M : k = 0 \/ k \in 1..M
    OBVIOUS
  <2> HIDE DEF V, H, c, At
  <2>5. QED
    BY <2>1, <2>2, <2>3, <2>4
<1>7. \A k \in 0..M : g[k] = [u \in Variable |-> At(k, g[k - 1], u)]
  <2>1. \A f : c = [u \in Variable |-> At(0, f, u)]
    OBVIOUS
  <2> HIDE DEF V, H, c, At, M
  <2>2. QED
    BY <1>6, <2>1
<1>8. g = [k \in 0..M |-> [u \in Variable |-> At(k, g[k - 1], u)]]
  <2>1. g = [k \in 0..M |-> g[k]]
    BY <1>6
  <2> HIDE DEF V, H, c, At, M
  <2>2. QED
    BY <1>7, <2>1
<1> DEFINE s == ChainTexts(p, ch)
<1>9. s = [k \in 0..M |-> [u \in Variable |-> At(k, s[k - 1], u)]]
  BY <1>8 DEF ChainTexts
<1> HIDE DEF s
<1>10. \A k \in 0..M : \A u \in Variable : s[k][u] = At(k, s[k - 1], u)
  <2> DEFINE R == [k \in 0..M |-> [u \in Variable |-> At(k, s[k - 1], u)]]
  <2>1. \A k \in 0..M : \A u \in Variable : R[k][u] = At(k, s[k - 1], u)
    <3> HIDE DEF At
    <3>1. QED
      OBVIOUS
  <2>2. s = R
    BY <1>9
  <2> HIDE DEF At, R
  <2>3. QED
    BY <2>1, <2>2
<1> DEFINE T == {k \in 0..M : \A u \in Variable : s[k][u] \in Text}
<1>11. \A k \in 0..M : k \in T
  <2>1. 0 \in T
    BY <1>1, <1>10, TextType
  <2>2. ASSUME NEW k \in 1..M, k - 1 \in T PROVE k \in T
    <3>1. k \in 0..M /\ \A u \in Variable : s[k - 1][u] \in Text
      BY <2>2
    <3>2. \A u \in Variable : s[k][u] \in Text
      BY <1>2, <1>10, <3>1, TextType
    <3>3. QED
      BY <3>1, <3>2
  <2> HIDE DEF T
  <2>3. QED
    BY <1>1, <2>1, <2>2, UpTo
<1>12. QED
  BY <1>10, <1>11 DEF s

ScopeIn(N) == [outer : [Variable -> 0..N], inner : [Variable -> 0..N]]
Values == [stream : {"none", "stdout"}, when : Nat, text : Text]
Meaning == [obj : Nat \X Nat, text : Text, value : Values]

TypedProgram ==
  /\ Written(prog) /\ Len(prog) <= MaxStatements
  /\ pass \in {"write", "allocate", "scan", "warn", "rejected", "generate", "start", "execute", "done"}
  /\ pc \in 1..(MaxStatements + 1)
  /\ pass \in {"allocate", "scan", "generate", "execute"} => pc <= Len(prog)
  /\ pass \in {"write", "warn", "rejected", "start"} => pc = 1
  /\ pass # "write" => Len(prog) >= 1

TypedAnalysis ==
  /\ ids \in Seq(Identity) /\ warned \subseteq DOMAIN ids /\ rerun \in BOOLEAN
  /\ scope \in ScopeIn(Len(ids))
  /\ rooted \in [Index -> 0..Len(ids)] /\ cloned \in [Index -> 0..Len(ids)]
  /\ binding \in [Variable -> 0..Len(ids)]

\* Every $() in front of the first walk has an identity.
RootsGiven ==
  \A k \in 1..Len(prog) :
    prog[k].op \in Rooted /\ pass # "write" /\ (pass = "allocate" => k < pc) => rooted[k] # 0

TypedCode ==
  /\ Chained(prog, chains)
  /\ code \in Seq(Line)
  /\ pass \in {"write", "allocate", "scan", "warn", "rejected"} => code = << >>
  /\ pass = "generate" => /\ Len(code) = pc - 1
                          /\ \A k \in 1..(pc - 1) : prog[k].op \in Lets => binding[prog[k].x] # 0
  /\ pass \in {"start", "execute", "done"} => Len(code) = Len(prog)

TypedRun ==
  /\ clock \in Nat /\ rounds \in 1..MaxRounds
  /\ env \in [Index -> Meaning]
  /\ DOMAIN runs \subseteq Nat \X Nat
  /\ \A o \in DOMAIN runs : runs[o] \in [when : Nat, text : Text]
  /\ did.ran \in Text /\ meant.ran \in Text

Typed == TypedProgram /\ TypedAnalysis /\ RootsGiven /\ TypedCode /\ TypedRun

LEMMA TypedTypes ==
  ASSUME Typed
  PROVE  CommandsTypeOK
<1>1. /\ prog \in Seq(Statement) /\ Len(prog) <= MaxStatements
      /\ pass \in {"write", "allocate", "scan", "warn", "rejected", "generate", "start", "execute", "done"}
      /\ pc \in 1..(MaxStatements + 1)
      /\ pass \in {"allocate", "scan", "generate", "execute"} => pc <= Len(prog)
  BY DEF Typed, TypedProgram, Written
<1>2. ids \in Seq(Identity) /\ warned \subseteq DOMAIN ids /\ rerun \in BOOLEAN
  BY DEF Typed, TypedAnalysis
<1>3. \A v \in Variable : {scope.outer[v], scope.inner[v], binding[v]} \subseteq 0..Len(ids)
  BY DEF Typed, TypedAnalysis, ScopeIn
<1>4. \A n \in Index : {rooted[n], cloned[n]} \subseteq 0..Len(ids)
  BY DEF Typed, TypedAnalysis
<1>5. /\ chains \in [Variable -> Index] /\ code \in Seq(Line)
      /\ pass \in {"start", "execute", "done"} => Len(code) = Len(prog)
  BY DEF Typed, TypedCode, Chained
<1>6. rounds \in 1..MaxRounds /\ did.ran \in Text /\ meant.ran \in Text
  BY DEF Typed, TypedRun
<1>7. QED
  BY <1>1, <1>2, <1>3, <1>4, <1>5, <1>6 DEF CommandsTypeOK

LEMMA EmptyType == Empty \in Values
BY TextType DEF Empty, Value, Values

LEMMA TypedInit ==
  ASSUME CommandsInit
  PROVE  Typed
<1> USE DEF CommandsInit, AnalysisInit
<1>1. TypedProgram
  BY VariableAssumption DEF TypedProgram, Written
<1>2. TypedAnalysis
  <2>1. ids \in Seq(Identity) /\ Len(ids) = 0
    OBVIOUS
  <2>2. 0 \in 0..Len(ids)
    BY <2>1
  <2>3. Unbound \in [Variable -> 0..Len(ids)]
    BY <2>2 DEF Unbound, NoId
  <2>4. scope \in ScopeIn(Len(ids))
    BY <2>3 DEF ScopeIn, NoScope
  <2>5. QED
    BY <2>1, <2>2, <2>3, <2>4 DEF TypedAnalysis, NoId
<1>3. RootsGiven
  BY DEF RootsGiven
<1>4. TypedCode
  BY VariableAssumption DEF TypedCode, Chained, Index
<1>5. TypedRun
  <2>1. [obj |-> <<0, 0>>, text |-> NoText, value |-> Empty] \in Meaning
    BY TextType, EmptyType DEF Meaning
  <2>2. env \in [Index -> Meaning]
    BY <2>1
  <2>3. Silent.ran \in Text
    BY TextType DEF Silent
  <2>4. DOMAIN runs = {}
    OBVIOUS
  <2>5. QED
    BY <2>2, <2>3, <2>4, RoundsAssumption DEF TypedRun
<1>6. QED
  BY <1>1, <1>2, <1>3, <1>4, <1>5 DEF Typed

LEMMA TypedStutter ==
  ASSUME Typed, UNCHANGED commandVars
  PROVE  Typed'
BY DEF commandVars, analysisVars, generatorVars, executionVars, Typed, TypedProgram,
       TypedAnalysis, RootsGiven, TypedCode, TypedRun

LEMMA TypedWrite ==
  ASSUME Typed, Write, UNCHANGED <<generatorVars, executionVars>>
  PROVE  Typed'
<1> USE DEF Write, generatorVars, executionVars
<1>1. PICK s \in Statement : Extends(prog, s) /\ prog' = Append(prog, s)
  OBVIOUS
<1>2. Written(prog) /\ Len(prog) < MaxStatements /\ prog \in Seq(Statement)
  BY DEF Typed, TypedProgram, Written
<1>3. Written(prog')
  BY <1>1, <1>2, WrittenGrows
<1>4. Len(prog') = Len(prog) + 1 /\ \A k \in 1..Len(prog) : prog'[k] = prog[k]
  BY <1>1, <1>2
<1>5. TypedProgram'
  BY <1>2, <1>3, <1>4, VariableAssumption DEF Typed, TypedProgram
<1>6. TypedAnalysis' /\ TypedRun'
  BY DEF Typed, TypedAnalysis, TypedRun
<1>7. RootsGiven'
  BY DEF RootsGiven
<1>8. TypedCode'
  <2>1. Chained(prog', chains)
    BY <1>2, <1>4 DEF Typed, TypedCode, Chained
  <2>2. QED
    BY <2>1 DEF Typed, TypedCode
<1>9. QED
  BY <1>5, <1>6, <1>7, <1>8 DEF Typed

LEMMA TypedCompile ==
  ASSUME Typed, Compile, UNCHANGED <<generatorVars, executionVars>>
  PROVE  Typed'
<1> USE DEF Compile, generatorVars, executionVars
<1>1. Len(prog) \in Nat /\ prog \in Seq(Statement)
  BY DEF Typed, TypedProgram, Written
<1>2. Len(prog) >= 1 /\ pc = 1
  BY <1>1 DEF Typed, TypedProgram
<1>3. TypedProgram'
  BY <1>2 DEF Typed, TypedProgram
<1>4. TypedAnalysis' /\ TypedRun' /\ TypedCode'
  BY DEF Typed, TypedAnalysis, TypedRun, TypedCode
<1>5. RootsGiven'
  BY <1>2 DEF RootsGiven
<1>6. QED
  BY <1>3, <1>4, <1>5 DEF Typed

LEMMA TypedWarn ==
  ASSUME Typed, EmitWarnings, UNCHANGED <<generatorVars, executionVars>>
  PROVE  Typed'
<1> USE DEF EmitWarnings, generatorVars, executionVars
<1>1. TypedProgram' /\ RootsGiven'
  BY DEF Typed, TypedProgram, RootsGiven
<1>2. TypedAnalysis' /\ TypedRun'
  BY DEF Typed, TypedAnalysis, TypedRun
<1>3. TypedCode'
  <2>1. code = << >> /\ pc = 1
    BY DEF Typed, TypedCode, TypedProgram
  <2>2. QED
    BY <2>1 DEF Typed, TypedCode
<1>4. QED
  BY <1>1, <1>2, <1>3 DEF Typed

LEMMA SetOne ==
  ASSUME NEW S, NEW q \in Seq(S), NEW i, NEW e, i \in 1..Len(q) => e \in S
  PROVE  /\ [q EXCEPT ![i] = e] \in Seq(S) /\ Len([q EXCEPT ![i] = e]) = Len(q)
         /\ i \in 1..Len(q) => [q EXCEPT ![i] = e][i] = e
         /\ \A j \in 1..Len(q) : j # i => [q EXCEPT ![i] = e][j] = q[j]
<1> DEFINE r == [q EXCEPT ![i] = e]
<1>1. DOMAIN r = 1..Len(q) /\ \A j \in 1..Len(q) : r[j] = IF j = i THEN e ELSE q[j]
  OBVIOUS
<1>2. r \in [1..Len(q) -> S]
  <2>1. \A j \in 1..Len(q) : r[j] \in S
    BY <1>1
  <2>2. r = [j \in 1..Len(q) |-> r[j]]
    BY <1>1
  <2> HIDE DEF r
  <2>3. QED
    BY <2>1, <2>2
<1>3. r \in Seq(S) /\ Len(r) = Len(q)
  <2> HIDE DEF r
  <2>1. QED
    BY <1>2
<1>4. QED
  BY <1>1, <1>3

LEMMA DefineType ==
  ASSUME NEW N \in Nat, NEW sc \in ScopeIn(N), NEW s, NEW id \in 0..N
  PROVE  Define(sc, s, id) \in ScopeIn(N)
BY DEF Define, ScopeIn

LEMMA LeaveType ==
  ASSUME NEW N \in Nat, NEW sc \in ScopeIn(N)
  PROVE  Leave(sc) \in ScopeIn(N)
<1>1. Unbound \in [Variable -> 0..N]
  BY DEF Unbound, NoId
<1>2. [sc EXCEPT !.inner = Unbound] \in ScopeIn(N)
  BY <1>1 DEF ScopeIn
<1>3. QED
  BY <1>2 DEF Leave

LEMMA ScopeGrows ==
  ASSUME NEW N \in Nat, NEW sc \in ScopeIn(N)
  PROVE  sc \in ScopeIn(N + 1)
<1>1. 0..N \subseteq 0..(N + 1)
  OBVIOUS
<1>2. QED
  BY <1>1 DEF ScopeIn

LEMMA LookupType ==
  ASSUME NEW N \in Nat, scope \in ScopeIn(N), NEW v \in Variable
  PROVE  Lookup(v) \in 0..N
BY DEF ScopeIn, Lookup

\* A pass goes to the next statement, or to the next pass.
LEMMA Advances ==
  ASSUME Typed, NEW from, NEW to, Advance(from, to), pass \in {"allocate", "scan", "generate"},
         NEW s \in Statement, s = prog[pc]
  PROVE  /\ pc \in 1..Len(prog) /\ pc \in Index /\ Len(prog) \in Nat /\ prog \in Seq(Statement)
         /\ (pc < Len(prog) /\ pc' = pc + 1 /\ pass' = from /\ pc' \in 1..Len(prog)) \/
            (pc = Len(prog) /\ pc' = 1 /\ pass' = to)
         /\ 1 <= Len(prog)
<1>1. /\ prog \in Seq(Statement) /\ Len(prog) \in Nat /\ Len(prog) <= MaxStatements
      /\ pc \in 1..(MaxStatements + 1) /\ pc <= Len(prog)
  BY DEF Typed, TypedProgram, Written
<1>2. QED
  BY <1>1, VariableAssumption DEF Advance, Index

LEMMA TypedAllocate ==
  ASSUME Typed, Allocate, UNCHANGED <<generatorVars, executionVars>>
  PROVE  Typed'
<1> USE DEF generatorVars, executionVars
<1> DEFINE s == prog[pc]
           N == Len(ids)
           id == IF s.op \in Rooted THEN N + 1
                 ELSE IF s.op \in {"clone", "chain", "take"} THEN Lookup(s.y) ELSE NoId
<1>1. /\ pass = "allocate" /\ Advance("allocate", "scan")
      /\ IF s.op \in Rooted
         THEN /\ ids' = Append(ids, NewIdentity(pc, s.x, s.op \in {"for", "forRun"}))
              /\ rooted' = [rooted EXCEPT ![pc] = N + 1]
         ELSE UNCHANGED <<ids, rooted>>
      /\ scope' = Leave(IF s.op \in Binders THEN Define(scope, s, id) ELSE scope)
      /\ UNCHANGED <<prog, cloned, rerun, warned>>
  BY DEF Allocate
<1>2. prog \in Seq(Statement) /\ pc \in 1..Len(prog)
  BY <1>1 DEF Typed, TypedProgram, Written
<1>3. s \in Statement
  BY <1>2
<1>4. /\ pc \in Index /\ Len(prog) \in Nat /\ 1 <= Len(prog)
      /\ (pc < Len(prog) /\ pc' = pc + 1 /\ pass' = "allocate" /\ pc' \in 1..Len(prog)) \/
         (pc = Len(prog) /\ pc' = 1 /\ pass' = "scan")
  BY <1>1, <1>3, Advances
<1>5. /\ s.x \in Variable \cup {NoVar}
      /\ s.op \in {"clone", "chain", "take"} => s.y \in Variable
  BY <1>2, StatementIs DEF Using
<1>6. /\ ids \in Seq(Identity) /\ N \in Nat /\ warned \subseteq DOMAIN ids /\ rerun \in BOOLEAN
      /\ scope \in ScopeIn(N)
      /\ rooted \in [Index -> 0..N] /\ cloned \in [Index -> 0..N] /\ binding \in [Variable -> 0..N]
  BY DEF Typed, TypedAnalysis
<1>7. TypedProgram'
  BY <1>1, <1>2, <1>4, VariableAssumption DEF Typed, TypedProgram
<1> HIDE DEF s
<1>8. TypedAnalysis'
  <2>1. CASE s.op \in Rooted
    <3>1. NewIdentity(pc, s.x, s.op \in {"for", "forRun"}) \in Identity
      BY <1>4, <1>5 DEF NewIdentity, Identity
    <3>2. ids' \in Seq(Identity) /\ Len(ids') = N + 1 /\ warned' \subseteq DOMAIN ids'
      <4>1. ids' \in Seq(Identity) /\ Len(ids') = N + 1
        <5>1. PICK r \in Identity : ids' = Append(ids, r)
          BY <1>1, <2>1, <3>1
        <5>2. QED
          BY <1>6, <5>1
      <4>2. DOMAIN ids = 1..N /\ DOMAIN ids' = 1..(N + 1) /\ 1..N \subseteq 1..(N + 1)
        BY <1>6, <4>1
      <4>3. QED
        BY <1>1, <1>6, <4>1, <4>2
    <3>3. 0..N \subseteq 0..(N + 1) /\ N + 1 \in 0..(N + 1) /\ N + 1 \in Nat
      BY <1>6
    <3>4. rooted' \in [Index -> 0..(N + 1)] /\ cloned' \in [Index -> 0..(N + 1)]
          /\ binding' \in [Variable -> 0..(N + 1)]
      BY <1>1, <1>6, <2>1, <3>3
    <3>5. id = N + 1
      BY <2>1
    <3>6. scope' \in ScopeIn(N + 1)
      BY <1>1, <1>6, <3>3, <3>5, ScopeGrows, DefineType, LeaveType
    <3>7. QED
      BY <1>1, <1>6, <3>2, <3>4, <3>6 DEF TypedAnalysis
  <2>2. CASE s.op \notin Rooted
    <3>1. id \in 0..N
      BY <1>5, <1>6, <2>2, LookupType DEF NoId
    <3>2. scope' \in ScopeIn(N)
      BY <1>1, <1>6, <3>1, DefineType, LeaveType
    <3>3. QED
      BY <1>1, <1>6, <2>2, <3>2 DEF TypedAnalysis
  <2>3. QED
    BY <2>1, <2>2
<1>9. RootsGiven'
  <2>1. \A k \in 1..Len(prog) : k < pc /\ prog[k].op \in Rooted => rooted[k] # 0
    BY <1>1 DEF Typed, RootsGiven
  <2>2. \A k \in 1..Len(prog) : k < pc /\ prog[k].op \in Rooted => rooted'[k] # 0
    <3>1. \A k \in 1..Len(prog) : k \in Index /\ (k < pc => k # pc)
      BY <1>2, <1>4, VariableAssumption DEF Index, Typed, TypedProgram
    <3>2. \A k \in 1..Len(prog) : k < pc => rooted'[k] = rooted[k]
      BY <1>1, <1>6, <3>1
    <3>3. QED
      BY <2>1, <3>2
  <2>3. prog[pc].op \in Rooted => rooted'[pc] # 0
    BY <1>1, <1>4, <1>6 DEF s
  <2>4. \A k \in 1..Len(prog) : (pass' = "allocate" => k < pc') => k < pc \/ k = pc
    BY <1>2, <1>4
  <2>5. QED
    BY <1>1, <2>2, <2>3, <2>4 DEF RootsGiven
<1>10. TypedCode' /\ TypedRun'
  BY <1>1, <1>4 DEF Typed, TypedCode, TypedRun
<1>11. QED
  BY <1>7, <1>8, <1>9, <1>10 DEF Typed

LEMMA IdentityFlags ==
  ASSUME NEW i \in Identity, NEW s \in Statement, NEW v \in Variable \cup {NoVar}
  PROVE  /\ Marked(s, i) \in Identity
         /\ [i EXCEPT !.usedByClone = TRUE] \in Identity
         /\ [i EXCEPT !.name = v] \in Identity
BY DEF Marked, CallsRun, Identity

LEMMA WithCloneType ==
  ASSUME NEW s \in Statement, Typed, s.op \in Using => s.y \in Variable
  PROVE  /\ WithClone(s) \in Seq(Identity)
         /\ Len(WithClone(s)) = IF Clones(s) THEN Len(ids) + 1 ELSE Len(ids)
<1>1. ids \in Seq(Identity) /\ scope \in ScopeIn(Len(ids)) /\ Len(ids) \in Nat
  BY DEF Typed, TypedAnalysis
<1>2. CASE Clones(s)
  <2>1. Lookup(s.y) \in 1..Len(ids)
    BY <1>1, <1>2, LookupType DEF Clones, Using, NoId
  <2>2. PICK l \in 1..Len(ids) : l = Lookup(s.y)
    BY <2>1
  <2>3. ids[l] \in Identity /\ ids[l].root \in Index
    <3>1. ids[l] \in Identity
      BY <1>1
    <3>2. QED
      BY <3>1 DEF Identity
  <2>4. [ids EXCEPT ![l] = [ids[l] EXCEPT !.usedByClone = TRUE]] \in Seq(Identity)
        /\ Len([ids EXCEPT ![l] = [ids[l] EXCEPT !.usedByClone = TRUE]]) = Len(ids)
    <3>1. [ids[l] EXCEPT !.usedByClone = TRUE] \in Identity
      BY <2>3 DEF Identity
    <3>2. QED
      BY <1>1, <3>1, SetOne
  <2>5. NewIdentity(ids[l].root, NoVar, FALSE) \in Identity
    BY <2>3 DEF NewIdentity, Identity
  <2>6. WithClone(s) = Append([ids EXCEPT ![l] = [ids[l] EXCEPT !.usedByClone = TRUE]],
                              NewIdentity(ids[l].root, NoVar, FALSE))
    BY <1>2, <2>2 DEF WithClone
  <2> DEFINE q == [ids EXCEPT ![l] = [ids[l] EXCEPT !.usedByClone = TRUE]]
             r == NewIdentity(ids[l].root, NoVar, FALSE)
  <2>7. q \in Seq(Identity) /\ Len(q) = Len(ids) /\ r \in Identity /\ WithClone(s) = Append(q, r)
    BY <2>4, <2>5, <2>6
  <2> HIDE DEF q, r
  <2>8. QED
    BY <1>1, <1>2, <2>7
<1>3. CASE ~Clones(s)
  BY <1>1, <1>3 DEF WithClone
<1>4. QED
  BY <1>2, <1>3

LEMMA TypedScan ==
  ASSUME Typed, Scan, UNCHANGED <<generatorVars, executionVars>>
  PROVE  Typed'
<1> USE DEF generatorVars, executionVars
<1> DEFINE s == prog[pc]
           N == Len(ids)
           id == Receiver(s)
<1>1. /\ pass = "scan" /\ Advance("scan", "warn")
      /\ scope' = Leave(Define(scope, s, Extracted(s)))
      /\ cloned' = IF Clones(s) THEN [cloned EXCEPT ![pc] = Extracted(s)] ELSE cloned
      /\ ids' = IF id = NoId THEN WithClone(s)
                ELSE [WithClone(s) EXCEPT ![id] = Marked(s, WithClone(s)[id])]
      /\ rerun' \in BOOLEAN
      /\ UNCHANGED <<prog, rooted, warned>>
  BY DEF Scan
<1>2. prog \in Seq(Statement) /\ pc \in 1..Len(prog)
  BY <1>1 DEF Typed, TypedProgram, Written
<1>3. s \in Statement
  BY <1>2
<1>4. /\ pc \in Index /\ Len(prog) \in Nat /\ 1 <= Len(prog)
      /\ (pc < Len(prog) /\ pc' = pc + 1 /\ pass' = "scan" /\ pc' \in 1..Len(prog)) \/
         (pc = Len(prog) /\ pc' = 1 /\ pass' = "warn")
  BY <1>1, <1>3, Advances
<1>5. s.op \in Using => s.y \in Variable
  BY <1>2, StatementIs
<1>6. /\ ids \in Seq(Identity) /\ N \in Nat /\ warned \subseteq DOMAIN ids /\ rerun \in BOOLEAN
      /\ scope \in ScopeIn(N)
      /\ rooted \in [Index -> 0..N] /\ cloned \in [Index -> 0..N] /\ binding \in [Variable -> 0..N]
  BY DEF Typed, TypedAnalysis
<1>7. TypedProgram'
  BY <1>1, <1>2, <1>4, VariableAssumption DEF Typed, TypedProgram
<1> HIDE DEF s
<1> DEFINE N1 == IF Clones(s) THEN N + 1 ELSE N
           w == WithClone(s)
<1>8. w \in Seq(Identity) /\ Len(w) = N1 /\ N1 \in Nat
  BY <1>3, <1>5, <1>6, WithCloneType
<1>9. 0..N \subseteq 0..N1 /\ 1..N \subseteq 1..N1
  BY <1>6
<1>10. ids' \in Seq(Identity) /\ Len(ids') = N1
  <2>1. CASE id = NoId
    BY <1>1, <1>8, <2>1
  <2>2. CASE id # NoId
    <3>1. id \in 1..Len(w) => Marked(s, w[id]) \in Identity
      <4>1. id \in 1..Len(w) => w[id] \in Identity
        BY <1>8
      <4>2. QED
        BY <1>3, <4>1, IdentityFlags
    <3>2. ids' = [w EXCEPT ![id] = Marked(s, w[id])]
      BY <1>1, <2>2
    <3> HIDE DEF w, id, N1
    <3>3. QED
      BY <1>8, <3>1, <3>2, SetOne
  <2>3. QED
    BY <2>1, <2>2
<1>11. warned' \subseteq DOMAIN ids'
  <2>1. DOMAIN ids = 1..N /\ DOMAIN ids' = 1..N1
    BY <1>6, <1>10
  <2>2. QED
    BY <1>1, <1>6, <1>9, <2>1
<1>12. Extracted(s) \in 0..N1
  <2>1. rooted[pc] \in 0..N
    BY <1>4, <1>6
  <2>2. QED
    BY <1>6, <1>9, <2>1 DEF Extracted, NoId
<1>13. scope' \in ScopeIn(N1)
  <2>1. scope \in ScopeIn(N1)
    BY <1>6, ScopeGrows
  <2>2. QED
    BY <1>1, <1>8, <1>12, <2>1, DefineType, LeaveType
<1>14. /\ rooted' \in [Index -> 0..N1] /\ cloned' \in [Index -> 0..N1]
       /\ binding' \in [Variable -> 0..N1]
  <2>1. rooted' \in [Index -> 0..N1] /\ cloned \in [Index -> 0..N1] /\ binding' \in [Variable -> 0..N1]
    BY <1>1, <1>6, <1>9
  <2> HIDE DEF N1
  <2>2. QED
    BY <1>1, <1>12, <2>1
<1>15. TypedAnalysis'
  <2> HIDE DEF N1
  <2>1. QED
    BY <1>1, <1>10, <1>11, <1>13, <1>14 DEF TypedAnalysis
<1>16. RootsGiven' /\ TypedCode' /\ TypedRun'
  BY <1>1, <1>4 DEF Typed, RootsGiven, TypedCode, TypedRun
<1>17. QED
  BY <1>7, <1>15, <1>16 DEF Typed

Name == Variable \cup {NoVar}

LEMMA NoLineType == NoLine \in Line
BY TextType DEF NoLine, Line, Name

LEMMA RunLineType ==
  ASSUME NEW t \in Text, NEW x \in Name, NEW y \in Name, NEW e, e \in {"stdout", "stderr"}
  PROVE  [NoLine EXCEPT !.runs = t, !.into = x, !.stream = e, !.exit = y] \in Line
BY TextType DEF NoLine, Line, Name

LEMMA TakeLineType ==
  ASSUME NEW l \in Line, NEW cp \in Name, NEW fr \in Name
  PROVE  [l EXCEPT !.copy = cp, !.from = fr] \in Line
BY DEF Line, Name

LEMMA OtherLineType ==
  /\ \A t \in Text : [NoLine EXCEPT !.runs = t] \in Line
  /\ \A x \in Name : [NoLine EXCEPT !.shows = x] \in Line
  /\ \A x \in Name, b \in BOOLEAN : [NoLine EXCEPT !.shows = x, !.code = b] \in Line
BY TextType DEF NoLine, Line, Name

LEMMA ChainTextType ==
  ASSUME Typed, NEW v \in Variable
  PROVE  ChainText(v) \in Text
<1>1. Written(prog) /\ Len(prog) <= MaxStatements /\ Chained(prog, chains)
  BY DEF Typed, TypedProgram, TypedCode
<1>2. ChainText(v) = ChainTexts(prog, chains)[MaxStatements][v]
  BY DEF ChainText, ChainTexts
<1>3. MaxStatements \in 0..MaxStatements
  BY VariableAssumption
<1>4. QED
  BY <1>1, <1>2, <1>3, ChainTextsIs

LEMMA LineOfType ==
  ASSUME Typed, pass = "generate"
  PROVE  LineOf(prog[pc]) \in Line
<1> DEFINE s == prog[pc]
<1>1. /\ prog \in Seq(Statement) /\ pc \in 1..Len(prog) /\ Written(prog) /\ pc \in Index
      /\ Len(prog) <= MaxStatements
  BY VariableAssumption DEF Typed, TypedProgram, Written, Index
<1>2. /\ s \in Statement /\ s.op \in Op /\ s.x \in Name /\ s.y \in Name
      /\ s.op \in Using => s.y \in Variable
      /\ s.op \in Binders => s.x \in Variable
  BY <1>1, StatementIs DEF Name
<1>3. /\ ids \in Seq(Identity) /\ Len(ids) \in Nat
      /\ binding \in [Variable -> 0..Len(ids)] /\ rooted \in [Index -> 0..Len(ids)]
      /\ \A k \in 1..(pc - 1) : prog[k].op \in Lets => binding[prog[k].x] # 0
  BY DEF Typed, TypedAnalysis, TypedCode
<1>4. \A i \in 1..Len(ids) : /\ ids[i].name \in Name
                             /\ {ids[i].text, ids[i].stderr, ids[i].status} \subseteq BOOLEAN
  <2>1. \A i \in 1..Len(ids) : ids[i] \in Identity
    BY <1>3
  <2>2. QED
    BY <2>1 DEF Identity, Name
<1>5. s.op \in Calls \cup {"runClone"} => binding[s.y] \in 1..Len(ids)
  <2>1. ASSUME s.op \in Calls \cup {"runClone"} PROVE binding[s.y] # 0
    <3>1. s.op \in Using /\ s.op # "print"
      BY <2>1 DEF Using, Calls, Reads
    <3>2. Decl(prog, pc) \in 1..(pc - 1) /\ prog[Decl(prog, pc)].op \in Binders
          /\ prog[Decl(prog, pc)].x = s.y
      BY <1>1, <3>1, DeclIs
    <3>3. prog[Decl(prog, pc)].op \in Lets
      BY <1>1, <3>1, <3>2 DEF Written, Binders, Lets
    <3>4. QED
      BY <1>3, <3>2, <3>3
  <2>2. s.op \in Calls \cup {"runClone"} => s.y \in Variable
    BY <1>2 DEF Using, Calls, Reads
  <2>3. QED
    BY <1>3, <2>1, <2>2
<1>6. s.op = "fetch" => rooted[pc] \in 1..Len(ids)
  <2>1. s.op = "fetch" => rooted[pc] # 0
    BY <1>1 DEF Typed, RootsGiven, Rooted
  <2>2. QED
    BY <1>1, <1>3, <2>1
<1>7. ASSUME NEW i \in 1..Len(ids), NEW t \in Text
      PROVE  /\ RunLine(i, t) \in Line
             /\ s.x \in Name => TakeLine(s, i, t) \in Line
             /\ CaptureVar(i) \in Name
  <2>1. CaptureVar(i) \in Name /\ NoVar \in Name
    BY <1>4 DEF CaptureVar, Name
  <2>2. PICK x \in Name, y \in Name, e \in {"stdout", "stderr"} :
          RunLine(i, t) = [NoLine EXCEPT !.runs = t, !.into = x, !.stream = e, !.exit = y]
    BY <2>1 DEF RunLine
  <2>3. RunLine(i, t) \in Line
    <3>1. [NoLine EXCEPT !.runs = t, !.into = x, !.stream = e, !.exit = y] \in Line
      BY RunLineType
    <3>2. QED
      BY <2>2, <3>1
  <2>4. TakeLine(s, i, t) \in Line
    <3>1. PICK c \in Name : TakeLine(s, i, t) = [RunLine(i, t) EXCEPT !.copy = c, !.from = CaptureVar(i)]
      BY <1>2, <2>1 DEF TakeLine
    <3>2. QED
      BY <2>1, <2>3, <3>1, TakeLineType
  <2>5. QED
    BY <2>1, <2>3, <2>4
<1>8. \A v \in Variable : ChainText(v) \in Text
  BY ChainTextType
<1>9. Plain(pc) \in Text
  BY <1>1, TextType
<1> HIDE DEF s
<1>10. CASE s.op \in Lets
  <2>1. LineOf(s) = NoLine
    BY <1>10 DEF LineOf, Lets, Reads
  <2>2. QED
    BY <2>1, NoLineType DEF s
<1>11. CASE s.op \in {"run", "runClone"}
  <2>1. LineOf(s) = RunLine(binding[s.y], ChainText(s.y))
    BY <1>11 DEF LineOf, Reads
  <2>2. binding[s.y] \in 1..Len(ids) /\ s.y \in Variable
    BY <1>2, <1>5, <1>11 DEF Calls, Using
  <2>3. QED
    BY <1>7, <1>8, <2>1, <2>2 DEF s
<1>12. CASE s.op = "take"
  <2>1. LineOf(s) = TakeLine(s, binding[s.y], ChainText(s.y))
    BY <1>12 DEF LineOf, Reads
  <2>2. binding[s.y] \in 1..Len(ids) /\ s.y \in Variable
    BY <1>2, <1>5, <1>12 DEF Calls, Using
  <2>3. QED
    BY <1>2, <1>7, <1>8, <2>1, <2>2 DEF s
<1>13. CASE s.op = "fetch"
  <2>1. LineOf(s) = TakeLine(s, rooted[pc], Plain(pc))
    BY <1>13 DEF LineOf, Reads
  <2>2. QED
    BY <1>2, <1>6, <1>7, <1>9, <1>13, <2>1 DEF s
<1>14. CASE s.op \in {"for", "forRun"}
  <2>1. LineOf(s) = [NoLine EXCEPT !.runs = Plain(pc)]
    BY <1>14 DEF LineOf, Reads
  <2>2. QED
    BY <1>9, <2>1, OtherLineType DEF s
<1>15. CASE s.op \in Reads
  <2>1. LineOf(s) = [NoLine EXCEPT !.shows = CaptureVar(binding[s.y]), !.code = (s.op = "status")]
    BY <1>15 DEF LineOf, Reads
  <2>2. binding[s.y] \in 1..Len(ids)
    BY <1>5, <1>15 DEF Calls
  <2>3. CaptureVar(binding[s.y]) \in Name
    BY <1>7, <1>9, <2>2
  <2>4. (s.op = "status") \in BOOLEAN
    OBVIOUS
  <2>5. QED
    BY <2>1, <2>3, <2>4, OtherLineType DEF s
<1>16. CASE s.op = "print"
  <2>1. LineOf(s) = [NoLine EXCEPT !.shows = s.y]
    BY <1>16 DEF LineOf, Reads
  <2>2. QED
    BY <1>2, <2>1, OtherLineType DEF s
<1>17. QED
  BY <1>2, <1>10, <1>11, <1>12, <1>13, <1>14, <1>15, <1>16
     DEF Op, Binders, Using, Rooted, Lets, Reads

LEMMA LazyIdIs ==
  ASSUME Typed, pass = "generate", prog[pc].op \in Lets
  PROVE  /\ LazyId(pc) \in 1..Len(ids)
         /\ prog[pc].op = "literal" => LazyId(pc) = rooted[pc]
         /\ prog[pc].op = "clone" /\ cloned[pc] # 0 => LazyId(pc) = cloned[pc]
         /\ prog[pc].op = "chain" => LazyId(pc) = binding[prog[pc].y]
<1> DEFINE s == prog[pc]
<1>1. /\ prog \in Seq(Statement) /\ pc \in 1..Len(prog) /\ Written(prog) /\ pc \in Index
      /\ Len(prog) <= MaxStatements
  BY VariableAssumption DEF Typed, TypedProgram, Written, Index
<1>2. /\ ids \in Seq(Identity) /\ Len(ids) \in Nat
      /\ binding \in [Variable -> 0..Len(ids)] /\ rooted \in [Index -> 0..Len(ids)]
      /\ cloned \in [Index -> 0..Len(ids)]
      /\ \A k \in 1..(pc - 1) : prog[k].op \in Lets => binding[prog[k].x] # 0
  BY DEF Typed, TypedAnalysis, TypedCode
<1>3. s.op = "literal" => rooted[pc] \in 1..Len(ids)
  <2>1. s.op = "literal" => rooted[pc] # 0
    BY <1>1 DEF Typed, RootsGiven, Rooted
  <2>2. QED
    BY <1>1, <1>2, <2>1
<1>4. s.op \in {"clone", "chain"} => binding[s.y] \in 1..Len(ids)
  <2>1. ASSUME s.op \in {"clone", "chain"} PROVE binding[s.y] \in 1..Len(ids)
    <3>1. /\ Decl(prog, pc) \in 1..(pc - 1) /\ prog[Decl(prog, pc)].op \in Lets
          /\ prog[Decl(prog, pc)].x = s.y /\ s.y \in Variable
      BY <1>1, <2>1, UsedDecl
    <3>2. binding[s.y] # 0 /\ binding[s.y] \in 0..Len(ids)
      BY <1>2, <3>1
    <3>3. QED
      BY <1>2, <3>2
  <2>2. QED
    BY <2>1
<1>5. cloned[pc] \in 0..Len(ids)
  BY <1>1, <1>2
<1>6. QED
  BY <1>2, <1>3, <1>4, <1>5 DEF LazyId, Lets, NoId

LEMMA TypedGenerate ==
  ASSUME Typed, Generate
  PROVE  Typed'
<1> DEFINE s == prog[pc]
           N == Len(ids)
           l == LazyId(pc)
<1>1. /\ pass = "generate" /\ Advance("generate", "start")
      /\ code' = Append(code, LineOf(s))
      /\ IF s.op \in Lets
         THEN /\ binding' = [binding EXCEPT ![s.x] = l]
              /\ chains' = [chains EXCEPT ![s.x] = pc]
              /\ ids' = [ids EXCEPT ![l] = [ids[l] EXCEPT !.name =
                                               IF ids[l].name = NoVar THEN s.x ELSE ids[l].name]]
         ELSE UNCHANGED <<binding, chains, ids>>
      /\ UNCHANGED <<prog, scope, rooted, cloned, rerun, warned>>
      /\ UNCHANGED <<clock, rounds, shell, env, runs, did, meant>>
  BY DEF Generate, executionVars, Lets
<1>2. prog \in Seq(Statement) /\ pc \in 1..Len(prog)
  BY <1>1 DEF Typed, TypedProgram, Written
<1>3. s \in Statement
  BY <1>2
<1>4. /\ pc \in Index /\ Len(prog) \in Nat /\ 1 <= Len(prog)
      /\ (pc < Len(prog) /\ pc' = pc + 1 /\ pass' = "generate" /\ pc' \in 1..Len(prog)) \/
         (pc = Len(prog) /\ pc' = 1 /\ pass' = "start")
  BY <1>1, <1>3, Advances
<1>5. s.op \in Lets => s.x \in Variable
  BY <1>2, StatementIs DEF Binders, Lets
<1>6. /\ ids \in Seq(Identity) /\ N \in Nat /\ warned \subseteq DOMAIN ids /\ rerun \in BOOLEAN
      /\ scope \in ScopeIn(N)
      /\ rooted \in [Index -> 0..N] /\ cloned \in [Index -> 0..N] /\ binding \in [Variable -> 0..N]
  BY DEF Typed, TypedAnalysis
<1>7. TypedProgram'
  BY <1>1, <1>2, <1>4, VariableAssumption DEF Typed, TypedProgram
<1>8. s.op \in Lets => l \in 1..N /\ l # 0
  BY <1>1, <1>6, LazyIdIs
<1> HIDE DEF l
<1>9. ids' \in Seq(Identity) /\ Len(ids') = N
  <2>1. CASE s.op \in Lets
    <3>1. ids[l] \in Identity
      BY <1>6, <1>8, <2>1
    <3>2. ids[l].name \in Variable \cup {NoVar}
      BY <3>1 DEF Identity
    <3>3. PICK v \in Variable \cup {NoVar} : ids' = [ids EXCEPT ![l] = [ids[l] EXCEPT !.name = v]]
      BY <1>1, <1>5, <2>1, <3>2
    <3>4. [ids[l] EXCEPT !.name = v] \in Identity
      BY <3>1 DEF Identity
    <3>5. QED
      BY <1>6, <3>3, <3>4, SetOne
  <2>2. CASE s.op \notin Lets
    BY <1>1, <1>6, <2>2
  <2>3. QED
    BY <2>1, <2>2
<1>10. binding' \in [Variable -> 0..N]
  <2>1. s.op \in Lets => l \in 0..N
    BY <1>6, <1>8
  <2>2. QED
    BY <1>1, <1>6, <2>1
<1>11. TypedAnalysis'
  <2>1. DOMAIN ids' = DOMAIN ids
    BY <1>6, <1>9
  <2>2. QED
    BY <1>1, <1>6, <1>9, <1>10, <2>1 DEF TypedAnalysis
<1>12. RootsGiven'
  BY <1>1, <1>4 DEF Typed, RootsGiven
<1>13. Chained(prog, chains')
  <2>1. Chained(prog, chains)
    BY DEF Typed, TypedCode
  <2>2. QED
    BY <1>1, <1>2, <1>4, <1>5, <2>1 DEF Chained
<1>14. code' \in Seq(Line) /\ Len(code') = pc
  <2>1. LineOf(s) \in Line
    BY <1>1, LineOfType
  <2>2. code \in Seq(Line) /\ Len(code) = pc - 1
    BY <1>1 DEF Typed, TypedCode
  <2>3. PICK r \in Line : code' = Append(code, r)
    BY <1>1, <2>1
  <2>4. QED
    BY <1>2, <2>2, <2>3
<1>15. \A k \in 1..pc : prog[k].op \in Lets => binding'[prog[k].x] # 0
  <2>1. \A k \in 1..(pc - 1) : prog[k].op \in Lets => binding[prog[k].x] # 0
    BY <1>1 DEF Typed, TypedCode
  <2>2. \A k \in 1..pc : k \in 1..(pc - 1) \/ k = pc
    BY <1>2
  <2>3. \A v \in Variable : binding[v] # 0 => binding'[v] # 0
    BY <1>1, <1>6, <1>8
  <2>4. s.op \in Lets => binding'[s.x] # 0
    BY <1>1, <1>5, <1>6, <1>8
  <2>5. \A k \in 1..(pc - 1) : prog[k].op \in Lets => prog[k].x \in Variable
    <3>1. \A k \in 1..(pc - 1) : k \in 1..Len(prog)
      BY <1>2
    <3>2. QED
      BY <1>2, <3>1, StatementIs DEF Binders, Lets
  <2>6. QED
    BY <2>1, <2>2, <2>3, <2>4, <2>5
<1>16. TypedCode'
  BY <1>1, <1>2, <1>4, <1>13, <1>14, <1>15 DEF TypedCode
<1>17. TypedRun'
  BY <1>1 DEF Typed, TypedRun
<1>18. QED
  BY <1>7, <1>11, <1>12, <1>16, <1>17 DEF Typed

\* Where execution goes: into a block, over it, on, or back to its start.
LEMMA EnteringIs ==
  ASSUME Written(prog), NEW n \in 1..(Len(prog) + 1), NEW m \in Entering(n)
  PROVE  /\ m \in 1..(Len(prog) + 1)
         /\ m = n \/ (/\ n \in 1..Len(prog) /\ prog[n].block /\ m = BlockEnd(prog, n) + 1 /\ m > n
                      /\ SameBlock(prog, n, m - 1) /\ (m \in 1..Len(prog) => ~prog[m].block))
<1>1. prog \in Seq(Statement) /\ Len(prog) \in Nat
  BY DEF Written
<1>2. CASE n \in 1..Len(prog) /\ prog[n].block /\ m = BlockEnd(prog, n) + 1
  <2>1. PICK b \in n..Len(prog) : b = BlockEnd(prog, n) /\ SameBlock(prog, n, b)
    BY <1>1, <1>2, BlockEndIs
  <2>2. m = b + 1 /\ m \in 1..(Len(prog) + 1) /\ m - 1 = b /\ m > n
    BY <1>1, <1>2, <2>1
  <2>3. m \in 1..Len(prog) => ~prog[m].block
    BY <1>1, <1>2, <2>1, BlockEndIs
  <2>4. QED
    BY <1>2, <2>1, <2>2, <2>3
<1>3. m = n \/ (n \in 1..Len(prog) /\ prog[n].block /\ m = BlockEnd(prog, n) + 1)
  BY <1>1 DEF Entering
<1>4. QED
  BY <1>2, <1>3

LEMMA FollowingIs ==
  ASSUME Written(prog), pc \in 1..Len(prog), NEW m \in Following(pc)
  PROVE  /\ m \in 1..(Len(prog) + 1)
         /\ \/ m = pc + 1
            \/ /\ m > pc + 1 /\ ~prog[pc].block /\ SameBlock(prog, pc + 1, m - 1)
               /\ pc + 1 \in 1..Len(prog)
               /\ m \in 1..Len(prog) => ~prog[m].block
            \/ m = BlockStart(prog, pc) /\ prog[pc].block /\ m <= pc /\ rounds < MaxRounds
<1>1. prog \in Seq(Statement) /\ Len(prog) \in Nat
  BY DEF Written
<1>2. CASE ~prog[pc].block
  <2>1. m \in Entering(pc + 1) /\ pc + 1 \in 1..(Len(prog) + 1)
    BY <1>1, <1>2 DEF Following
  <2>2. QED
    BY <1>2, <2>1, EnteringIs
<1>3. CASE prog[pc].block
  <2>1. m = pc + 1 \/ (m = BlockStart(prog, pc) /\ rounds < MaxRounds)
    BY <1>3 DEF Following
  <2>2. BlockStart(prog, pc) \in 1..pc
    BY <1>1, <1>3, BlockStartIs
  <2>3. pc + 1 \in 1..(Len(prog) + 1) /\ \A k \in 1..pc : k <= pc /\ k \in 1..(Len(prog) + 1)
    BY <1>1
  <2>4. QED
    BY <1>3, <2>1, <2>2, <2>3
<1>4. QED
  BY <1>2, <1>3

LEMMA TypedStart ==
  ASSUME Typed, Start
  PROVE  Typed'
<1>1. /\ pass = "start"
      /\ UNCHANGED <<prog, scope, ids, rooted, cloned, rerun, warned, generatorVars, executionVars>>
  BY DEF Start
<1>2. PICK n \in Entering(1) : pc' = n /\ pass' = IF n <= Len(prog) THEN "execute" ELSE "done"
  BY DEF Start
<1>3. Written(prog) /\ Len(prog) \in Nat /\ Len(prog) <= MaxStatements /\ 1 <= Len(prog)
  BY <1>1 DEF Typed, TypedProgram, Written
<1>4. n \in 1..(Len(prog) + 1)
  BY <1>3, EnteringIs
<1>5. TypedProgram'
  BY <1>1, <1>2, <1>3, <1>4, VariableAssumption DEF Typed, TypedProgram
<1>6. TypedAnalysis' /\ RootsGiven' /\ TypedCode' /\ TypedRun'
  BY <1>1, <1>2 DEF Typed, TypedAnalysis, RootsGiven, TypedCode, TypedRun, generatorVars, executionVars
<1>7. QED
  BY <1>5, <1>6 DEF Typed

LEMMA MeaningType ==
  ASSUME NEW m \in Meaning, NEW t \in Text, NEW c \in Nat, NEW n \in Nat
  PROVE  /\ [obj |-> <<n, c>>, text |-> t, value |-> Empty] \in Meaning
         /\ [m EXCEPT !.obj = <<n, c>>] \in Meaning
         /\ [m EXCEPT !.text = t] \in Meaning
         /\ Value("stdout", c, t) \in Values
         /\ [m EXCEPT !.value = Value("stdout", c, t)] \in Meaning
         /\ m.text \in Text /\ m.obj \in Nat \X Nat
<1>1. <<n, c>> \in Nat \X Nat /\ Value("stdout", c, t) \in Values
  BY DEF Value, Values
<1>2. QED
  BY <1>1, EmptyType DEF Meaning

LEMMA TypedMeaning ==
  ASSUME Typed, pass = "execute", clock' = clock + 1, MeanStatement(prog[pc])
  PROVE  /\ env' \in [Index -> Meaning]
         /\ DOMAIN runs' \subseteq Nat \X Nat
         /\ \A o \in DOMAIN runs' : runs'[o] \in [when : Nat, text : Text]
         /\ meant'.ran \in Text
<1> DEFINE s == prog[pc]
           d == DeclOf(prog, s.y, pc)
           f == env[d]
<1>1. /\ prog \in Seq(Statement) /\ pc \in 1..Len(prog) /\ Written(prog) /\ pc \in Index /\ pc \in Nat
      /\ Len(prog) <= MaxStatements
  BY VariableAssumption DEF Typed, TypedProgram, Written, Index
<1>2. s.op \in Op
  BY <1>1, StatementIs
<1>3. /\ clock' \in Nat
      /\ env \in [Index -> Meaning] /\ DOMAIN runs \subseteq Nat \X Nat
      /\ \A o \in DOMAIN runs : runs[o] \in [when : Nat, text : Text]
  BY DEF Typed, TypedRun
<1>4. ASSUME s.op \in Using PROVE f \in Meaning /\ f.text \in Text /\ f.obj \in Nat \X Nat
  <2>1. d \in 1..Len(prog)
    BY <1>1, <1>4, DeclIs DEF Decl
  <2>2. 1..Len(prog) \subseteq Index
    BY <1>1, VariableAssumption DEF Index
  <2>3. f \in Meaning
    BY <1>3, <2>1, <2>2
  <2>4. QED
    BY <2>3 DEF Meaning
<1>5. Plain(pc) \in Text /\ NoText \in Text /\ env[pc] \in Meaning
  BY <1>1, <1>3, TextType
<1> HIDE DEF s, d, f
<1>6. CASE s.op = "literal"
  <2>1. /\ env' = [env EXCEPT ![pc] = [obj |-> <<pc, clock'>>, text |-> Plain(pc), value |-> Empty]]
        /\ meant' = Silent /\ UNCHANGED runs
    BY <1>6 DEF MeanStatement, Reads, s
  <2>2. [obj |-> <<pc, clock'>>, text |-> Plain(pc), value |-> Empty] \in Meaning
    BY <1>1, <1>3, <1>5, MeaningType
  <2>3. QED
    BY <1>3, <1>5, <2>1, <2>2 DEF Silent
<1>7. CASE s.op = "clone"
  <2>1. /\ env' = [env EXCEPT ![pc] = [f EXCEPT !.obj = <<pc, clock'>>]]
        /\ meant' = Silent /\ UNCHANGED runs
    BY <1>7 DEF MeanStatement, Reads, s, f, d
  <2>2. [f EXCEPT !.obj = <<pc, clock'>>] \in Meaning
    BY <1>1, <1>3, <1>4, <1>5, <1>7, MeaningType DEF Using
  <2>3. QED
    BY <1>3, <1>5, <2>1, <2>2 DEF Silent
<1>8. CASE s.op = "chain"
  <2>1. /\ env' = [env EXCEPT ![pc] = [f EXCEPT !.text = Chain(f.text, pc)]]
        /\ meant' = Silent /\ UNCHANGED runs
    BY <1>8 DEF MeanStatement, Reads, s, f, d
  <2>2. Chain(f.text, pc) \in Text
    BY <1>1, <1>4, <1>8, TextType DEF Using
  <2>3. [f EXCEPT !.text = Chain(f.text, pc)] \in Meaning
    BY <1>1, <1>3, <1>4, <1>8, <2>2, MeaningType DEF Using
  <2>4. QED
    BY <1>3, <1>5, <2>1, <2>3 DEF Silent
<1>9. CASE s.op \in {"run", "take"}
  <2>1. f \in Meaning /\ f.text \in Text /\ f.obj \in Nat \X Nat
    BY <1>4, <1>9 DEF Using
  <2> DEFINE r == [when |-> clock', text |-> f.text]
  <2>2. /\ runs' = [o \in DOMAIN runs \cup {f.obj} |-> IF o = f.obj THEN r ELSE runs[o]]
        /\ meant' = [ran |-> f.text, shown |-> Empty]
        /\ env' = IF s.op = "run" THEN env
                  ELSE [env EXCEPT ![pc] = [env[pc] EXCEPT !.value = Value("stdout", clock', f.text)]]
    BY <1>9 DEF MeanStatement, Reads, s, f, d
  <2>3. r \in [when : Nat, text : Text]
    BY <1>3, <2>1
  <2>4. [env[pc] EXCEPT !.value = Value("stdout", clock', f.text)] \in Meaning
    BY <1>1, <1>3, <1>5, <2>1, MeaningType
  <2>5. env' \in [Index -> Meaning] /\ meant'.ran \in Text
    BY <1>3, <2>1, <2>2, <2>4
  <2> HIDE DEF r
  <2>6. /\ DOMAIN runs' = DOMAIN runs \cup {f.obj}
        /\ \A o \in DOMAIN runs' : runs'[o] = IF o = f.obj THEN r ELSE runs[o]
    BY <2>2
  <2>7. QED
    BY <1>3, <2>1, <2>3, <2>5, <2>6
<1>10. CASE s.op = "runClone"
  <2>1. meant' = [ran |-> f.text, shown |-> Empty] /\ UNCHANGED <<env, runs>>
    BY <1>10 DEF MeanStatement, Reads, s, f, d
  <2>2. QED
    BY <1>3, <1>4, <1>10, <2>1 DEF Using
<1>11. CASE s.op \in {"fetch", "for", "forRun"}
  <2>1. /\ env' = [env EXCEPT ![pc] = [env[pc] EXCEPT !.value = Value("stdout", clock', Plain(pc))]]
        /\ meant' = [ran |-> Plain(pc), shown |-> Empty] /\ UNCHANGED runs
    BY <1>11 DEF MeanStatement, Reads, s, f, d
  <2>2. [env[pc] EXCEPT !.value = Value("stdout", clock', Plain(pc))] \in Meaning
    BY <1>1, <1>3, <1>5, MeaningType
  <2>3. QED
    BY <1>3, <1>5, <2>1, <2>2
<1>12. CASE s.op \in Reads \cup {"print"}
  <2>1. CASE s.op \in Reads
    <3>1. /\ meant' = [ran |-> NoText, shown |-> LastRun(s.op, f.obj)]
          /\ UNCHANGED <<env, runs>>
      BY <2>1 DEF MeanStatement, Reads, s, f, d
    <3>2. QED
      BY <1>3, <1>5, <3>1
  <2>2. CASE s.op = "print"
    <3>1. meant' = [ran |-> NoText, shown |-> f.value] /\ UNCHANGED <<env, runs>>
      BY <2>2 DEF MeanStatement, Reads, s, f, d
    <3>2. QED
      BY <1>3, <1>5, <3>1
  <2>3. QED
    BY <1>12, <2>1, <2>2
<1>13. QED
  BY <1>2, <1>6, <1>7, <1>8, <1>9, <1>10, <1>11, <1>12 DEF Op, Binders, Using, Rooted, s

LEMMA TypedExecute ==
  ASSUME Typed, Execute
  PROVE  Typed'
<1>1. /\ pass = "execute" /\ clock' = clock + 1
      /\ ExecuteLine(code[pc]) /\ MeanStatement(prog[pc])
      /\ UNCHANGED <<prog, scope, ids, rooted, cloned, rerun, warned, generatorVars>>
  BY DEF Execute
<1>2. PICK n \in Following(pc) :
        /\ pc' = n
        /\ rounds' = IF n <= pc THEN rounds + 1
                     ELSE IF prog[pc].block /\ n <= BlockEnd(prog, pc) THEN rounds ELSE 1
        /\ pass' = IF n <= Len(prog) THEN "execute" ELSE "done"
  BY DEF Execute
<1>3. /\ Written(prog) /\ Len(prog) \in Nat /\ Len(prog) <= MaxStatements /\ 1 <= Len(prog)
      /\ pc \in 1..Len(prog)
  BY <1>1 DEF Typed, TypedProgram, Written
<1>4. n \in 1..(Len(prog) + 1) /\ (n <= pc => rounds < MaxRounds)
  BY <1>3, FollowingIs
<1>5. TypedProgram'
  BY <1>1, <1>2, <1>3, <1>4, VariableAssumption DEF Typed, TypedProgram
<1>6. TypedAnalysis' /\ RootsGiven' /\ TypedCode'
  BY <1>1, <1>2 DEF Typed, TypedAnalysis, RootsGiven, TypedCode, generatorVars
<1>7. rounds' \in 1..MaxRounds
  BY <1>2, <1>4, RoundsAssumption DEF Typed, TypedRun
<1>8. did'.ran \in Text
  <2>1. code[pc] \in Line
    BY <1>1, <1>3 DEF Typed, TypedCode
  <2>2. did'.ran = code[pc].runs
    BY <1>1 DEF ExecuteLine
  <2>3. QED
    BY <2>1, <2>2 DEF Line
<1>9. TypedRun'
  BY <1>1, <1>7, <1>8, TypedMeaning DEF Typed, TypedRun
<1>10. QED
  BY <1>5, <1>6, <1>9 DEF Typed

LEMMA TypedNext ==
  ASSUME Typed, [CommandsNext]_commandVars
  PROVE  Typed'
<1>1. CASE AnalysisNext /\ UNCHANGED <<generatorVars, executionVars>>
  BY <1>1, TypedWrite, TypedCompile, TypedAllocate, TypedScan, TypedWarn DEF AnalysisNext
<1>2. QED
  BY <1>1, TypedGenerate, TypedStart, TypedExecute, TypedStutter DEF CommandsNext

\* Types (CmdAnalysis, codegen): every identity has its shape, every name and every
\* statement an identity that exists, every statement its line, for every program
\* that the validator lets through.
THEOREM CommandsTypeCorrect == CommandsSpec => []CommandsTypeOK
<1>1. CommandsInit => Typed
  BY TypedInit
<1>2. Typed /\ [CommandsNext]_commandVars => Typed'
  BY TypedNext
<1>3. Typed => CommandsTypeOK
  BY TypedTypes
<1>4. QED
  BY <1>1, <1>2, <1>3, PTL DEF CommandsSpec

-----------------------------------------------------------------------------
(* The first walk: identities for every $().                               *)

Ident == Identities(prog, rooted, cloned)

LEMMA OneForOneGrows ==
  ASSUME NEW K, NEW J, NEW N \in Nat, OneForOne(K, J, N),
         NEW k, k \notin K, NEW L, L[k] = N + 1, \A j \in K : L[j] = J[j]
  PROVE  OneForOne(K \cup {k}, L, N + 1)
<1>1. \A j \in K : L[j] \in 1..N /\ L[j] \in 1..(N + 1) /\ L[j] # N + 1
  BY DEF OneForOne
<1>2. L[k] \in 1..(N + 1)
  OBVIOUS
<1>3. \A i, j \in K \cup {k} : L[i] = L[j] => i = j
  BY <1>1 DEF OneForOne
<1>4. \A i \in 1..(N + 1) : i \in 1..N \/ i = N + 1
  OBVIOUS
<1>5. \A i \in 1..(N + 1) : \E j \in K \cup {k} : L[j] = i
  BY <1>4 DEF OneForOne
<1>6. QED
  BY <1>1, <1>2, <1>3, <1>5 DEF OneForOne

\* A new identity is put behind the others.
LEMMA IdsGrow ==
  ASSUME NEW p, NEW a, NEW m, NEW g, NEW b, NEW n,
         NEW J, NEW is, IdsOK(p, J, is, a, m, g),
         NEW k, k \notin Known(p, a, m), Known(p, b, n) = Known(p, a, m) \cup {k},
         NEW L, L[k] = Len(is) + 1, \A j \in Known(p, a, m) : L[j] = J[j],
         NEW q \in Seq(Identity), Len(q) = Len(is), NEW r \in Identity,
         \A j \in Known(p, a, m) : Recorded(p, n, g, j, q[J[j]]),
         Recorded(p, n, g, k, r)
  PROVE  IdsOK(p, L, Append(q, r), b, n, g)
<1> DEFINE K == Known(p, a, m)
           N == Len(is)
<1>1. is \in Seq(Identity) /\ N \in Nat /\ OneForOne(K, J, N)
  BY DEF IdsOK
<1>2. OneForOne(K \cup {k}, L, N + 1)
  BY <1>1, OneForOneGrows
<1>3. Append(q, r) \in Seq(Identity) /\ Len(Append(q, r)) = N + 1
      /\ Append(q, r)[N + 1] = r /\ \A i \in 1..N : Append(q, r)[i] = q[i]
  BY <1>1
<1>4. \A j \in K : J[j] \in 1..N
  BY <1>1 DEF OneForOne
<1> DEFINE z == Append(q, r)
<1> HIDE DEF z
<1>5. z[N + 1] = r /\ \A i \in 1..N : z[i] = q[i]
  BY <1>3 DEF z
<1>6. \A j \in K : Recorded(p, n, g, j, z[L[j]])
  <2>1. \A j \in K : z[L[j]] = q[J[j]]
    BY <1>4, <1>5
  <2>2. QED
    BY <2>1
<1>7. Recorded(p, n, g, k, z[L[k]])
  BY <1>5
<1>8. z \in Seq(Identity) /\ Len(z) = N + 1
  BY <1>3 DEF z
<1>9. IdsOK(p, L, z, b, n, g)
  BY <1>2, <1>6, <1>7, <1>8 DEF IdsOK
<1>10. QED
  BY <1>9 DEF z

LEMMA Defined ==
  ASSUME NEW N, NEW sc \in ScopeIn(N), NEW s, NEW id, NEW v \in Variable
  PROVE  /\ Define(sc, s, id).outer[v] = IF id # NoId /\ ~s.block /\ v = s.x THEN id ELSE sc.outer[v]
         /\ Define(sc, s, id).inner[v] = IF id # NoId /\ s.block /\ v = s.x THEN id ELSE sc.inner[v]
BY DEF Define, ScopeIn

LEMMA Left ==
  ASSUME NEW N \in Nat, NEW sc \in ScopeIn(N), NEW v \in Variable
  PROVE  /\ Leave(sc).outer[v] = sc.outer[v]
         /\ Leave(sc).inner[v] = IF pc < Len(prog) /\ prog[pc].block /\ prog[pc + 1].block
                                 THEN sc.inner[v] ELSE NoId
BY DEF Leave, ScopeIn, Unbound

LEMMA DefinedLeft ==
  ASSUME NEW N \in Nat, NEW sc \in ScopeIn(N), NEW s, NEW id \in 0..N, NEW v \in Variable
  PROVE  /\ Leave(Define(sc, s, id)).outer[v] =
              IF id # NoId /\ ~s.block /\ v = s.x THEN id ELSE sc.outer[v]
         /\ Leave(Define(sc, s, id)).inner[v] =
              IF ~(pc < Len(prog) /\ prog[pc].block /\ prog[pc + 1].block) THEN NoId
              ELSE IF id # NoId /\ s.block /\ v = s.x THEN id ELSE sc.inner[v]
<1>1. Define(sc, s, id) \in ScopeIn(N)
  BY DefineType
<1>2. QED
  BY <1>1, Left, Defined

\* A name denotes one declaration.
LEMMA OneName ==
  ASSUME NEW p, Documented(p), Written(p), NEW i \in 1..Len(p), NEW j \in 1..Len(p),
         p[i].op \in Binders, p[i].x = p[j].x
  PROVE  i = j
<1>1. p[i].x # NoVar
  BY StatementIs DEF Written
<1>2. QED
  BY <1>1 DEF Documented, NamesOnce

LEMMA IdentityKnown ==
  ASSUME NEW p, NEW J, NEW is, NEW a, NEW m, NEW g, IdsOK(p, J, is, a, m, g), NEW k \in Known(p, a, m)
  PROVE  J[k] \in 1..Len(is) /\ J[k] # NoId /\ Recorded(p, m, g, k, is[J[k]]) /\ is[J[k]] \in Identity
<1>1. J[k] \in 1..Len(is) /\ Recorded(p, m, g, k, is[J[k]]) /\ is \in Seq(Identity)
  BY DEF IdsOK, OneForOne
<1>2. QED
  BY <1>1 DEF NoId

\* What a name denotes in the first walk, at the top level.
LEMMA FirstLookup ==
  ASSUME NEW p, p = prog, Written(p), Documented(p), NEW n \in 1..Len(p), p[n].op = "chain",
         NEW J, IdsOK(p, J, ids, n - 1, 0, 0), OuterOK(p, J, scope, n - 1, 0), InnerNames(p, scope)
  PROVE  Lookup(p[n].y) = J[Object(p)[n]] /\ J[Object(p)[n]] \in 1..Len(ids)
<1> DEFINE d == Decl(p, n)
           o == Object(p)[n]
<1>1. /\ d \in 1..(n - 1) /\ d \in 1..Len(p) /\ d < n /\ p[d].x = p[n].y /\ p[n].y \in Variable
  BY UsedDecl
<1>2. /\ o \in 1..(n - 1) /\ p[o].op = "literal" /\ o = Object(p)[d]
      /\ ~p[d].block /\ p[d].op \in {"literal", "chain"}
  BY ChainObject
<1>3. o \in Known(p, n - 1, 0)
  <2>1. Len(p) \in Nat
    BY DEF Written
  <2>2. o \in 1..Len(p) /\ o <= n - 1
    <3> HIDE DEF o
    <3>1. QED
      BY <1>2, <2>1
  <2>3. QED
    BY <1>2, <2>2 DEF Known, Rooted
<1>4. J[o] \in 1..Len(ids) /\ J[o] # NoId
  BY <1>3, IdentityKnown
<1>5. scope.outer[p[d].x] = J[o]
  <2>1. d <= n - 1
    <3> HIDE DEF d
    <3>1. QED
      BY <1>1
  <2>2. QED
    BY <1>1, <1>2, <2>1 DEF OuterOK
<1>6. scope.inner[p[d].x] = NoId
  <2>1. ASSUME NEW k \in 1..Len(p), p[k].op \in Binders, p[k].x = p[d].x, p[k].block PROVE FALSE
    <3>1. k = d
      BY <1>1, <2>1, OneName
    <3>2. QED
      BY <1>2, <2>1, <3>1
  <2>2. QED
    BY <1>1, <2>1 DEF InnerNames
<1>7. QED
  BY <1>1, <1>4, <1>5, <1>6 DEF Lookup

LEMMA KnownRooted ==
  ASSUME NEW p, NEW n \in 1..Len(p)
  PROVE  /\ p[n].op \in Rooted => Known(p, n, 0) = Known(p, n - 1, 0) \cup {n}
         /\ p[n].op \notin Rooted => Known(p, n, 0) = Known(p, n - 1, 0)
         /\ n \notin Known(p, n - 1, 0)
<1>1. \A k \in 1..Len(p) : (k <= n <=> (k <= n - 1 \/ k = n)) /\ ~(k <= 0)
  OBVIOUS
<1>2. ~(n <= n - 1)
  OBVIOUS
<1>3. n \notin Known(p, n - 1, 0)
  BY <1>1, <1>2 DEF Known
<1>4. QED
  BY <1>1, <1>3 DEF Known

LEMMA NothingUsed ==
  ASSUME NEW p, NEW k
  PROVE  (\A ops : ~Used(p, 0, k, ops)) /\ ~ClonedIn(p, 0, k)
<1>1. 1..0 = {}
  OBVIOUS
<1>2. QED
  BY <1>1 DEF Used, ClonedIn

LEMMA AllocateKept ==
  ASSUME Typed, Documented(prog), Allocate,
         IdsOK(prog, Ident, ids, pc - 1, 0, 0), OuterOK(prog, Ident, scope, pc - 1, 0),
         InnerNames(prog, scope)
  PROVE  /\ IdsOK(prog, Ident', ids', pc, 0, 0)
         /\ OuterOK(prog, Ident', scope', pc, 0)
         /\ InnerNames(prog, scope')
<1> DEFINE s == prog[pc]
           N == Len(ids)
           id == IF s.op \in Rooted THEN N + 1
                 ELSE IF s.op \in {"clone", "chain", "take"} THEN Lookup(s.y) ELSE NoId
           eid == IF s.op \in Binders THEN id ELSE NoId
           r == NewIdentity(pc, s.x, s.op \in {"for", "forRun"})
           O == Object(prog)
<1>1. /\ pass = "allocate" /\ Advance("allocate", "scan")
      /\ IF s.op \in Rooted
         THEN /\ ids' = Append(ids, r)
              /\ rooted' = [rooted EXCEPT ![pc] = N + 1]
         ELSE UNCHANGED <<ids, rooted>>
      /\ scope' = Leave(IF s.op \in Binders THEN Define(scope, s, id) ELSE scope)
      /\ UNCHANGED <<prog, cloned, rerun, warned>>
  BY DEF Allocate
<1>2. prog \in Seq(Statement) /\ pc \in 1..Len(prog) /\ Written(prog) /\ Len(prog) <= MaxStatements
      /\ Len(prog) \in Nat
  BY <1>1 DEF Typed, TypedProgram, Written
<1>3. /\ s \in Statement /\ s.op # "forRun" /\ s.x \in Name
      /\ s.op \in Binders => s.x \in Variable
      /\ s.op \in {"clone", "chain", "take"} => s.y \in Variable
  <2>1. s \in Statement /\ s.x \in Name /\ (s.op \in Binders => s.x \in Variable)
        /\ (s.op \in {"clone", "chain", "take"} => s.y \in Variable)
    BY <1>2, StatementIs DEF Name, Using
  <2>2. QED
    BY <1>2, <2>1 DEF Documented
<1>4. /\ ids \in Seq(Identity) /\ N \in Nat /\ scope \in ScopeIn(N)
      /\ rooted \in [Index -> 0..N] /\ cloned \in [Index -> 0..N]
  BY DEF Typed, TypedAnalysis
<1>5. 1..Len(prog) \subseteq Index
  BY <1>2, VariableAssumption DEF Index
<1>6. /\ \A k \in 1..Len(prog) : k # pc => Ident'[k] = Ident[k]
      /\ s.op \in Rooted => Ident'[pc] = N + 1
      /\ s.op \notin Rooted => Ident' = Ident
  <2>1. /\ \A k \in 1..Len(prog) : Ident[k] = IF prog[k].op = "clone" THEN cloned[k] ELSE rooted[k]
        /\ \A k \in 1..Len(prog) : Ident'[k] = IF prog[k].op = "clone" THEN cloned[k] ELSE rooted'[k]
    BY <1>1 DEF Ident, Identities
  <2>2. \A k \in 1..Len(prog) : k # pc => rooted'[k] = rooted[k]
    BY <1>1, <1>4, <1>5
  <2>3. s.op \in Rooted => rooted'[pc] = N + 1 /\ s.op # "clone"
    BY <1>1, <1>2, <1>4, <1>5 DEF Rooted
  <2>4. s.op \notin Rooted => Ident' = Ident
    BY <1>1 DEF Ident
  <2>5. QED
    BY <1>2, <2>1, <2>2, <2>3, <2>4
<1> HIDE DEF s
<1>7. IdsOK(prog, Ident', ids', pc, 0, 0)
  <2>1. CASE s.op \in Rooted
    <3>1. r \in Identity
      BY <1>2, <1>3, <1>5 DEF NewIdentity, Identity, Name
    <3>2. Recorded(prog, 0, 0, pc, r)
      <4>1. /\ r.hasRun <=> s.op = "for"
            /\ r.text = FALSE /\ r.stderr = FALSE /\ r.status = FALSE /\ r.usedByClone = FALSE
            /\ r.name = s.x
        BY <1>3 DEF NewIdentity
      <4>2. s.op # "clone"
        BY <2>1 DEF Rooted
      <4> HIDE DEF r
      <4>3. QED
        BY <4>1, <4>2, NothingUsed DEF Recorded, s
    <3>3. /\ Known(prog, pc, 0) = Known(prog, pc - 1, 0) \cup {pc}
          /\ pc \notin Known(prog, pc - 1, 0)
      BY <1>2, <2>1, KnownRooted DEF s
    <3>4. \A j \in Known(prog, pc - 1, 0) : Ident'[j] = Ident[j]
      BY <1>6, <3>3 DEF Known
    <3>5. \A j \in Known(prog, pc - 1, 0) : Recorded(prog, 0, 0, j, ids[Ident[j]])
      BY DEF IdsOK
    <3>6. Ident'[pc] = N + 1 /\ ids' = Append(ids, r)
      BY <1>1, <1>6, <2>1
    <3> HIDE DEF r
    <3>7. QED
      BY <1>4, <3>1, <3>2, <3>3, <3>4, <3>5, <3>6, IdsGrow
  <2>2. CASE s.op \notin Rooted
    <3>1. ids' = ids /\ Ident' = Ident /\ Known(prog, pc, 0) = Known(prog, pc - 1, 0)
      BY <1>1, <1>2, <1>6, <2>2, KnownRooted DEF s
    <3>2. QED
      BY <3>1 DEF IdsOK
  <2>3. QED
    BY <2>1, <2>2
<1>8. s.op = "chain" => id = Ident[O[pc]] /\ id \in 1..N /\ id # NoId
  <2>1. ASSUME s.op = "chain" PROVE id = Ident[O[pc]] /\ id \in 1..N /\ id # NoId
    <3>1. id = Lookup(s.y)
      BY <2>1 DEF Rooted
    <3>2. Lookup(s.y) = Ident[O[pc]] /\ Ident[O[pc]] \in 1..N
      BY <1>2, <2>1, FirstLookup DEF s
    <3>3. QED
      BY <3>1, <3>2 DEF NoId
  <2>2. QED
    BY <2>1
<1>9. id \in 0..(N + 1) /\ eid \in 0..(N + 1) /\ scope \in ScopeIn(N + 1)
      /\ scope' = Leave(Define(scope, s, eid))
  <2>1. id \in 0..(N + 1)
    <3>1. s.op \in {"clone", "chain", "take"} => Lookup(s.y) \in 0..N
      BY <1>3, <1>4, LookupType
    <3>2. QED
      BY <1>4, <3>1 DEF NoId
  <2>2. Define(scope, s, NoId) = scope
    BY DEF Define
  <2> HIDE DEF id
  <2>3. QED
    BY <1>1, <1>4, <2>1, <2>2, ScopeGrows DEF NoId
<1>10. \A v \in Variable :
         /\ scope'.outer[v] = IF eid # NoId /\ ~s.block /\ v = s.x THEN eid ELSE scope.outer[v]
         /\ scope'.inner[v] # NoId => \/ scope.inner[v] # NoId
                                      \/ eid # NoId /\ s.block /\ v = s.x
  <2> HIDE DEF eid
  <2>1. N + 1 \in Nat
    BY <1>4
  <2>2. QED
    BY <1>9, <2>1, DefinedLeft
<1>11. InnerNames(prog, scope')
  <2>1. eid # NoId => s.op \in Binders
    OBVIOUS
  <2> HIDE DEF eid
  <2>2. QED
    BY <1>2, <1>10, <2>1 DEF InnerNames, s
<1>12. OuterOK(prog, Ident', scope', pc, 0)
  <2> SUFFICES ASSUME NEW k \in 1..Len(prog), ~prog[k].block, prog[k].op \in {"literal", "chain"}, k <= pc
               PROVE  scope'.outer[prog[k].x] = Ident'[O[k]]
    <3>1. \A k \in 1..Len(prog) : ~(k <= 0)
      OBVIOUS
    <3>2. QED
      BY <3>1 DEF OuterOK
  <2>1. prog[k].op \in Lets /\ prog[k].op \in Binders /\ prog[k].x \in Variable
    BY <1>2, StatementIs DEF Lets, Binders
  <2>2. O[k] \in 1..k /\ prog[O[k]].op = "literal" /\ O[k] \in 1..Len(prog)
    <3>1. O[k] \in 1..k
      BY <1>2, <2>1, LetObject
    <3>2. prog[O[k]].op = "literal"
      BY <1>2, <2>1, LetObject, ChainObject
    <3>3. 1..k \subseteq 1..Len(prog)
      BY <1>2
    <3>4. QED
      BY <3>1, <3>2, <3>3
  <2>3. CASE k # pc
    <3>1. k <= pc - 1
      BY <1>2, <2>3
    <3>2. scope.outer[prog[k].x] = Ident[O[k]]
      BY <3>1 DEF OuterOK
    <3>3. eid # NoId => prog[k].x # s.x
      BY <1>2, <2>1, <2>3, OneName DEF s
    <3>4. O[k] # pc
      <4>1. PICK o \in 1..k : o = O[k]
        BY <2>2
      <4>2. o # pc
        BY <1>2, <2>3
      <4>3. QED
        BY <4>1, <4>2
    <3>5. Ident'[O[k]] = Ident[O[k]]
      BY <1>6, <2>2, <3>4
    <3> HIDE DEF eid
    <3>6. QED
      BY <1>10, <2>1, <3>2, <3>3, <3>5
  <2>4. CASE k = pc /\ s.op = "literal"
    <3>1. O[k] = pc
      BY <1>2, <2>1, <2>4, LetObject DEF s
    <3>2. eid = N + 1 /\ eid # NoId
      BY <1>4, <2>4 DEF Rooted, Binders, NoId
    <3>3. Ident'[pc] = N + 1
      BY <1>6, <2>4 DEF Rooted
    <3> HIDE DEF eid
    <3>4. QED
      BY <1>10, <2>1, <2>4, <3>1, <3>2, <3>3 DEF s
  <2>5. CASE k = pc /\ s.op = "chain"
    <3>1. eid = Ident[O[pc]] /\ eid # NoId
      BY <1>8, <2>5 DEF Binders
    <3>2. Ident'[O[pc]] = Ident[O[pc]]
      BY <1>6, <2>5 DEF Rooted
    <3> HIDE DEF eid, id
    <3>3. QED
      BY <1>10, <2>1, <2>5, <3>1, <3>2 DEF s
  <2>6. QED
    BY <2>3, <2>4, <2>5 DEF s
<1>13. QED
  BY <1>7, <1>11, <1>12

-----------------------------------------------------------------------------
(* The second walk: what is recorded of every identity.                    *)

LEMMA UsedGrows ==
  ASSUME NEW p, NEW n \in 1..Len(p), NEW o, NEW ops
  PROVE  Used(p, n, o, ops) <=> Used(p, n - 1, o, ops) \/ (p[n].op \in ops /\ Object(p)[n] = o)
<1>1. \A j : j \in 1..n <=> (j \in 1..(n - 1) \/ j = n)
  OBVIOUS
<1>2. QED
  BY <1>1 DEF Used

LEMMA ClonedGrows ==
  ASSUME NEW p, NEW n \in 1..Len(p), NEW o
  PROVE  ClonedIn(p, n, o) <=>
           ClonedIn(p, n - 1, o) \/ (p[n].op = "clone" /\ Object(p)[Decl(p, n)] = o)
<1>1. \A j : j \in 1..n <=> (j \in 1..(n - 1) \/ j = n)
  OBVIOUS
<1>2. QED
  BY <1>1 DEF ClonedIn

LEMMA ObjectBound ==
  ASSUME NEW p, Written(p), Documented(p), NEW n \in 1..Len(p)
  PROVE  Object(p)[n] \in 1..n
<1> DEFINE T == {k \in 1..Len(p) : Object(p)[k] \notin 1..k}
<1> SUFFICES ASSUME T # {} PROVE FALSE
  OBVIOUS
<1>1. T \in SUBSET Nat
  OBVIOUS
<1>2. PICK k \in T : \A j \in T : k <= j
  <2> HIDE DEF T
  <2>1. QED
    BY <1>1, LeastNat
<1>3. Object(p)[k] # k
  BY <1>2
<1>4. p[k].op \notin Makers /\ Object(p)[k] = Object(p)[Decl(p, k)]
  BY <1>2, <1>3, ObjectIs
<1>5. PICK d \in 1..(k - 1) : d = Decl(p, k)
  BY <1>2, <1>4, OpIs, DeclIs
<1>6. d \in 1..Len(p) /\ d \notin T
  BY <1>2
<1>7. Object(p)[d] \in 1..d
  BY <1>6
<1>8. 1..d \subseteq 1..k
  BY <1>2
<1>9. QED
  BY <1>2, <1>4, <1>5, <1>7, <1>8

\* Nothing is done to an object in front of the statement that makes it.
LEMMA NoEarlierUse ==
  ASSUME NEW p, Written(p), Documented(p), NEW n \in 1..Len(p)
  PROVE  /\ \A ops : Used(p, n - 1, n, ops) => FALSE
         /\ ~ClonedIn(p, n, n)
<1>1. \A j \in 1..(n - 1) : j \in 1..Len(p) /\ j # n
  OBVIOUS
<1>2. ASSUME NEW j \in 1..(n - 1), Object(p)[j] = n PROVE FALSE
  <2>1. Object(p)[j] \in 1..j
    BY <1>1, ObjectBound
  <2>2. QED
    BY <1>2, <2>1
<1>3. ASSUME NEW j \in 1..n, p[j].op = "clone", Object(p)[Decl(p, j)] = n PROVE FALSE
  <2>1. j \in 1..Len(p)
    OBVIOUS
  <2>2. PICK o \in 1..(j - 1) : o = Object(p)[Decl(p, j)]
    BY <1>3, <2>1, UsedObject
  <2>3. QED
    BY <1>3, <2>2
<1>4. QED
  BY <1>2, <1>3 DEF Used, ClonedIn

\* The object a statement runs or reads.
LEMMA CalledObject ==
  ASSUME NEW p, Written(p), Documented(p), NEW n \in 1..Len(p), NEW o, o = Object(p)[n],
         p[n].op \in Rooted \cup Calls
  PROVE  /\ p[n].op \in Rooted => o = n
         /\ p[n].op \in Calls => o \in 1..(n - 1) /\ p[o].op \in {"literal", "clone"} /\ o # n
         /\ o \in Known(p, Len(p), n - 1) /\ o \in 1..Len(p)
<1>1. Len(p) \in Nat
  BY DEF Written
<1>2. CASE p[n].op \in Rooted
  <2>1. o = n
    BY <1>2, ObjectIs DEF Makers
  <2>2. n <= Len(p)
    BY <1>1
  <2>3. p[n].op \notin Calls
    BY <1>2 DEF Rooted, Calls, Reads
  <2>4. QED
    BY <1>2, <2>1, <2>2, <2>3 DEF Known
<1>3. CASE p[n].op \in Calls
  <2>1. /\ o \in 1..(n - 1) /\ o \in 1..Len(p) /\ o # n /\ p[o].op \in {"literal", "clone"}
    <3>1. p[n].op # "clone" /\ p[n].op \in Calls \cup {"clone", "chain"}
      BY <1>3 DEF Calls, Reads
    <3>2. o = Object(p)[Decl(p, n)]
      <4>1. p[n].op \notin Makers
        BY <1>3 DEF Calls, Reads, Makers, Rooted
      <4>2. QED
        BY <4>1, ObjectIs
    <3>3. QED
      BY <3>1, <3>2, UsedObject
  <2>2. p[n].op \notin Rooted
    BY <1>3 DEF Rooted, Calls, Reads
  <2>3. o <= n - 1 /\ o <= Len(p)
    BY <1>1, <2>1
  <2>4. QED
    BY <2>1, <2>2, <2>3 DEF Known, Rooted
<1>4. QED
  BY <1>2, <1>3

LEMMA SecondLookup ==
  ASSUME NEW p, p = prog, Written(p), Documented(p), NEW n \in 1..Len(p),
         p[n].op \in Calls \cup {"clone"}, NEW o, o = Object(p)[Decl(p, n)],
         NEW J, IdsOK(p, J, ids, Len(p), n - 1, 0), OuterOK(p, J, scope, Len(p), n - 1),
         InnerOK(p, J, scope, n - 1), InnerNames(p, scope)
  PROVE  /\ Lookup(p[n].y) = J[o] /\ J[o] \in 1..Len(ids) /\ J[o] # NoId
         /\ o \in Known(p, Len(p), n - 1)
<1> DEFINE d == Decl(p, n)
<1>1. /\ d \in 1..(n - 1) /\ d \in 1..Len(p) /\ d < n /\ p[d].x = p[n].y /\ p[n].y \in Variable
      /\ p[d].op \in Lets /\ (p[d].block => SameBlock(p, d, n))
  BY UsedDecl
<1>2. /\ o \in 1..(n - 1) /\ o \in 1..Len(p) /\ p[o].op \in {"literal", "clone"}
      /\ p[o].block => o = d
  BY <1>1, UsedObject
<1>3. Len(p) \in Nat
  BY DEF Written
<1>4. d \in 1..Len(p) /\ d <= n - 1 /\ d <= Len(p)
  <2> HIDE DEF d
  <2>1. QED
    BY <1>1, <1>3
<1>5. o \in Known(p, Len(p), n - 1)
  <2>1. o <= n - 1 /\ o <= Len(p)
    BY <1>2, <1>3
  <2>2. QED
    BY <1>2, <2>1 DEF Known, Rooted
<1>6. J[o] \in 1..Len(ids) /\ J[o] # NoId
  BY <1>5, IdentityKnown
<1>7. CASE p[d].block
  <2>1. p[d].op \in {"literal", "clone"}
    BY <1>1, <1>7, ChainObject DEF Lets
  <2>2. o = d
    BY <1>1, <2>1, LetObject
  <2>3. n - 1 < Len(p) /\ (n - 1) + 1 = n
    BY <1>3
  <2>4. scope.inner[p[d].x] = J[d]
    <3> HIDE DEF d
    <3>1. QED
      BY <1>1, <1>7, <2>1, <2>3 DEF InnerOK
  <2>5. QED
    BY <1>1, <1>5, <1>6, <2>2, <2>4 DEF Lookup
<1>8. CASE ~p[d].block
  <2>1. scope.outer[p[d].x] = J[o]
    <3> HIDE DEF d
    <3>1. QED
      BY <1>1, <1>4, <1>8 DEF OuterOK, Lets, d
  <2>2. scope.inner[p[d].x] = NoId
    <3>1. ASSUME NEW k \in 1..Len(p), p[k].op \in Binders, p[k].x = p[d].x, p[k].block PROVE FALSE
      <4>1. k = d
        BY <1>1, <3>1, OneName
      <4>2. QED
        BY <1>8, <3>1, <4>1
    <3>2. QED
      BY <1>1, <3>1 DEF InnerNames
  <2>3. QED
    BY <1>1, <1>5, <1>6, <2>1, <2>2 DEF Lookup
<1>9. QED
  BY <1>7, <1>8

LEMMA TwiceGrows ==
  ASSUME NEW p, NEW n \in 1..Len(p)
  PROVE  TwiceIn(p, n) <=>
           \/ TwiceIn(p, n - 1)
           \/ p[n].op \in RunOps /\ \E i \in 1..(n - 1) : p[i].op \in RunOps /\ Object(p)[i] = Object(p)[n]
<1>1. \A i, j : i \in 1..n /\ j \in 1..n /\ i < j <=>
          (i \in 1..(n - 1) /\ j \in 1..(n - 1) /\ i < j) \/ (i \in 1..(n - 1) /\ j = n)
  OBVIOUS
<1>2. \A i, j : {p[i].op, p[j].op} \subseteq RunOps <=> p[i].op \in RunOps /\ p[j].op \in RunOps
  OBVIOUS
<1> DEFINE Pair(i, j) == p[i].op \in RunOps /\ p[j].op \in RunOps /\ Object(p)[i] = Object(p)[j]
<1>3. TwiceIn(p, n) <=> \E i, j : i \in 1..n /\ j \in 1..n /\ i < j /\ Pair(i, j)
  BY <1>2 DEF TwiceIn
<1>4. TwiceIn(p, n - 1) <=> \E i, j : i \in 1..(n - 1) /\ j \in 1..(n - 1) /\ i < j /\ Pair(i, j)
  BY <1>2 DEF TwiceIn
<1> HIDE DEF Pair
<1>5. TwiceIn(p, n) <=> TwiceIn(p, n - 1) \/ \E i \in 1..(n - 1) : Pair(i, n)
  BY <1>1, <1>3, <1>4
<1>6. QED
  BY <1>5 DEF Pair

\* The identity of what a statement runs has been run if and only if an earlier
\* statement runs the same object.
LEMMA RunBefore ==
  ASSUME NEW p, Written(p), Documented(p), NEW n \in 1..Len(p), NEW o, o = Object(p)[n],
         p[n].op \in {"run", "take", "fetch"}
  PROVE  (p[o].op = "for" \/ Used(p, n - 1, o, {"run", "take", "fetch"})) <=>
           \E i \in 1..(n - 1) : p[i].op \in RunOps /\ Object(p)[i] = o
<1>1. p[n].op \in Rooted \cup Calls
  BY DEF Rooted, Calls
<1>2. p[o].op # "for"
  BY <1>1, CalledObject DEF Rooted, Calls, Reads
<1>3. ASSUME NEW i \in 1..(n - 1), p[i].op \in RunOps, Object(p)[i] = o
      PROVE  p[i].op \in {"run", "take", "fetch"}
  <2>1. i \in 1..Len(p)
    OBVIOUS
  <2>2. p[i].op \in {"run", "take", "fetch", "for"}
    BY <1>3, <2>1 DEF Documented, RunOps
  <2>3. p[i].op = "for" => Object(p)[i] = i
    BY <2>1, ObjectIs DEF Makers, Rooted
  <2>4. QED
    BY <1>2, <1>3, <2>2, <2>3
<1>4. QED
  BY <1>2, <1>3 DEF Used, RunOps

LEMMA KnownClone ==
  ASSUME NEW p, NEW n \in 1..Len(p), NEW a
  PROVE  /\ p[n].op = "clone" => Known(p, a, n) = Known(p, a, n - 1) \cup {n}
         /\ p[n].op # "clone" => Known(p, a, n) = Known(p, a, n - 1)
         /\ p[n].op = "clone" => n \notin Known(p, a, n - 1)
<1>1. \A k \in 1..Len(p) : k <= n <=> (k <= n - 1 \/ k = n)
  OBVIOUS
<1>2. ~(n <= n - 1)
  OBVIOUS
<1>3. p[n].op = "clone" => n \notin Known(p, a, n - 1)
  BY <1>1, <1>2 DEF Known, Rooted
<1>4. QED
  BY <1>1, <1>3 DEF Known

\* A call is recorded of the identity of its object.
LEMMA CallRecorded ==
  ASSUME NEW p, Written(p), Documented(p), NEW n \in 1..Len(p), p[n].op \in Rooted \cup Calls,
         NEW o, o = Object(p)[n], NEW J, NEW is, IdsOK(p, J, is, Len(p), n - 1, 0)
  PROVE  /\ IdsOK(p, J, [is EXCEPT ![J[o]] = Marked(p[n], is[J[o]])], Len(p), n, 0)
         /\ J[o] \in 1..Len(is) /\ J[o] # NoId
<1> DEFINE i == J[o]
           r == Marked(p[n], is[i])
           q == [is EXCEPT ![i] = r]
           a == Len(p)
<1>1. o \in Known(p, a, n - 1) /\ o \in 1..Len(p)
  BY CalledObject
<1>2. /\ i \in 1..Len(is) /\ i # NoId /\ Recorded(p, n - 1, 0, o, is[i]) /\ is[i] \in Identity
  BY <1>1, IdentityKnown
<1>3. p[n] \in Statement /\ p[n].op \in Op
  BY StatementIs DEF Written
<1>4. r \in Identity
  BY <1>2, <1>3, VariableAssumption DEF Marked, CallsRun, Identity
<1>5. is \in Seq(Identity) /\ OneForOne(Known(p, a, n - 1), J, Len(is))
  BY DEF IdsOK
<1> HIDE DEF i, r, q
<1>6. q \in Seq(Identity) /\ Len(q) = Len(is) /\ q[i] = r /\ \A j \in 1..Len(is) : j # i => q[j] = is[j]
  BY <1>2, <1>4, <1>5, SetOne DEF q
<1>7. p[n].op # "clone" /\ p[n].op \notin {"runClone", "forRun"}
  <2>1. p[n].op # "clone"
    BY DEF Rooted, Calls, Reads
  <2>2. QED
    BY <2>1 DEF Documented
<1>8. Known(p, a, n) = Known(p, a, n - 1)
  BY <1>7, KnownClone
<1>9. \A k, ops : Used(p, n, k, ops) <=> Used(p, n - 1, k, ops) \/ (p[n].op \in ops /\ o = k)
  BY UsedGrows
<1>10. \A k : ClonedIn(p, n, k) <=> ClonedIn(p, n - 1, k)
  BY <1>7, ClonedGrows
<1>11. ASSUME NEW k \in Known(p, a, n - 1), k # o PROVE Recorded(p, n, 0, k, q[J[k]])
  <2>1. J[k] \in 1..Len(is) /\ J[k] # i
    BY <1>1, <1>5, <1>11 DEF OneForOne, i
  <2>2. q[J[k]] = is[J[k]]
    BY <1>6, <2>1
  <2>3. Recorded(p, n - 1, 0, k, is[J[k]])
    BY DEF IdsOK
  <2>4. QED
    BY <1>9, <1>10, <1>11, <2>2, <2>3 DEF Recorded
<1>12. Recorded(p, n, 0, o, r)
  <2>1. /\ r.hasRun <=> is[i].hasRun \/ p[n].op \in {"run", "take", "fetch"}
        /\ r.text <=> is[i].text \/ p[n].op \in {"stdout", "take", "fetch", "for"}
        /\ r.stderr <=> is[i].stderr \/ p[n].op \in {"stderr"}
        /\ r.status <=> is[i].status \/ p[n].op \in {"status"}
        /\ r.usedByClone = is[i].usedByClone /\ r.name = is[i].name
    BY <1>2, <1>7 DEF r, Marked, CallsRun, Identity
  <2>2. QED
    BY <1>2, <1>9, <1>10, <2>1 DEF Recorded
<1>13. \A k \in Known(p, a, n) : Recorded(p, n, 0, k, q[J[k]])
  BY <1>6, <1>8, <1>11, <1>12 DEF i
<1>14. IdsOK(p, J, q, a, n, 0)
  BY <1>5, <1>6, <1>8, <1>13 DEF IdsOK
<1>15. QED
  BY <1>2, <1>14 DEF q, r, i

\* A clone gives its object an identity of its own.
LEMMA CloneRecorded ==
  ASSUME NEW p, Written(p), Documented(p), NEW n \in 1..Len(p), p[n].op = "clone",
         NEW o, o = Object(p)[Decl(p, n)], NEW J, NEW is, IdsOK(p, J, is, Len(p), n - 1, 0),
         o \in Known(p, Len(p), n - 1),
         NEW L, L[n] = Len(is) + 1, \A k \in Known(p, Len(p), n - 1) : L[k] = J[k],
         NEW r \in Index
  PROVE  IdsOK(p, L, Append([is EXCEPT ![J[o]] = [is[J[o]] EXCEPT !.usedByClone = TRUE]],
                            NewIdentity(r, NoVar, FALSE)), Len(p), n, 0)
<1> DEFINE i == J[o]
           u == [is[i] EXCEPT !.usedByClone = TRUE]
           q == [is EXCEPT ![i] = u]
           new == NewIdentity(r, NoVar, FALSE)
           a == Len(p)
<1>1. i \in 1..Len(is) /\ Recorded(p, n - 1, 0, o, is[i]) /\ is[i] \in Identity
  BY IdentityKnown
<1>2. is \in Seq(Identity) /\ OneForOne(Known(p, a, n - 1), J, Len(is))
  BY DEF IdsOK
<1>3. u \in Identity /\ new \in Identity
  BY <1>1 DEF Identity, NewIdentity
<1>4. Known(p, a, n) = Known(p, a, n - 1) \cup {n} /\ n \notin Known(p, a, n - 1)
  BY KnownClone
<1>5. /\ u.hasRun = is[i].hasRun /\ u.text = is[i].text /\ u.stderr = is[i].stderr
      /\ u.status = is[i].status /\ u.name = is[i].name /\ u.usedByClone = TRUE
  BY <1>1 DEF Identity
<1>6. /\ new.hasRun = FALSE /\ new.text = FALSE /\ new.stderr = FALSE
      /\ new.status = FALSE /\ new.name = NoVar /\ new.usedByClone = FALSE
  BY DEF NewIdentity
<1> HIDE DEF i, u, q, new
<1>7. q \in Seq(Identity) /\ Len(q) = Len(is) /\ q[i] = u /\ \A j \in 1..Len(is) : j # i => q[j] = is[j]
  BY <1>1, <1>2, <1>3, SetOne DEF q
<1>8. \A k : /\ Used(p, n, k, {"run", "take", "fetch"}) <=> Used(p, n - 1, k, {"run", "take", "fetch"})
             /\ Used(p, n, k, {"stdout", "take", "fetch", "for"}) <=>
                  Used(p, n - 1, k, {"stdout", "take", "fetch", "for"})
             /\ Used(p, n, k, {"stderr"}) <=> Used(p, n - 1, k, {"stderr"})
             /\ Used(p, n, k, {"status"}) <=> Used(p, n - 1, k, {"status"})
  BY UsedGrows
<1>9. \A k : ClonedIn(p, n, k) <=> ClonedIn(p, n - 1, k) \/ o = k
  BY ClonedGrows
<1>10. ASSUME NEW k \in Known(p, a, n - 1) PROVE Recorded(p, n, 0, k, q[J[k]])
  <2>1. Recorded(p, n - 1, 0, k, is[J[k]]) /\ J[k] \in 1..Len(is)
    BY IdentityKnown
  <2>2. CASE k = o
    BY <1>5, <1>7, <1>8, <1>9, <2>1, <2>2 DEF Recorded, i
  <2>3. CASE k # o
    <3>1. J[k] # i
      BY <1>2, <2>3 DEF OneForOne, i
    <3>2. q[J[k]] = is[J[k]]
      BY <1>7, <2>1, <3>1
    <3>3. QED
      BY <1>8, <1>9, <2>1, <2>3, <3>2 DEF Recorded
  <2>4. QED
    BY <2>2, <2>3
<1>11. Recorded(p, n, 0, n, new)
  <2>1. /\ \A ops : ~Used(p, n - 1, n, ops)
        /\ ~ClonedIn(p, n, n)
    BY NoEarlierUse
  <2>2. n > 0
    OBVIOUS
  <2>3. QED
    BY <1>6, <1>8, <2>1, <2>2 DEF Recorded
<1>12. IdsOK(p, L, Append(q, new), a, n, 0)
  BY <1>3, <1>4, <1>7, <1>10, <1>11, IdsGrow
<1>13. QED
  BY <1>12 DEF q, u, i, new

\* A chain or a print is not recorded.
LEMMA NothingRecorded ==
  ASSUME NEW p, NEW n \in 1..Len(p), p[n].op \in {"chain", "print"},
         NEW J, NEW is, IdsOK(p, J, is, Len(p), n - 1, 0)
  PROVE  IdsOK(p, J, is, Len(p), n, 0)
<1>1. \A k : /\ Used(p, n, k, {"run", "take", "fetch"}) <=> Used(p, n - 1, k, {"run", "take", "fetch"})
             /\ Used(p, n, k, {"stdout", "take", "fetch", "for"}) <=>
                  Used(p, n - 1, k, {"stdout", "take", "fetch", "for"})
             /\ Used(p, n, k, {"stderr"}) <=> Used(p, n - 1, k, {"stderr"})
             /\ Used(p, n, k, {"status"}) <=> Used(p, n - 1, k, {"status"})
  BY UsedGrows
<1>2. \A k : ClonedIn(p, n, k) <=> ClonedIn(p, n - 1, k)
  BY ClonedGrows
<1>3. Known(p, Len(p), n) = Known(p, Len(p), n - 1)
  BY KnownClone
<1>4. \A k, i : Recorded(p, n - 1, 0, k, i) => Recorded(p, n, 0, k, i)
  BY <1>1, <1>2 DEF Recorded
<1>5. QED
  BY <1>3, <1>4 DEF IdsOK

\* What holds during the second walk.
Walking ==
  /\ IdsOK(prog, Ident, ids, Len(prog), pc - 1, 0)
  /\ OuterOK(prog, Ident, scope, Len(prog), pc - 1)
  /\ InnerOK(prog, Ident, scope, pc - 1)
  /\ InnerNames(prog, scope)

\* What the second walk does at a statement.
LEMMA ScanDoes ==
  ASSUME Typed, Documented(prog), Scan, Walking, NEW s, s = prog[pc],
         NEW o, o = Object(prog)[pc], NEW c, s.op = "clone" => c = Object(prog)[Decl(prog, pc)]
  PROVE  /\ s.op \in Rooted \cup Calls =>
              /\ Ident[o] \in 1..Len(ids) /\ Receiver(s) = Ident[o] /\ Ident[o] # NoId
              /\ ids' = [ids EXCEPT ![Ident[o]] = Marked(s, ids[Ident[o]])]
         /\ s.op = "clone" =>
              /\ c \in Known(prog, Len(prog), pc - 1) /\ Ident[c] \in 1..Len(ids)
              /\ ids' = Append([ids EXCEPT ![Ident[c]] = [ids[Ident[c]] EXCEPT !.usedByClone = TRUE]],
                               NewIdentity(ids[Ident[c]].root, NoVar, FALSE))
              /\ cloned' = [cloned EXCEPT ![pc] = Len(ids) + 1]
              /\ Receiver(s) = NoId
         /\ s.op \in {"chain", "print"} => ids' = ids /\ Receiver(s) = NoId
         /\ s.op # "clone" => cloned' = cloned
         /\ Extracted(s) = IF s.op = "literal" THEN Ident[pc]
                           ELSE IF s.op = "clone" THEN Len(ids) + 1 ELSE NoId
<1>1. /\ pass = "scan"
      /\ cloned' = IF Clones(s) THEN [cloned EXCEPT ![pc] = Extracted(s)] ELSE cloned
      /\ ids' = IF Receiver(s) = NoId THEN WithClone(s)
                ELSE [WithClone(s) EXCEPT ![Receiver(s)] = Marked(s, WithClone(s)[Receiver(s)])]
  BY DEF Scan
<1>2. prog \in Seq(Statement) /\ pc \in 1..Len(prog) /\ Written(prog) /\ Len(prog) <= MaxStatements
      /\ Len(prog) \in Nat
  BY <1>1 DEF Typed, TypedProgram, Written
<1>3. s.op \in Lets \cup Calls \cup {"fetch", "for", "print"}
  BY <1>2, DocumentedOps
<1>4. Ident[pc] = IF s.op = "clone" THEN cloned[pc] ELSE rooted[pc]
  BY <1>2 DEF Ident, Identities
<1>5. CASE s.op \in Rooted \cup Calls
  <2>1. s.op # "clone" /\ ~Clones(s) /\ WithClone(s) = ids
    BY <1>5 DEF Rooted, Calls, Reads, Clones, WithClone
  <2>2. Receiver(s) = Ident[o] /\ Ident[o] \in 1..Len(ids) /\ Ident[o] # NoId
    <3>1. CASE s.op \in Rooted
      <4>1. o = pc /\ o \in Known(prog, Len(prog), pc - 1)
        BY <1>2, <3>1, CalledObject
      <4>2. Receiver(s) = rooted[pc]
        BY <3>1 DEF Receiver
      <4>3. QED
        BY <1>4, <2>1, <4>1, <4>2, IdentityKnown DEF Walking
    <3>2. CASE s.op \in Calls
      <4>1. Receiver(s) = Lookup(s.y)
        BY <3>2 DEF Receiver, Calls, Rooted, Reads
      <4>2. o = Object(prog)[Decl(prog, pc)]
        <5>1. s.op \notin Makers
          BY <3>2 DEF Calls, Reads, Makers, Rooted
        <5>2. QED
          BY <1>2, <5>1, ObjectIs
      <4>3. QED
        BY <1>2, <3>2, <4>1, <4>2, SecondLookup DEF Walking
    <3>3. QED
      BY <1>5, <3>1, <3>2
  <2>3. s.op = "literal" => Extracted(s) = Ident[pc]
    BY <1>4 DEF Extracted
  <2>4. s.op # "literal" => Extracted(s) = NoId
    BY <2>1 DEF Extracted
  <2>5. s.op \notin {"chain", "print", "clone"}
    BY <1>5 DEF Rooted, Calls, Reads
  <2>6. QED
    BY <1>1, <1>5, <2>1, <2>2, <2>3, <2>4, <2>5
<1>6. CASE s.op = "clone"
  <2>1. /\ Lookup(s.y) = Ident[c] /\ Ident[c] \in 1..Len(ids) /\ Ident[c] # NoId
        /\ c \in Known(prog, Len(prog), pc - 1)
    BY <1>2, <1>6, SecondLookup DEF Walking
  <2>2. Clones(s) /\ Extracted(s) = Len(ids) + 1 /\ Receiver(s) = NoId
    BY <1>6, <2>1 DEF Clones, Extracted, Receiver, Rooted, Reads
  <2>3. WithClone(s) = Append([ids EXCEPT ![Ident[c]] = [ids[Ident[c]] EXCEPT !.usedByClone = TRUE]],
                              NewIdentity(ids[Ident[c]].root, NoVar, FALSE))
    BY <2>1, <2>2 DEF WithClone
  <2>4. s.op \notin Rooted \cup Calls
    BY <1>6 DEF Rooted, Calls, Reads
  <2>5. QED
    BY <1>1, <1>6, <2>1, <2>2, <2>3, <2>4
<1>7. CASE s.op \in {"chain", "print"}
  <2>1. ~Clones(s) /\ WithClone(s) = ids /\ Receiver(s) = NoId /\ Extracted(s) = NoId
    BY <1>7 DEF Clones, WithClone, Receiver, Extracted, Rooted, Reads
  <2>2. s.op \notin Rooted \cup Calls
    BY <1>7 DEF Rooted, Calls, Reads
  <2>3. QED
    BY <1>1, <1>7, <2>1, <2>2
<1>8. QED
  BY <1>3, <1>5, <1>6, <1>7 DEF Lets, Rooted

LEMMA ScanIds ==
  ASSUME Typed, Documented(prog), Scan, Walking
  PROVE  /\ IdsOK(prog, Ident', ids', Len(prog), pc, 0)
         /\ \A k \in 1..Len(prog) : k # pc => Ident'[k] = Ident[k]
         /\ prog[pc].op # "clone" => Ident' = Ident
         /\ prog[pc].op = "clone" => Ident'[pc] = Len(ids) + 1
<1> DEFINE s == prog[pc]
           o == Object(prog)[pc]
           c == Object(prog)[Decl(prog, pc)]
<1>1. pass = "scan" /\ UNCHANGED <<prog, rooted>>
  BY DEF Scan
<1>2. prog \in Seq(Statement) /\ pc \in 1..Len(prog) /\ Written(prog) /\ Len(prog) <= MaxStatements
      /\ Len(prog) \in Nat
  BY <1>1 DEF Typed, TypedProgram, Written
<1>3. s.op \in Lets \cup Calls \cup {"fetch", "for", "print"}
  BY <1>2, DocumentedOps
<1>4. /\ s.op \in Rooted \cup Calls =>
              ids' = [ids EXCEPT ![Ident[o]] = Marked(s, ids[Ident[o]])]
      /\ s.op = "clone" =>
              /\ c \in Known(prog, Len(prog), pc - 1) /\ Ident[c] \in 1..Len(ids)
              /\ ids' = Append([ids EXCEPT ![Ident[c]] = [ids[Ident[c]] EXCEPT !.usedByClone = TRUE]],
                               NewIdentity(ids[Ident[c]].root, NoVar, FALSE))
              /\ cloned' = [cloned EXCEPT ![pc] = Len(ids) + 1]
      /\ s.op \in {"chain", "print"} => ids' = ids
      /\ s.op # "clone" => cloned' = cloned
  BY ScanDoes
<1>5. 1..Len(prog) \subseteq Index
  BY <1>2, VariableAssumption DEF Index
<1>6. /\ \A k \in 1..Len(prog) : k # pc => Ident'[k] = Ident[k]
      /\ s.op # "clone" => Ident' = Ident
      /\ s.op = "clone" => Ident'[pc] = Len(ids) + 1
  <2>1. cloned \in [Index -> 0..Len(ids)]
    BY DEF Typed, TypedAnalysis
  <2>2. /\ \A k \in 1..Len(prog) : Ident[k] = IF prog[k].op = "clone" THEN cloned[k] ELSE rooted[k]
        /\ \A k \in 1..Len(prog) : Ident'[k] = IF prog[k].op = "clone" THEN cloned'[k] ELSE rooted[k]
    BY <1>1 DEF Ident, Identities
  <2>3. \A k \in 1..Len(prog) : k # pc => cloned'[k] = cloned[k]
    BY <1>4, <1>5, <2>1
  <2>4. s.op = "clone" => cloned'[pc] = Len(ids) + 1
    BY <1>2, <1>4, <1>5, <2>1
  <2>5. s.op # "clone" => Ident' = Ident
    BY <1>1, <1>4 DEF Ident
  <2>6. QED
    BY <1>2, <2>2, <2>3, <2>4, <2>5
<1> DEFINE J == Ident
           L == Ident'
<1>7. IdsOK(prog, L, ids', Len(prog), pc, 0)
  <2>1. CASE s.op \in Rooted \cup Calls
    <3>1. s.op # "clone"
      BY <2>1 DEF Rooted, Calls, Reads
    <3>2. IdsOK(prog, J, [ids EXCEPT ![J[o]] = Marked(prog[pc], ids[J[o]])], Len(prog), pc, 0)
      <4> HIDE DEF J
      <4>1. QED
        BY <1>2, <2>1, CallRecorded DEF Walking, J
    <3>3. L = J
      BY <1>6, <3>1
    <3> HIDE DEF J, L
    <3>4. QED
      BY <1>4, <2>1, <3>2, <3>3 DEF J
  <2>2. CASE s.op = "clone"
    <3>1. ids[J[c]].root \in Index
      <4>1. ids[J[c]] \in Identity
        BY <1>4, <2>2 DEF Typed, TypedAnalysis
      <4>2. QED
        BY <4>1 DEF Identity
    <3>2. \A k \in Known(prog, Len(prog), pc - 1) : L[k] = J[k]
      BY <1>2, <1>6, <2>2, KnownClone DEF Known
    <3>3. L[pc] = Len(ids) + 1
      BY <1>6, <2>2
    <3>4. IdsOK(prog, J, ids, Len(prog), pc - 1, 0)
      BY DEF Walking
    <3>5. c \in Known(prog, Len(prog), pc - 1)
      BY <1>4, <2>2
    <3> HIDE DEF J, L
    <3>6. IdsOK(prog, L, Append([ids EXCEPT ![J[c]] = [ids[J[c]] EXCEPT !.usedByClone = TRUE]],
                             NewIdentity(ids[J[c]].root, NoVar, FALSE)), Len(prog), pc, 0)
      BY <1>2, <2>2, <3>1, <3>2, <3>3, <3>4, <3>5, CloneRecorded
    <3>7. QED
      BY <1>4, <2>2, <3>6 DEF J
  <2>3. CASE s.op \in {"chain", "print"}
    <3>1. s.op # "clone" /\ ids' = ids
      BY <1>4, <2>3
    <3>2. L = J
      BY <1>6, <3>1
    <3>3. IdsOK(prog, J, ids, Len(prog), pc - 1, 0)
      BY DEF Walking
    <3> HIDE DEF J, L
    <3>4. QED
      BY <1>2, <2>3, <3>1, <3>2, <3>3, NothingRecorded
  <2>4. QED
    BY <1>3, <2>1, <2>2, <2>3 DEF Lets, Rooted
<1>8. QED
  BY <1>6, <1>7

\* A second run is found where it is.
LEMMA ScanReruns ==
  ASSUME Typed, Documented(prog), Scan, Walking, rerun <=> TwiceIn(prog, pc - 1)
  PROVE  rerun' <=> TwiceIn(prog, pc)
<1> DEFINE s == prog[pc]
           o == Object(prog)[pc]
           Again == \E i \in 1..(pc - 1) : prog[i].op \in RunOps /\ Object(prog)[i] = o
<1>1. /\ pass = "scan"
      /\ rerun' = (rerun \/ (Receiver(s) # NoId /\ CallsRun(s) /\ ids[Receiver(s)].hasRun))
  BY DEF Scan
<1>2. prog \in Seq(Statement) /\ pc \in 1..Len(prog) /\ Written(prog) /\ Len(prog) \in Nat
  BY <1>1 DEF Typed, TypedProgram, Written
<1>3. s.op \in Lets \cup Calls \cup {"fetch", "for", "print"}
  BY <1>2, DocumentedOps
<1>4. TwiceIn(prog, pc) <=> TwiceIn(prog, pc - 1) \/ (s.op \in RunOps /\ Again)
  BY <1>2, TwiceGrows
<1>5. CASE s.op \in {"run", "take", "fetch"}
  <2>1. s.op \in Rooted \cup Calls /\ CallsRun(s) /\ s.op \in RunOps
    BY <1>5 DEF Rooted, Calls, CallsRun, RunOps
  <2>2. Receiver(s) = Ident[o] /\ Ident[o] # NoId
    BY <2>1, ScanDoes
  <2>3. o \in Known(prog, Len(prog), pc - 1)
    BY <1>2, <2>1, CalledObject
  <2>4. ids[Ident[o]].hasRun <=> (prog[o].op = "for" \/ Used(prog, pc - 1, o, {"run", "take", "fetch"}))
    <3>1. Recorded(prog, pc - 1, 0, o, ids[Ident[o]])
      BY <2>3 DEF Walking, IdsOK
    <3> HIDE DEF o
    <3>2. QED
      BY <3>1 DEF Recorded
  <2>5. (prog[o].op = "for" \/ Used(prog, pc - 1, o, {"run", "take", "fetch"})) <=> Again
    BY <1>2, <1>5, RunBefore
  <2>6. ids[Receiver(s)].hasRun <=> Again
    BY <2>2, <2>4, <2>5
  <2> HIDE DEF s, o, Again
  <2>7. QED
    BY <1>1, <1>4, <2>1, <2>2, <2>6
<1>6. CASE s.op = "for"
  <2>1. ~CallsRun(s)
    BY <1>6 DEF CallsRun
  <2>2. o = pc
    BY <1>2, <1>6, CalledObject DEF Rooted
  <2>3. ~Again
    <3> SUFFICES ASSUME NEW i \in 1..(pc - 1), Object(prog)[i] = pc PROVE FALSE
      BY <2>2
    <3>1. i \in 1..Len(prog)
      BY <1>2
    <3>2. Object(prog)[i] \in 1..i
      BY <1>2, <3>1, ObjectBound
    <3>3. pc \in 1..i /\ pc \in Nat
      BY <1>2, <3>2
    <3>4. QED
      BY <3>3
  <2> HIDE DEF s, o, Again
  <2>4. QED
    BY <1>1, <1>4, <2>1, <2>3
<1>7. CASE s.op \notin {"run", "take", "fetch", "for"}
  <2>1. ~CallsRun(s) /\ s.op \notin RunOps
    BY <1>3, <1>7 DEF CallsRun, RunOps, Lets, Calls, Reads
  <2> HIDE DEF s, o, Again
  <2>2. QED
    BY <1>1, <1>4, <2>1
<1>8. QED
  BY <1>5, <1>6, <1>7

\* The names are bound to the identities of their objects.
LEMMA ScanScope ==
  ASSUME Typed, Documented(prog), Scan, Walking
  PROVE  /\ OuterOK(prog, Ident', scope', Len(prog), pc)
         /\ InnerOK(prog, Ident', scope', pc)
         /\ InnerNames(prog, scope')
<1> DEFINE s == prog[pc]
           N == Len(ids)
           eid == Extracted(s)
           O == Object(prog)
           J == Ident
           L == Ident'
<1>1. pass = "scan" /\ scope' = Leave(Define(scope, s, eid))
  BY DEF Scan
<1>2. prog \in Seq(Statement) /\ pc \in 1..Len(prog) /\ Written(prog) /\ Len(prog) <= MaxStatements
      /\ Len(prog) \in Nat
  BY <1>1 DEF Typed, TypedProgram, Written
<1>3. N \in Nat /\ N + 1 \in Nat /\ scope \in ScopeIn(N + 1)
  <2>1. N \in Nat /\ scope \in ScopeIn(N)
    BY DEF Typed, TypedAnalysis
  <2>2. QED
    BY <2>1, ScopeGrows
<1>4. /\ \A k \in 1..Len(prog) : k # pc => L[k] = J[k]
      /\ s.op # "clone" => L = J
      /\ s.op = "clone" => L[pc] = N + 1
  BY ScanIds
<1>5. /\ eid = IF s.op \in {"literal", "clone"} THEN L[pc] ELSE NoId
      /\ s.op \in {"literal", "clone"} => eid # NoId
      /\ eid \in 0..(N + 1)
  <2>1. eid = IF s.op = "literal" THEN J[pc] ELSE IF s.op = "clone" THEN N + 1 ELSE NoId
    BY ScanDoes
  <2>2. s.op = "literal" => J[pc] \in 1..N /\ J[pc] # NoId
    <3>1. ASSUME s.op = "literal" PROVE J[pc] \in 1..N /\ J[pc] # NoId
      <4>1. O[pc] = pc /\ s.op \in Rooted
        BY <1>2, <3>1, CalledObject DEF Rooted
      <4>2. QED
        BY <4>1, ScanDoes
    <3>2. QED
      BY <3>1
  <2> HIDE DEF eid, J, L, s
  <2>3. QED
    BY <1>3, <1>4, <2>1, <2>2 DEF NoId
<1>6. eid # NoId => s.op \in Binders
  <2> HIDE DEF eid, s
  <2>1. QED
    BY <1>5 DEF Binders
<1> HIDE DEF eid, J, L
<1>7. \A v \in Variable :
         /\ scope'.outer[v] = IF eid # NoId /\ ~s.block /\ v = s.x THEN eid ELSE scope.outer[v]
         /\ scope'.inner[v] =
               IF ~(pc < Len(prog) /\ prog[pc].block /\ prog[pc + 1].block) THEN NoId
               ELSE IF eid # NoId /\ s.block /\ v = s.x THEN eid ELSE scope.inner[v]
  BY <1>1, <1>3, <1>5, DefinedLeft
<1>8. InnerNames(prog, scope')
  BY <1>2, <1>6, <1>7 DEF InnerNames, Walking
<1>9. \A k \in 1..Len(prog) : k # pc /\ prog[k].op \in Binders /\ eid # NoId => prog[k].x # s.x
  BY <1>2, <1>6, OneName
<1>10. \A k \in 1..Len(prog) : prog[k].op \in Lets => /\ prog[k].op \in Binders /\ prog[k].x \in Variable
  BY <1>2, StatementIs DEF Lets, Binders
<1>11. OuterOK(prog, L, scope', Len(prog), pc)
  <2> SUFFICES ASSUME NEW k \in 1..Len(prog), ~prog[k].block,
                      prog[k].op \in {"literal", "chain"} \/ (prog[k].op = "clone" /\ k <= pc)
               PROVE  scope'.outer[prog[k].x] = L[O[k]]
    BY DEF OuterOK
  <2>1. prog[k].op \in Lets /\ prog[k].op \in Binders /\ prog[k].x \in Variable
    BY <1>10 DEF Lets
  <2>2. OuterOK(prog, J, scope, Len(prog), pc - 1)
    BY DEF Walking, J
  <2>3. CASE k # pc
    <3>1. k <= pc - 1 \/ prog[k].op # "clone"
      BY <1>2, <2>3
    <3>2. k <= Len(prog)
      BY <1>2
    <3>3. scope.outer[prog[k].x] = J[O[k]]
      BY <2>2, <3>1, <3>2 DEF OuterOK
    <3>4. O[k] \in 1..Len(prog) /\ (s.op = "clone" => O[k] # pc)
      <4>1. O[k] \in 1..Len(prog)
        <5>1. O[k] \in 1..k /\ 1..k \subseteq 1..Len(prog)
          BY <1>2, <2>1, LetObject
        <5>2. QED
          BY <5>1
      <4>2. prog[k].op \in {"literal", "clone"} => O[k] = k
        BY <1>2, <2>1, LetObject
      <4>3. prog[k].op = "chain" => prog[O[k]].op = "literal"
        BY <1>2, ChainObject
      <4>4. QED
        BY <2>1, <2>3, <4>1, <4>2, <4>3 DEF Lets
    <3>5. L[O[k]] = J[O[k]]
      BY <1>4, <3>4
    <3>6. QED
      BY <1>7, <1>9, <2>1, <2>3, <3>3, <3>5
  <2>4. CASE k = pc /\ s.op \in {"literal", "clone"}
    <3>1. O[k] = pc
      BY <1>2, <2>1, <2>4, LetObject
    <3>2. QED
      BY <1>5, <1>7, <2>1, <2>4, <3>1
  <2>5. CASE k = pc /\ s.op = "chain"
    <3>1. k <= Len(prog)
      BY <1>2
    <3>2. scope.outer[prog[k].x] = J[O[k]]
      BY <2>2, <2>5, <3>1 DEF OuterOK
    <3>3. eid = NoId /\ L = J
      BY <1>4, <1>5, <2>5
    <3>4. QED
      BY <1>7, <2>1, <3>2, <3>3
  <2>6. QED
    BY <2>1, <2>3, <2>4, <2>5 DEF Lets
<1>12. InnerOK(prog, L, scope', pc)
  <2> SUFFICES ASSUME NEW k \in 1..pc, prog[k].block, prog[k].op \in {"literal", "clone"},
                      pc < Len(prog), SameBlock(prog, k, pc + 1)
               PROVE  scope'.inner[prog[k].x] = L[k]
    BY DEF InnerOK
  <2>1. k \in 1..Len(prog) /\ prog[k].op \in Binders /\ prog[k].x \in Variable
    <3>1. k \in 1..Len(prog)
      BY <1>2
    <3>2. QED
      BY <1>10, <3>1 DEF Lets
  <2>2. prog[pc].block /\ prog[pc + 1].block /\ SameBlock(prog, k, pc)
    <3>1. pc \in k..(pc + 1) /\ pc + 1 \in k..(pc + 1) /\ k..pc \subseteq k..(pc + 1)
      BY <1>2
    <3>2. QED
      BY <3>1 DEF SameBlock
  <2>3. CASE k # pc
    <3>1. k \in 1..(pc - 1) /\ pc - 1 < Len(prog) /\ (pc - 1) + 1 = pc
      BY <1>2, <2>3
    <3>2. scope.inner[prog[k].x] = J[k]
      BY <2>2, <3>1 DEF Walking, InnerOK, J
    <3>3. L[k] = J[k]
      BY <1>4, <2>1, <2>3
    <3>4. QED
      BY <1>7, <1>9, <2>1, <2>2, <2>3, <3>2, <3>3
  <2>4. CASE k = pc
    BY <1>5, <1>7, <2>1, <2>2, <2>4
  <2>5. QED
    BY <2>3, <2>4
<1>13. QED
  BY <1>8, <1>11, <1>12 DEF L

-----------------------------------------------------------------------------
(* The verdict. *)

\* What emitWarnings leaves: the commands that nothing runs or clones.
LEMMA WarnKept ==
  ASSUME Typed, Documented(prog), EmitWarnings, IdsOK(prog, Ident, ids, Len(prog), Len(prog), 0)
  PROVE  warned' = {Ident[k] : k \in Idle(prog)}
<1> DEFINE K == Known(prog, Len(prog), Len(prog))
           O == Object(prog)
           J == Ident
           N == Len(prog)
<1>1. Written(prog) /\ N \in Nat
  BY DEF Typed, TypedProgram, Written
<1>2. /\ ids \in Seq(Identity) /\ DOMAIN ids = 1..Len(ids) /\ OneForOne(K, J, Len(ids))
      /\ \A k \in K : Recorded(prog, N, 0, k, ids[J[k]])
  <2>1. ids \in Seq(Identity) /\ OneForOne(K, J, Len(ids)) /\ \A k \in K : Recorded(prog, N, 0, k, ids[J[k]])
    BY DEF IdsOK
  <2>2. QED
    BY <2>1
<1>3. warned' = {i \in 1..Len(ids) : ~ids[i].hasRun /\ ~ids[i].usedByClone}
  BY <1>2 DEF EmitWarnings
<1>4. ASSUME NEW k \in K
      PROVE  k \in Idle(prog) <=> ~ids[J[k]].hasRun /\ ~ids[J[k]].usedByClone
  <2>1. k \in 1..N /\ prog[k].op \in {"literal", "clone", "fetch", "for"}
    <3>1. k \in 1..N /\ prog[k].op \in Rooted \cup {"clone"}
      BY DEF Known
    <3>2. prog[k].op # "forRun"
      BY <3>1 DEF Documented
    <3>3. QED
      BY <3>1, <3>2 DEF Rooted
  <2>2. /\ ids[J[k]].hasRun <=> (prog[k].op = "for" \/ Used(prog, N, k, {"run", "take", "fetch"}))
        /\ ids[J[k]].usedByClone <=> ClonedIn(prog, N, k)
    BY <1>2 DEF Recorded
  <2>3. k \in Idle(prog) <=>
          /\ prog[k].op \in {"literal", "clone"}
          /\ \A j \in 1..N : O[j] = k => prog[j].op \notin RunOps
          /\ ~ClonedIn(prog, N, k)
    <3>1. \A j \in 1..N : prog[j].op # "runClone"
      BY DEF Documented
    <3>2. QED
      BY <2>1, <3>1 DEF Idle, ClonedIn, Decl
  <2>4. prog[k].op \in {"literal", "clone"} =>
          (Used(prog, N, k, {"run", "take", "fetch"}) <=> \E j \in 1..N : O[j] = k /\ prog[j].op \in RunOps)
    <3>1. ASSUME NEW j \in 1..N, O[j] = k, prog[j].op \in RunOps, prog[k].op \in {"literal", "clone"}
          PROVE  prog[j].op \in {"run", "take", "fetch"}
      <4>1. prog[j].op \notin {"runClone", "forRun"}
        BY DEF Documented
      <4>2. prog[j].op = "for" => O[j] = j
        BY <1>1, ObjectIs DEF Makers, Rooted
      <4>3. QED
        BY <3>1, <4>1, <4>2 DEF RunOps
    <3>2. QED
      BY <3>1 DEF Used, RunOps
  <2>5. prog[k].op = "fetch" => Used(prog, N, k, {"run", "take", "fetch"})
    <3>1. prog[k].op = "fetch" => O[k] = k
      BY <1>1, <2>1, ObjectIs DEF Makers, Rooted
    <3>2. QED
      BY <2>1, <3>1 DEF Used
  <2> HIDE DEF K, O, J
  <2>6. QED
    BY <2>1, <2>2, <2>3, <2>4, <2>5
<1>5. Idle(prog) \subseteq K
  BY <1>1 DEF Idle, Known, Rooted
<1>6. QED
  <2> HIDE DEF K, O
  <2>1. \A i \in 1..Len(ids) : \E k \in K : J[k] = i
    BY <1>2 DEF OneForOne
  <2>2. \A k \in K : J[k] \in 1..Len(ids)
    BY <1>2 DEF OneForOne
  <2>3. \A i \in warned' : \E k \in Idle(prog) : J[k] = i
    BY <1>3, <1>4, <2>1
  <2>4. \A k \in Idle(prog) : J[k] \in warned'
    BY <1>3, <1>4, <1>5, <2>2
  <2> HIDE DEF J
  <2>5. warned' = {J[k] : k \in Idle(prog)}
    BY <2>3, <2>4
  <2>6. QED
    BY <2>5 DEF J

-----------------------------------------------------------------------------
(* The generator: the texts. *)

LEMMA TextsIs ==
  ASSUME NEW p, Written(p), Documented(p), Len(p) <= MaxStatements
  PROVE  \A n \in 1..Len(p) :
           /\ Texts(p)[n] \in Text
           /\ p[n].op = "literal" => Texts(p)[n] = Plain(n)
           /\ p[n].op = "clone" => Texts(p)[n] = Texts(p)[Decl(p, n)]
           /\ p[n].op = "chain" => Texts(p)[n] = Chain(Texts(p)[Decl(p, n)], n)
<1> DEFINE N == Len(p)
           V == Text
           D == [i \in 1..N |-> IF p[i].op \in {"clone", "chain"} THEN Decl(p, i) ELSE 0]
           H == [i \in 1..N |-> [v \in V |-> IF p[i].op = "literal" THEN Plain(i)
                                             ELSE IF p[i].op = "clone" THEN v
                                             ELSE IF p[i].op = "chain" THEN Chain(v, i)
                                             ELSE NoText]]
<1>1. N \in Nat /\ NoText \in V /\ (\A i \in 1..N : i \in Index)
  BY TextType, VariableAssumption DEF Written, Index
<1>2. \A i \in 1..N : p[i].op \in {"clone", "chain"} => Decl(p, i) \in 1..(i - 1)
  BY UsedDecl
<1>3. \A i \in 1..N : D[i] \in 0..(i - 1)
  <2> SUFFICES ASSUME NEW i \in 1..N PROVE D[i] \in 0..(i - 1)
    OBVIOUS
  <2>1. CASE p[i].op \notin {"clone", "chain"}
    BY <1>1, <2>1
  <2>2. CASE p[i].op \in {"clone", "chain"}
    <3>1. PICK d \in 1..(i - 1) : d = Decl(p, i)
      BY <1>2, <2>2
    <3>2. D[i] = d
      BY <2>2, <3>1
    <3>3. d \in 0..(i - 1)
      OBVIOUS
    <3>4. QED
      BY <3>2, <3>3
  <2>3. QED
    BY <2>1, <2>2
<1>4. Stepwise(H, N, V)
  <2>1. ASSUME NEW i \in 1..N, NEW v \in V PROVE Plain(i) \in V /\ Chain(v, i) \in V /\ NoText \in V
    BY <1>1, TextType
  <2> HIDE DEF V
  <2>2. QED
    BY <2>1 DEF Stepwise
<1>5. PICK g \in [0..N -> V] : g[0] = NoText /\ \A i \in 1..N : g[i] = H[i][g[D[i]]]
  <2> HIDE DEF N, V, D, H
  <2>1. N \in Nat /\ NoText \in V
    BY <1>1
  <2>2. \E g \in [0..N -> V] : g[0] = NoText /\ \A i \in 1..N : g[i] = H[i][g[D[i]]]
    BY <1>3, <1>4, <2>1, Descent
  <2>3. QED
    BY <2>2
<1> DEFINE At(f, i) == IF p[i].op = "literal" THEN Plain(i)
                       ELSE IF p[i].op = "clone" THEN f[Decl(p, i)]
                       ELSE IF p[i].op = "chain" THEN Chain(f[Decl(p, i)], i)
                       ELSE NoText
<1>6. \A i \in 1..N : g[i] = At(g, i)
  <2> SUFFICES ASSUME NEW i \in 1..N PROVE g[i] = At(g, i)
    OBVIOUS
  <2>1. D[i] \in 0..N
    <3>1. PICK d \in 0..(i - 1) : d = D[i]
      BY <1>3
    <3>2. d \in 0..N
      BY <1>1
    <3>3. QED
      BY <3>1, <3>2
  <2>2. g[D[i]] \in V
    BY <1>5, <2>1
  <2>3. H[i][g[D[i]]] = IF p[i].op = "literal" THEN Plain(i)
                        ELSE IF p[i].op = "clone" THEN g[D[i]]
                        ELSE IF p[i].op = "chain" THEN Chain(g[D[i]], i)
                        ELSE NoText
    BY <2>2
  <2>4. p[i].op \in {"clone", "chain"} => D[i] = Decl(p, i)
    OBVIOUS
  <2> HIDE DEF H, D, V
  <2>5. QED
    BY <1>5, <2>3, <2>4
<1>7. g = [n \in 0..N |->
             IF n = 0 THEN NoText
             ELSE IF p[n].op = "literal" THEN Plain(n)
             ELSE IF p[n].op = "clone" THEN g[Decl(p, n)]
             ELSE IF p[n].op = "chain" THEN Chain(g[Decl(p, n)], n)
             ELSE NoText]
  <2>1. \A n \in 0..N : n = 0 \/ n \in 1..N
    OBVIOUS
  <2>2. g = [n \in 0..N |-> g[n]]
    BY <1>5
  <2> HIDE DEF N, V, D, H
  <2>3. QED
    BY <1>5, <1>6, <2>1, <2>2
<1>8. Texts(p) = [n \in 0..N |->
             IF n = 0 THEN NoText
             ELSE IF p[n].op = "literal" THEN Plain(n)
             ELSE IF p[n].op = "clone" THEN Texts(p)[Decl(p, n)]
             ELSE IF p[n].op = "chain" THEN Chain(Texts(p)[Decl(p, n)], n)
             ELSE NoText]
  BY <1>7 DEF Texts
<1>9. \A n \in 1..N : Texts(p)[n] = At(Texts(p), n)
  <2>1. \A n \in 1..N : n \in 0..N /\ n # 0
    BY <1>1
  <2> HIDE DEF N
  <2>2. QED
    BY <1>8, <2>1
<1>10. \A n \in 1..N : Texts(p)[n] = g[n]
  <2> DEFINE T == {n \in 1..N : Texts(p)[n] # g[n]}
  <2> SUFFICES ASSUME T # {} PROVE FALSE
    OBVIOUS
  <2>1. T \in SUBSET Nat
    BY <1>1
  <2>2. PICK n \in T : \A k \in T : n <= k
    <3> HIDE DEF T
    <3>1. QED
      BY <2>1, LeastNat
  <2>3. p[n].op \in {"clone", "chain"}
    BY <1>6, <1>9, <2>2
  <2>4. PICK d \in 1..(n - 1) : d = Decl(p, n)
    BY <1>2, <2>2, <2>3
  <2>5. d \in 1..N /\ d \notin T
    BY <1>1, <2>2
  <2>6. Texts(p)[d] = g[d]
    BY <2>5
  <2>7. QED
    BY <1>6, <1>9, <2>2, <2>3, <2>4, <2>6
<1>11. \A n \in 1..N : g[n] \in V
  BY <1>5
<1> HIDE DEF V, D, H
<1>12. QED
  BY <1>9, <1>10, <1>11 DEF V

\* The generator finds the text of a let through the names it has met.
LEMMA ChainTextIs ==
  ASSUME NEW p, Written(p), Documented(p), Len(p) <= MaxStatements,
         NEW ch, Chained(p, ch), NEW g \in 0..Len(p), ChainsOK(p, ch, g)
  PROVE  \A d \in 1..g : p[d].op \in Lets =>
           \A k \in d..MaxStatements : ChainTexts(p, ch)[k][p[d].x] = Texts(p)[d]
<1> DEFINE Right(d) == \A k \in d..MaxStatements : ChainTexts(p, ch)[k][p[d].x] = Texts(p)[d]
           T == {d \in 1..g : p[d].op \in Lets /\ ~Right(d)}
<1> SUFFICES ASSUME T # {} PROVE FALSE
  OBVIOUS
<1>1. T \in SUBSET Nat
  OBVIOUS
<1>2. PICK d \in T : \A k \in T : d <= k
  <2> HIDE DEF T
  <2>1. QED
    BY <1>1, LeastNat
<1>3. d \in 1..Len(p) /\ d \in 1..g /\ d # 0 /\ p[d].op \in Lets /\ Len(p) \in Nat
  BY <1>2 DEF Written
<1>4. p[d].x \in Variable
  BY <1>3, StatementIs DEF Written, Lets, Binders
<1>5. ch[p[d].x] = d
  BY <1>3 DEF ChainsOK
<1>6. PICK k \in d..MaxStatements : ChainTexts(p, ch)[k][p[d].x] # Texts(p)[d]
  BY <1>2
<1>7. k \in 0..MaxStatements /\ k # 0
  BY <1>3, VariableAssumption
<1>8. ChainTexts(p, ch)[k][p[d].x] =
        IF p[d].op = "literal" THEN Plain(d)
        ELSE IF p[d].op = "chain" THEN Chain(ChainTexts(p, ch)[k - 1][p[d].y], d)
        ELSE ChainTexts(p, ch)[k - 1][p[d].y]
  BY <1>3, <1>4, <1>5, <1>7, ChainTextsIs
<1>9. CASE p[d].op = "literal"
  BY <1>3, <1>6, <1>8, <1>9, TextsIs
<1>10. CASE p[d].op \in {"clone", "chain"}
  <2>1. PICK e \in 1..(d - 1) : e = Decl(p, d) /\ p[e].op \in Lets /\ p[e].x = p[d].y
    BY <1>3, <1>10, UsedDecl
  <2>2. e \in 1..g /\ e \notin T /\ k - 1 \in e..MaxStatements
    BY <1>2, <1>3, <1>7, VariableAssumption
  <2>3. ChainTexts(p, ch)[k - 1][p[d].y] = Texts(p)[e]
    BY <2>1, <2>2
  <2>4. QED
    BY <1>3, <1>6, <1>8, <1>10, <2>1, <2>3, TextsIs
<1>11. QED
  BY <1>3, <1>9, <1>10 DEF Lets

-----------------------------------------------------------------------------
(* The generator: names and lines. *)

\* What holds while the script is written.
Generating ==
  /\ IdsOK(prog, Ident, ids, Len(prog), Len(prog), pc - 1)
  /\ BoundOK(prog, Ident, binding, pc - 1)
  /\ ChainsOK(prog, chains, pc - 1)
  /\ CodeOK(prog, code, pc - 1)

\* What is recorded of an object is what the whole program does to it.
LEMMA RecordedOf ==
  ASSUME NEW p, NEW g, NEW k, NEW i, Recorded(p, Len(p), g, k, i)
  PROVE  /\ i.text <=> ReadsText(p, k)
         /\ i.stderr <=> ReadsErrors(p, k)
         /\ i.status <=> ReadsStatus(p, k)
         /\ i.name = IF p[k].op = "clone" /\ k > g THEN NoVar ELSE p[k].x
BY DEF Recorded, ReadsText, ReadsErrors, ReadsStatus

\* The generator finds the object a statement uses, its name and its text.
LEMMA GeneratorFinds ==
  ASSUME Typed, Documented(prog), pass = "generate", Generating,
         prog[pc].op \in Calls \cup {"clone", "chain"}, NEW o, o = Object(prog)[Decl(prog, pc)],
         NEW i, i = ids[Ident[o]]
  PROVE  /\ binding[prog[pc].y] = Ident[o] /\ Ident[o] \in 1..Len(ids)
         /\ o \in Known(prog, Len(prog), Len(prog)) /\ o < pc
         /\ Recorded(prog, Len(prog), pc - 1, o, i) /\ i.name = prog[o].x
         /\ ChainText(prog[pc].y) = Texts(prog)[Decl(prog, pc)]
<1>1. /\ pc \in 1..Len(prog) /\ Written(prog) /\ Len(prog) <= MaxStatements /\ Len(prog) \in Nat
      /\ Chained(prog, chains)
  BY DEF Typed, TypedProgram, TypedCode, Written
<1>2. PICK d \in 1..(pc - 1) : /\ d = Decl(prog, pc) /\ d \in 1..Len(prog) /\ prog[d].op \in Lets
                               /\ prog[d].x = prog[pc].y
  BY <1>1, UsedDecl
<1>3. o \in 1..(pc - 1) /\ o \in 1..Len(prog) /\ o < pc /\ prog[o].op \in {"literal", "clone"}
  BY <1>1, UsedObject
<1>4. o <= Len(prog) /\ ~(o > pc - 1)
  BY <1>1, <1>3
<1>5. o \in Known(prog, Len(prog), Len(prog))
  BY <1>3, <1>4 DEF Known, Rooted
<1>6. Ident[o] \in 1..Len(ids) /\ Recorded(prog, Len(prog), pc - 1, o, ids[Ident[o]])
  BY <1>5, IdentityKnown DEF Generating
<1>7. i.name = prog[o].x
  BY <1>4, <1>6, RecordedOf
<1>8. binding[prog[pc].y] = Ident[o]
  BY <1>2 DEF Generating, BoundOK
<1>9. ChainText(prog[pc].y) = Texts(prog)[Decl(prog, pc)]
  <2>1. ChainText(prog[pc].y) = ChainTexts(prog, chains)[MaxStatements][prog[pc].y]
    BY DEF ChainText, ChainTexts
  <2>2. MaxStatements \in d..MaxStatements /\ pc - 1 \in 0..Len(prog)
    BY <1>1, <1>2, VariableAssumption
  <2>3. ChainsOK(prog, chains, pc - 1)
    BY DEF Generating
  <2>4. ChainTexts(prog, chains)[MaxStatements][prog[d].x] = Texts(prog)[d]
    BY <1>1, <1>2, <2>2, <2>3, ChainTextIs
  <2>5. QED
    BY <1>2, <2>1, <2>4
<1>10. QED
  BY <1>3, <1>5, <1>6, <1>7, <1>8, <1>9

\* The line of a run, from what is recorded of its object.
LEMMA RunLineIs ==
  ASSUME NEW p, NEW o, NEW g, NEW t, NEW id, Recorded(p, Len(p), g, o, ids[id]), ids[id].name = p[o].x
  PROVE  RunLine(id, t) = RunOf(p, o, t) /\ CaptureVar(id) = p[o].x
BY RecordedOf DEF RunLine, RunOf, CaptureVar

\* The parts in which lines differ.
Shown(x, status) == [NoLine EXCEPT !.shows = x, !.code = status]
Printed(x) == [NoLine EXCEPT !.shows = x]
Taken(line, copy, from) == [line EXCEPT !.copy = copy, !.from = from]

LEMMA LineOfIs ==
  ASSUME NEW s
  PROVE  /\ s.op \in Lets => LineOf(s) = NoLine
         /\ s.op = "run" => LineOf(s) = RunLine(binding[s.y], ChainText(s.y))
         /\ s.op = "take" => LineOf(s) = TakeLine(s, binding[s.y], ChainText(s.y))
         /\ s.op = "fetch" => LineOf(s) = TakeLine(s, rooted[pc], Plain(pc))
         /\ s.op = "for" => LineOf(s) = [NoLine EXCEPT !.runs = Plain(pc)]
         /\ s.op \in Reads => LineOf(s) = Shown(CaptureVar(binding[s.y]), s.op = "status")
         /\ s.op = "print" => LineOf(s) = Printed(s.y)
<1>1. s.op \in Reads => LineOf(s) = Shown(CaptureVar(binding[s.y]), s.op = "status")
  BY DEF LineOf, Lets, Reads, Shown
<1>2. QED
  BY <1>1 DEF LineOf, Lets, Reads, Printed

LEMMA NoCopy ==
  ASSUME NEW p, NEW o, NEW t, NEW x
  PROVE  Taken(RunOf(p, o, t), NoVar, x) = [RunOf(p, o, t) EXCEPT !.from = x]
<1> DEFINE a == IF ReadsErrors(p, o) \/ ReadsText(p, o) THEN p[o].x ELSE NoVar
           b == IF ReadsErrors(p, o) THEN "stderr" ELSE "stdout"
           c == IF ReadsStatus(p, o) THEN p[o].x ELSE NoVar
<1>1. RunOf(p, o, t) = [NoLine EXCEPT !.runs = t, !.into = a, !.stream = b, !.exit = c]
  BY DEF RunOf
<1> HIDE DEF a, b, c
<1>2. QED
  BY <1>1 DEF NoLine, Taken

LEMMA MeantLineIs ==
  ASSUME NEW p, NEW n
  PROVE  /\ p[n].op \in Lets => MeantLine(p, n) = NoLine
         /\ p[n].op = "run" => MeantLine(p, n) = RunOf(p, Object(p)[n], Texts(p)[Decl(p, n)])
         /\ p[n].op = "take" =>
              MeantLine(p, n) = Taken(RunOf(p, Object(p)[n], Texts(p)[Decl(p, n)]), p[n].x, p[Object(p)[n]].x)
         /\ p[n].op = "fetch" => MeantLine(p, n) = Taken(RunOf(p, n, Plain(n)), NoVar, p[n].x)
         /\ p[n].op = "for" => MeantLine(p, n) = [NoLine EXCEPT !.runs = Plain(n)]
         /\ p[n].op \in Reads =>
              MeantLine(p, n) = Shown(p[Object(p)[n]].x, p[n].op = "status")
         /\ p[n].op = "print" => MeantLine(p, n) = Printed(p[n].y)
<1>1. Taken(RunOf(p, n, Plain(n)), NoVar, p[n].x) = [RunOf(p, n, Plain(n)) EXCEPT !.from = p[n].x]
  BY NoCopy
<1>2. p[n].op = "fetch" => MeantLine(p, n) = [RunOf(p, n, Plain(n)) EXCEPT !.from = p[n].x]
  BY DEF MeantLine, Lets, Reads
<1>3. p[n].op \in Reads => MeantLine(p, n) = Shown(p[Object(p)[n]].x, p[n].op = "status")
  BY DEF MeantLine, Lets, Reads, Shown
<1>4. p[n].op = "take" =>
        MeantLine(p, n) = Taken(RunOf(p, Object(p)[n], Texts(p)[Decl(p, n)]), p[n].x, p[Object(p)[n]].x)
  BY DEF MeantLine, Lets, Reads, Taken
<1>5. QED
  BY <1>1, <1>2, <1>3, <1>4 DEF MeantLine, Lets, Reads, Printed

\* The generator writes the line that is meant.
LEMMA LineIsMeant ==
  ASSUME Typed, Documented(prog), pass = "generate", Generating
  PROVE  LineOf(prog[pc]) = MeantLine(prog, pc)
<1> DEFINE s == prog[pc]
           d == Decl(prog, pc)
           o == Object(prog)[pc]
           t == Texts(prog)[d]
<1> SUFFICES LineOf(s) = MeantLine(prog, pc)
  OBVIOUS
<1>1. /\ pc \in 1..Len(prog) /\ Written(prog) /\ Len(prog) <= MaxStatements /\ Len(prog) \in Nat
  BY DEF Typed, TypedProgram, Written
<1>2. s.op \in Lets \cup Calls \cup {"fetch", "for", "print"}
  BY <1>1, DocumentedOps
<1>3. s.op \in Calls =>
        /\ binding[s.y] = Ident[o] /\ ChainText(s.y) = t /\ CaptureVar(Ident[o]) = prog[o].x
        /\ \A u : RunLine(Ident[o], u) = RunOf(prog, o, u)
        /\ o < pc /\ o \in 1..Len(prog)
  <2> SUFFICES ASSUME s.op \in Calls
               PROVE  /\ binding[s.y] = Ident[o] /\ ChainText(s.y) = t /\ CaptureVar(Ident[o]) = prog[o].x
                      /\ \A u : RunLine(Ident[o], u) = RunOf(prog, o, u)
                      /\ o < pc /\ o \in 1..Len(prog)
    OBVIOUS
  <2>1. o = Object(prog)[d]
    <3>1. s.op \notin Makers
      BY DEF Calls, Reads, Makers, Rooted
    <3>2. QED
      BY <1>1, <3>1, ObjectIs
  <2>2. /\ binding[s.y] = Ident[o] /\ ChainText(s.y) = t
        /\ Recorded(prog, Len(prog), pc - 1, o, ids[Ident[o]]) /\ ids[Ident[o]].name = prog[o].x
        /\ o < pc /\ o \in Known(prog, Len(prog), Len(prog))
    BY <2>1, GeneratorFinds
  <2>3. \A u : RunLine(Ident[o], u) = RunOf(prog, o, u) /\ CaptureVar(Ident[o]) = prog[o].x
    <3> HIDE DEF o
    <3>1. QED
      BY <2>2, RunLineIs
  <2> HIDE DEF o, t, s
  <2>4. QED
    BY <2>2, <2>3 DEF Known
<1>4. CASE s.op \in Lets
  BY <1>1, <1>4, LineOfIs, MeantLineIs
<1>5. CASE s.op = "run"
  <2>1. LineOf(s) = RunLine(binding[s.y], ChainText(s.y))
    BY <1>5, LineOfIs
  <2>2. MeantLine(prog, pc) = RunOf(prog, o, t)
    BY <1>5, MeantLineIs
  <2> HIDE DEF s, o, t
  <2>3. QED
    BY <1>3, <1>5, <2>1, <2>2 DEF Calls
<1>6. CASE s.op = "take"
  <2>1. LineOf(s) = TakeLine(s, binding[s.y], ChainText(s.y))
    BY <1>6, LineOfIs
  <2>2. MeantLine(prog, pc) = Taken(RunOf(prog, o, t), s.x, prog[o].x)
    BY <1>6, MeantLineIs
  <2>3. s.op \in Calls /\ s.op \in Binders
    BY <1>6 DEF Calls, Binders
  <2>4. prog[o].x # s.x
    BY <1>1, <1>3, <2>3, OneName
  <2> HIDE DEF s, o, t
  <2>5. QED
    BY <1>3, <2>1, <2>2, <2>3, <2>4 DEF TakeLine, Taken
<1>7. CASE s.op = "fetch"
  <2>1. LineOf(s) = TakeLine(s, rooted[pc], Plain(pc))
    BY <1>7, LineOfIs
  <2>2. MeantLine(prog, pc) = Taken(RunOf(prog, pc, Plain(pc)), NoVar, s.x)
    BY <1>7, MeantLineIs
  <2>3. pc \in Known(prog, Len(prog), Len(prog)) /\ Ident[pc] = rooted[pc]
    <3>1. pc <= Len(prog)
      BY <1>1
    <3>2. QED
      BY <1>1, <1>7, <3>1 DEF Known, Rooted, Ident, Identities
  <2>4. Recorded(prog, Len(prog), pc - 1, pc, ids[rooted[pc]])
    BY <2>3, IdentityKnown DEF Generating
  <2>5. ids[rooted[pc]].name = s.x
    BY <1>7, <2>4, RecordedOf
  <2>6. RunLine(rooted[pc], Plain(pc)) = RunOf(prog, pc, Plain(pc)) /\ CaptureVar(rooted[pc]) = s.x
    BY <2>4, <2>5, RunLineIs
  <2> HIDE DEF s
  <2>7. QED
    BY <2>1, <2>2, <2>6 DEF TakeLine, Taken
<1>8. CASE s.op = "for"
  BY <1>8, LineOfIs, MeantLineIs
<1>9. CASE s.op \in Reads
  <2>1. LineOf(s) = Shown(CaptureVar(binding[s.y]), s.op = "status")
    BY <1>9, LineOfIs
  <2>2. MeantLine(prog, pc) = Shown(prog[o].x, s.op = "status")
    BY <1>9, MeantLineIs
  <2>3. s.op \in Calls
    BY <1>9 DEF Calls
  <2> HIDE DEF s, o
  <2>4. QED
    BY <1>3, <2>1, <2>2, <2>3
<1>10. CASE s.op = "print"
  <2>1. LineOf(s) = Printed(s.y)
    BY <1>10, LineOfIs
  <2>2. MeantLine(prog, pc) = Printed(s.y)
    BY <1>10, MeantLineIs
  <2>3. QED
    BY <2>1, <2>2
<1>11. QED
  BY <1>2, <1>4, <1>5, <1>6, <1>7, <1>8, <1>9, <1>10 DEF Calls, Lets

\* A let names the identity of its object.
LEMMA LetFinds ==
  ASSUME Typed, Documented(prog), pass = "generate", Generating, prog[pc].op \in Lets,
         NEW o, o = Object(prog)[pc]
  PROVE  /\ LazyId(pc) = Ident[o] /\ o \in Known(prog, Len(prog), Len(prog))
         /\ prog[pc].op # "clone" => ids[Ident[o]].name = prog[o].x
         /\ prog[pc].op = "clone" => o = pc /\ ids[Ident[o]].name = NoVar
<1> DEFINE s == prog[pc]
<1>1. /\ pc \in 1..Len(prog) /\ Written(prog) /\ Len(prog) \in Nat
  BY DEF Typed, TypedProgram, Written
<1>2. o \in 1..pc /\ prog[o].op \in {"literal", "clone"} /\ (s.op \in {"literal", "clone"} => o = pc)
  BY <1>1, LetObject
<1>3. o \in 1..Len(prog) /\ o <= Len(prog) /\ o \in Known(prog, Len(prog), Len(prog))
  <2>1. o \in 1..Len(prog) /\ o <= Len(prog)
    BY <1>1, <1>2
  <2>2. QED
    BY <1>2, <2>1 DEF Known, Rooted
<1>4. Ident[o] \in 1..Len(ids) /\ Ident[o] # NoId /\ Recorded(prog, Len(prog), pc - 1, o, ids[Ident[o]])
  BY <1>3, IdentityKnown DEF Generating
<1>5. ids[Ident[o]].name = IF prog[o].op = "clone" /\ o > pc - 1 THEN NoVar ELSE prog[o].x
  BY <1>4, RecordedOf
<1>6. Ident[pc] = IF s.op = "clone" THEN cloned[pc] ELSE rooted[pc]
  BY <1>1 DEF Ident, Identities
<1>7. CASE s.op = "literal"
  <2>1. o = pc /\ LazyId(pc) = rooted[pc]
    BY <1>2, <1>7 DEF LazyId
  <2>2. QED
    BY <1>3, <1>5, <1>6, <1>7, <2>1
<1>8. CASE s.op = "clone"
  <2>1. o = pc /\ cloned[pc] # NoId
    BY <1>2, <1>4, <1>6, <1>8
  <2>2. LazyId(pc) = cloned[pc]
    BY <1>8, <2>1 DEF LazyId
  <2>3. pc > pc - 1
    BY <1>1
  <2>4. QED
    BY <1>3, <1>5, <1>6, <1>8, <2>1, <2>2, <2>3
<1>9. CASE s.op = "chain"
  <2>1. o = Object(prog)[Decl(prog, pc)] /\ prog[o].op = "literal"
    BY <1>1, <1>9, ChainObject
  <2>2. binding[s.y] = Ident[o]
    BY <1>9, <2>1, GeneratorFinds
  <2>3. LazyId(pc) = binding[s.y]
    BY <1>9 DEF LazyId
  <2>4. QED
    BY <1>3, <1>5, <1>9, <2>1, <2>2, <2>3
<1>10. QED
  BY <1>7, <1>8, <1>9 DEF Lets

LEMMA GenerateNames ==
  ASSUME Typed, Documented(prog), Generate, Generating
  PROVE  IdsOK(prog, Ident, ids', Len(prog), Len(prog), pc)
<1> DEFINE s == prog[pc]
           N == Len(prog)
           K == Known(prog, N, N)
           J == Ident
           o == Object(prog)[pc]
           l == LazyId(pc)
<1>1. /\ pass = "generate"
      /\ IF s.op \in Lets
         THEN ids' = [ids EXCEPT ![l] = [ids[l] EXCEPT !.name =
                                               IF ids[l].name = NoVar THEN s.x ELSE ids[l].name]]
         ELSE ids' = ids
  BY DEF Generate, Lets
<1>2. pc \in 1..N /\ Written(prog) /\ N \in Nat /\ ids \in Seq(Identity)
  BY <1>1 DEF Typed, TypedProgram, TypedAnalysis, Written
<1>3. /\ OneForOne(K, J, Len(ids))
      /\ \A k \in K : J[k] \in 1..Len(ids) /\ Recorded(prog, N, pc - 1, k, ids[J[k]])
                      /\ ids[J[k]] \in Identity
  <2>1. IdsOK(prog, J, ids, N, N, pc - 1)
    BY DEF Generating
  <2>2. OneForOne(K, J, Len(ids))
    BY <2>1 DEF IdsOK
  <2> HIDE DEF J
  <2>3. QED
    BY <2>1, <2>2, IdentityKnown
<1>4. \A k \in K : k \in 1..N /\ (prog[k].op = "clone" => prog[k].op \in Lets /\ prog[k].x # NoVar)
  BY <1>2, StatementIs DEF Known, Written, Binders, Lets
<1>5. ASSUME NEW k \in K, k # pc, NEW i, Recorded(prog, N, pc - 1, k, i)
      PROVE  Recorded(prog, N, pc, k, i)
  <2>1. k > pc - 1 <=> k > pc
    BY <1>2, <1>4, <1>5
  <2> HIDE DEF K, N
  <2>2. QED
    BY <1>5, <2>1 DEF Recorded
<1>6. ASSUME NEW i, Recorded(prog, N, pc - 1, pc, i)
      PROVE  /\ prog[pc].op # "clone" => Recorded(prog, N, pc, pc, i)
             /\ prog[pc].op = "clone" /\ i \in Identity => Recorded(prog, N, pc, pc, [i EXCEPT !.name = s.x])
  <2>1. ~(pc > pc)
    BY <1>2
  <2> HIDE DEF N
  <2>2. prog[pc].op # "clone" => Recorded(prog, N, pc, pc, i)
    BY <1>6, <2>1 DEF Recorded
  <2>3. prog[pc].op = "clone" /\ i \in Identity => Recorded(prog, N, pc, pc, [i EXCEPT !.name = s.x])
    BY <1>6, <2>1 DEF Recorded, Identity
  <2>4. QED
    BY <2>2, <2>3
<1>7. CASE s.op \in {"literal", "chain"}
  <2>1. l = J[o] /\ o \in K /\ ids[J[o]].name = prog[o].x
    BY <1>1, <1>7, LetFinds DEF Lets
  <2>2. prog[o].x # NoVar
    <3>1. prog[o].op \in {"literal", "clone"}
      BY <1>2, <1>7, LetObject DEF Lets
    <3>2. QED
      BY <1>2, <1>4, <2>1, <3>1, StatementIs DEF Written, Binders
  <2>3. [ids[l] EXCEPT !.name = ids[l].name] = ids[l]
    BY <1>3, <2>1 DEF Identity
  <2>4. ids' = ids
    <3>1. ids' = [ids EXCEPT ![l] = ids[l]]
      BY <1>1, <1>7, <2>1, <2>2, <2>3 DEF Lets
    <3>2. QED
      BY <1>2, <3>1
  <2>5. \A k \in K : Recorded(prog, N, pc, k, ids[J[k]])
    <3>1. s.op # "clone"
      BY <1>7
    <3> HIDE DEF K, J
    <3>2. QED
      BY <1>3, <1>5, <1>6, <3>1
  <2>6. QED
    BY <1>2, <1>3, <2>4, <2>5 DEF IdsOK
<1>8. CASE s.op = "clone"
  <2>1. l = J[pc] /\ pc \in K /\ ids[J[pc]].name = NoVar
    BY <1>1, <1>8, LetFinds DEF Lets
  <2> DEFINE i == [ids[J[pc]] EXCEPT !.name = s.x]
             q == [ids EXCEPT ![J[pc]] = i]
  <2>2. ids' = q
    BY <1>1, <1>8, <2>1 DEF Lets
  <2>3. i \in Identity /\ Recorded(prog, N, pc, pc, i)
    <3>1. i \in Identity
      <4>1. s.x \in Variable \cup {NoVar}
        BY <1>2, StatementIs DEF Written
      <4>2. QED
        BY <1>3, <2>1, <4>1 DEF Identity
    <3>2. QED
      BY <1>3, <1>6, <1>8, <2>1, <3>1
  <2>4. /\ q \in Seq(Identity) /\ Len(q) = Len(ids) /\ q[J[pc]] = i
        /\ \A j \in 1..Len(ids) : j # J[pc] => q[j] = ids[j]
    <3>1. J[pc] \in 1..Len(ids)
      BY <1>3, <2>1
    <3> HIDE DEF i, J
    <3>2. QED
      BY <1>2, <2>3, <3>1, SetOne
  <2> HIDE DEF q, i
  <2>5. ASSUME NEW k \in K PROVE Recorded(prog, N, pc, k, q[J[k]])
    <3>1. CASE k = pc
      BY <2>3, <2>4, <3>1
    <3>2. CASE k # pc
      <4>1. J[k] # J[pc] /\ J[k] \in 1..Len(ids)
        BY <1>3, <2>1, <3>2 DEF OneForOne
      <4>2. q[J[k]] = ids[J[k]]
        BY <2>4, <4>1
      <4>3. QED
        BY <1>3, <1>5, <3>2, <4>2
    <3>3. QED
      BY <3>1, <3>2
  <2>6. QED
    BY <1>3, <2>2, <2>4, <2>5 DEF IdsOK
<1>9. CASE s.op \notin Lets
  <2>1. s.op # "clone" /\ ids' = ids
    BY <1>1, <1>9 DEF Lets
  <2>2. \A k \in K : Recorded(prog, N, pc, k, ids[J[k]])
    <3> HIDE DEF K, J
    <3>1. QED
      BY <1>3, <1>5, <1>6, <2>1
  <2>3. QED
    BY <1>2, <1>3, <2>1, <2>2 DEF IdsOK
<1>10. QED
  BY <1>7, <1>8, <1>9 DEF Lets

\* What the generator has written is right after every statement.
LEMMA GenerateKept ==
  ASSUME Typed, Documented(prog), Generate, Generating
  PROVE  /\ Ident' = Ident /\ prog' = prog
         /\ IdsOK(prog, Ident, ids', Len(prog), Len(prog), pc)
         /\ BoundOK(prog, Ident, binding', pc)
         /\ ChainsOK(prog, chains', pc)
         /\ CodeOK(prog, code', pc)
<1> DEFINE s == prog[pc]
           J == Ident
           o == Object(prog)[pc]
<1>1. /\ pass = "generate" /\ UNCHANGED <<prog, rooted, cloned>>
      /\ code' = Append(code, LineOf(s))
      /\ IF s.op \in Lets
         THEN /\ binding' = [binding EXCEPT ![s.x] = LazyId(pc)]
              /\ chains' = [chains EXCEPT ![s.x] = pc]
         ELSE UNCHANGED <<binding, chains>>
  BY DEF Generate, Lets
<1>2. pc \in 1..Len(prog) /\ Written(prog) /\ Len(prog) \in Nat
  BY <1>1 DEF Typed, TypedProgram, Written
<1>3. Ident' = Ident
  BY <1>1 DEF Ident
<1>4. \A k \in 1..pc : k = pc \/ (k \in 1..(pc - 1) /\ k \in 1..Len(prog) /\ k # pc)
  BY <1>2
<1>5. \A k \in 1..Len(prog) : prog[k].op \in Lets =>
        prog[k].x \in Variable /\ (k # pc => prog[k].x # s.x)
  <2> SUFFICES ASSUME NEW k \in 1..Len(prog), prog[k].op \in Lets
               PROVE  prog[k].x \in Variable /\ (k # pc => prog[k].x # s.x)
    OBVIOUS
  <2>1. prog[k].op \in Binders
    BY DEF Lets, Binders
  <2>2. QED
    BY <1>2, <2>1, StatementIs, OneName DEF Written
<1>6. s.op \in Lets => LazyId(pc) = J[o]
  BY <1>1, LetFinds
<1>7. BoundOK(prog, J, binding', pc)
  <2>1. BoundOK(prog, J, binding, pc - 1)
    BY DEF Generating
  <2>2. binding \in [Variable -> 0..Len(ids)]
    BY DEF Typed, TypedAnalysis
  <2> HIDE DEF J
  <2>3. QED
    BY <1>1, <1>2, <1>4, <1>5, <1>6, <2>1, <2>2 DEF BoundOK
<1>8. ChainsOK(prog, chains', pc)
  <2>1. ChainsOK(prog, chains, pc - 1)
    BY DEF Generating
  <2>2. chains \in [Variable -> Index]
    BY DEF Typed, TypedCode, Chained
  <2>3. QED
    BY <1>1, <1>2, <1>4, <1>5, <2>1, <2>2 DEF ChainsOK
<1>9. CodeOK(prog, code', pc)
  <2>1. code \in Seq(Line) /\ Len(code) = pc - 1
    BY <1>1 DEF Typed, TypedCode
  <2>2. LineOf(s) = MeantLine(prog, pc) /\ LineOf(s) \in Line
    BY <1>1, LineIsMeant, LineOfType
  <2>3. PICK r \in Line : code' = Append(code, r) /\ r = MeantLine(prog, pc)
    BY <1>1, <2>2
  <2>4. /\ Len(code') = pc /\ code'[pc] = r
        /\ \A k \in 1..(pc - 1) : code'[k] = code[k]
    BY <1>2, <2>1, <2>3
  <2>5. QED
    BY <1>4, <2>3, <2>4 DEF CodeOK, Generating
<1>10. QED
  BY <1>1, <1>3, <1>7, <1>8, <1>9, GenerateNames

-----------------------------------------------------------------------------
(* The invariant of the compilation. *)

Size == Len(prog)

Nothing == /\ rooted = [n \in Index |-> NoId] /\ cloned = [n \in Index |-> NoId]
           /\ scope = NoScope /\ ids = << >> /\ ~rerun /\ warned = {} /\ pc = 1
NoCode == binding = Unbound /\ chains = [v \in Variable |-> 0] /\ code = << >>

Allocated ==
  /\ pass = "allocate" =>
       /\ IdsOK(prog, Ident, ids, pc - 1, 0, 0)
       /\ OuterOK(prog, Ident, scope, pc - 1, 0)
       /\ ~rerun
  /\ pass \in {"allocate", "scan"} => InnerNames(prog, scope)

Scanned ==
  /\ pass = "scan" =>
       /\ IdsOK(prog, Ident, ids, Size, pc - 1, 0)
       /\ OuterOK(prog, Ident, scope, Size, pc - 1)
       /\ InnerOK(prog, Ident, scope, pc - 1)
       /\ rerun <=> TwiceIn(prog, pc - 1)
  /\ pass = "warn" => IdsOK(prog, Ident, ids, Size, Size, 0)
  /\ pass \notin {"write", "allocate", "scan"} => (rerun <=> TwiceIn(prog, Size))

Judged ==
  /\ pass = "rejected" => rerun
  /\ pass \in {"generate", "start", "execute", "done"} =>
       ~rerun /\ warned = {Ident[k] : k \in Idle(prog)}

Generated ==
  /\ pass = "generate" => Generating
  /\ pass \in {"start", "execute", "done"} =>
       /\ IdsOK(prog, Ident, ids, Size, Size, Size)
       /\ CodeOK(prog, code, Size)

Compiled ==
  /\ pass = "write" => Nothing
  /\ pass \in {"write", "allocate", "scan", "warn", "rejected"} => NoCode
  /\ Documented(prog) /\ pass # "write" => Allocated /\ Scanned /\ Judged /\ Generated

LEMMA CompiledInit ==
  ASSUME CommandsInit
  PROVE  Compiled
BY DEF CommandsInit, AnalysisInit, Compiled, Nothing, NoCode

LEMMA CompiledStutter ==
  ASSUME Compiled, UNCHANGED commandVars
  PROVE  Compiled'
<1>1. UNCHANGED <<prog, pass, pc, scope, ids, rooted, cloned, rerun, warned, binding, chains, code>>
  BY DEF commandVars, analysisVars, generatorVars
<1>2. Ident' = Ident /\ Size' = Size
  BY <1>1 DEF Ident, Size
<1>3. QED
  BY <1>1, <1>2 DEF Compiled, Nothing, NoCode, Allocated, Scanned, Judged, Generated, Generating, Size

LEMMA CompiledWrite ==
  ASSUME Compiled, Write, UNCHANGED <<generatorVars, executionVars>>
  PROVE  Compiled'
BY DEF Compiled, Write, Nothing, NoCode, generatorVars

\* Before the first statement nothing is known.
LEMMA NothingKnown ==
  ASSUME NEW p, NEW J, NEW sc, NEW a
  PROVE  /\ Known(p, 0, 0) = {} /\ ~TwiceIn(p, 0) /\ InnerOK(p, J, sc, 0)
         /\ OuterOK(p, J, sc, 0, 0)
<1>1. \A k \in 1..Len(p) : ~(k <= 0)
  OBVIOUS
<1>2. \A k \in 1..0 : FALSE
  OBVIOUS
<1>3. QED
  BY <1>1, <1>2 DEF Known, TwiceIn, InnerOK, OuterOK

LEMMA CompiledCompile ==
  ASSUME Typed, Compiled, Compile, UNCHANGED <<generatorVars, executionVars>>
  PROVE  Compiled'
<1>1. /\ pass = "write" /\ pass' = "allocate" /\ Nothing /\ NoCode
      /\ UNCHANGED <<prog, pc, scope, ids, rooted, cloned, rerun, warned, binding, chains, code>>
  BY DEF Compiled, Compile, generatorVars
<1>2. Ident' = Ident /\ pc = 1 /\ pc - 1 = 0 /\ ids = << >> /\ scope = NoScope /\ ~rerun
  BY <1>1 DEF Ident, Nothing
<1>3. IdsOK(prog, Ident, ids, 0, 0, 0)
  <2>1. ids \in Seq(Identity) /\ Len(ids) = 0 /\ \A i \in 1..0 : FALSE
    BY <1>2
  <2>2. Known(prog, 0, 0) = {}
    BY NothingKnown
  <2>3. QED
    BY <2>1, <2>2 DEF IdsOK, OneForOne
<1>4. InnerNames(prog, scope)
  BY <1>2 DEF InnerNames, NoScope, Unbound
<1>5. Allocated'
  BY <1>1, <1>2, <1>3, <1>4, NothingKnown DEF Allocated
<1>6. Scanned' /\ Judged' /\ Generated' /\ NoCode'
  BY <1>1 DEF Scanned, Judged, Generated, NoCode
<1>7. QED
  BY <1>1, <1>5, <1>6 DEF Compiled

LEMMA CompiledAllocate ==
  ASSUME Typed, Compiled, Allocate, UNCHANGED <<generatorVars, executionVars>>
  PROVE  Compiled'
<1>1. /\ pass = "allocate" /\ Advance("allocate", "scan") /\ NoCode
      /\ UNCHANGED <<prog, cloned, rerun, warned, binding, chains, code>>
  BY DEF Compiled, Allocate, generatorVars
<1>2. /\ pc \in 1..Len(prog) /\ Len(prog) \in Nat
      /\ (pc < Len(prog) /\ pc' = pc + 1 /\ pass' = "allocate") \/
         (pc = Len(prog) /\ pc' = 1 /\ pass' = "scan")
  BY <1>1 DEF Typed, TypedProgram, Written, Advance
<1>3. NoCode' /\ pass' \in {"allocate", "scan"}
  BY <1>1, <1>2 DEF NoCode
<1>4. ASSUME Documented(prog) PROVE Allocated' /\ Scanned' /\ Judged' /\ Generated'
  <2>1. /\ IdsOK(prog, Ident, ids, pc - 1, 0, 0) /\ OuterOK(prog, Ident, scope, pc - 1, 0)
        /\ InnerNames(prog, scope) /\ ~rerun
    BY <1>1, <1>4 DEF Compiled, Allocated
  <2>2. /\ IdsOK(prog, Ident', ids', pc, 0, 0)
        /\ OuterOK(prog, Ident', scope', pc, 0)
        /\ InnerNames(prog, scope')
    BY <1>4, <2>1, AllocateKept
  <2>3. CASE pc < Len(prog)
    <3>1. pass' = "allocate" /\ pc' - 1 = pc
      BY <1>2, <2>3
    <3>2. QED
      BY <1>1, <2>1, <2>2, <3>1 DEF Allocated, Scanned, Judged, Generated
  <2>4. CASE pc = Len(prog)
    <3>1. pass' = "scan" /\ pc' - 1 = 0 /\ Size' = pc
      BY <1>1, <1>2, <2>4 DEF Size
    <3>2. Allocated' /\ Judged' /\ Generated'
      BY <1>1, <2>2, <3>1 DEF Allocated, Judged, Generated
    <3>3. InnerOK(prog, Ident', scope', 0) /\ (rerun' <=> TwiceIn(prog, 0))
      BY <1>1, <2>1, NothingKnown
    <3>4. Scanned'
      BY <1>1, <2>2, <3>1, <3>3 DEF Scanned
    <3>5. QED
      BY <3>2, <3>4
  <2>5. QED
    BY <1>2, <2>3, <2>4
<1>5. QED
  BY <1>1, <1>3, <1>4 DEF Compiled

LEMMA CompiledScan ==
  ASSUME Typed, Compiled, Scan, UNCHANGED <<generatorVars, executionVars>>
  PROVE  Compiled'
<1>1. /\ pass = "scan" /\ Advance("scan", "warn") /\ NoCode
      /\ UNCHANGED <<prog, rooted, warned, binding, chains, code>>
  BY DEF Compiled, Scan, generatorVars
<1>2. /\ pc \in 1..Len(prog) /\ Len(prog) \in Nat
      /\ (pc < Len(prog) /\ pc' = pc + 1 /\ pass' = "scan") \/
         (pc = Len(prog) /\ pc' = 1 /\ pass' = "warn")
  BY <1>1 DEF Typed, TypedProgram, Written, Advance
<1>3. NoCode' /\ pass' \in {"scan", "warn"}
  BY <1>1, <1>2 DEF NoCode
<1>4. ASSUME Documented(prog) PROVE Allocated' /\ Scanned' /\ Judged' /\ Generated'
  <2>1. Walking /\ (rerun <=> TwiceIn(prog, pc - 1))
    BY <1>1, <1>4 DEF Compiled, Allocated, Scanned, Walking, Size
  <2>2. /\ IdsOK(prog, Ident', ids', Len(prog), pc, 0)
        /\ OuterOK(prog, Ident', scope', Len(prog), pc)
        /\ InnerOK(prog, Ident', scope', pc)
        /\ InnerNames(prog, scope')
        /\ rerun' <=> TwiceIn(prog, pc)
    BY <1>4, <2>1, ScanIds, ScanScope, ScanReruns
  <2>3. CASE pc < Len(prog)
    <3>1. pass' = "scan" /\ pc' - 1 = pc /\ Size' = Len(prog)
      BY <1>1, <1>2, <2>3 DEF Size
    <3>2. QED
      BY <1>1, <2>2, <3>1 DEF Allocated, Scanned, Judged, Generated
  <2>4. CASE pc = Len(prog)
    <3>1. pass' = "warn" /\ Size' = pc /\ Size' = Len(prog)
      BY <1>1, <1>2, <2>4 DEF Size
    <3>2. QED
      BY <1>1, <2>2, <3>1 DEF Allocated, Scanned, Judged, Generated
  <2>5. QED
    BY <1>2, <2>3, <2>4
<1>5. QED
  BY <1>1, <1>3, <1>4 DEF Compiled

LEMMA CompiledWarn ==
  ASSUME Typed, Compiled, EmitWarnings, UNCHANGED <<generatorVars, executionVars>>
  PROVE  Compiled'
<1>1. /\ pass = "warn" /\ pass' = (IF rerun THEN "rejected" ELSE "generate") /\ NoCode /\ pc = 1
      /\ UNCHANGED <<prog, pc, scope, ids, rooted, cloned, rerun, binding, chains, code>>
  BY DEF Compiled, EmitWarnings, generatorVars, Typed, TypedProgram
<1>2. Ident' = Ident /\ Size' = Size /\ pc - 1 = 0
  BY <1>1 DEF Ident, Size
<1>3. NoCode' /\ pass' \in {"rejected", "generate"}
  BY <1>1 DEF NoCode
<1>4. ASSUME Documented(prog) PROVE Allocated' /\ Scanned' /\ Judged' /\ Generated'
  <2>1. IdsOK(prog, Ident, ids, Size, Size, 0) /\ (rerun <=> TwiceIn(prog, Size))
    BY <1>1, <1>4 DEF Compiled, Scanned
  <2>2. warned' = {Ident[k] : k \in Idle(prog)}
    BY <1>4, <2>1, WarnKept DEF Size
  <2>3. Allocated' /\ Scanned'
    BY <1>1, <1>2, <1>3, <2>1 DEF Allocated, Scanned
  <2>4. Judged'
    BY <1>1, <1>2, <2>2 DEF Judged
  <2>5. BoundOK(prog, Ident, binding, 0) /\ ChainsOK(prog, chains, 0) /\ CodeOK(prog, code, 0)
    <3>1. (\A k \in 1..0 : FALSE) /\ code = << >> /\ Len(<< >>) = 0
      BY <1>1 DEF NoCode
    <3>2. QED
      BY <3>1 DEF BoundOK, ChainsOK, CodeOK
  <2>6. Generating'
    BY <1>1, <1>2, <2>1, <2>5 DEF Generating, Size
  <2>7. Generated'
    BY <1>3, <2>6 DEF Generated
  <2>8. QED
    BY <2>3, <2>4, <2>7
<1>5. QED
  BY <1>1, <1>3, <1>4 DEF Compiled

LEMMA CompiledGenerate ==
  ASSUME Typed, Compiled, Generate
  PROVE  Compiled'
<1>1. /\ pass = "generate" /\ Advance("generate", "start")
      /\ UNCHANGED <<prog, scope, rooted, cloned, rerun, warned>>
  BY DEF Compiled, Generate
<1>2. /\ pc \in 1..Len(prog) /\ Len(prog) \in Nat
      /\ (pc < Len(prog) /\ pc' = pc + 1 /\ pass' = "generate") \/
         (pc = Len(prog) /\ pc' = 1 /\ pass' = "start")
  BY <1>1 DEF Typed, TypedProgram, Written, Advance
<1>3. pass' \in {"generate", "start"}
  BY <1>1, <1>2
<1>4. ASSUME Documented(prog) PROVE Allocated' /\ Scanned' /\ Judged' /\ Generated'
  <2>1. Generating /\ Judged /\ Scanned
    BY <1>1, <1>4 DEF Compiled, Generated
  <2>2. /\ Ident' = Ident
        /\ IdsOK(prog, Ident, ids', Len(prog), Len(prog), pc)
        /\ BoundOK(prog, Ident, binding', pc)
        /\ ChainsOK(prog, chains', pc)
        /\ CodeOK(prog, code', pc)
    BY <1>4, <2>1, GenerateKept
  <2>3. Size' = Size
    BY <1>1 DEF Size
  <2>4. Allocated' /\ Scanned' /\ Judged'
    BY <1>1, <1>3, <2>1, <2>2, <2>3 DEF Allocated, Scanned, Judged
  <2>5. CASE pc < Len(prog)
    <3>1. pass' = "generate" /\ pc' - 1 = pc
      BY <1>2, <2>5
    <3>2. QED
      BY <1>1, <2>2, <2>4, <3>1 DEF Generated, Generating
  <2>6. CASE pc = Len(prog)
    <3>1. pass' = "start" /\ Size' = pc /\ Size' = Len(prog)
      BY <1>1, <1>2, <2>6 DEF Size
    <3>2. QED
      BY <1>1, <2>2, <2>4, <3>1 DEF Generated
  <2>7. QED
    BY <1>2, <2>5, <2>6
<1>5. QED
  BY <1>1, <1>3, <1>4 DEF Compiled

\* The execution changes nothing of it.
LEMMA CompiledRuns ==
  ASSUME Compiled, pass \in {"start", "execute"}, pass' \in {"execute", "done"},
         UNCHANGED <<prog, scope, ids, rooted, cloned, rerun, warned, generatorVars>>
  PROVE  Compiled'
<1>1. UNCHANGED <<binding, chains, code>> /\ Ident' = Ident /\ Size' = Size
  BY DEF generatorVars, Ident, Size
<1>2. QED
  BY <1>1 DEF Compiled, Allocated, Scanned, Judged, Generated

LEMMA CompiledNext ==
  ASSUME Typed, Compiled, [CommandsNext]_commandVars
  PROVE  Compiled'
<1>1. CASE Start
  BY <1>1, CompiledRuns DEF Start
<1>2. CASE Execute
  BY <1>2, CompiledRuns DEF Execute
<1>3. QED
  BY <1>1, <1>2, CompiledStutter, CompiledWrite, CompiledCompile, CompiledAllocate, CompiledScan,
     CompiledWarn, CompiledGenerate DEF CommandsNext, AnalysisNext

LEMMA RunsTwiceIs ==
  ASSUME NEW p
  PROVE  RunsTwice(p) <=> TwiceIn(p, Len(p))
BY DEF RunsTwice, TwiceIn

LEMMA CompiledVerdict ==
  ASSUME Typed, Compiled
  PROVE  VerdictIsRight
<1> SUFFICES ASSUME Documented(prog), pass \notin {"write", "allocate", "scan", "warn"}
             PROVE  pass = "rejected" <=> RunsTwice(prog)
  BY DEF VerdictIsRight
<1>1. pass \in {"rejected", "generate", "start", "execute", "done"}
  BY DEF Typed, TypedProgram
<1>2. /\ rerun <=> TwiceIn(prog, Len(prog))
      /\ pass = "rejected" => rerun
      /\ pass \in {"generate", "start", "execute", "done"} => ~rerun
  BY <1>1 DEF Compiled, Scanned, Judged, Size
<1>3. QED
  BY <1>1, <1>2, RunsTwiceIs

LEMMA CompiledWarnings ==
  ASSUME Typed, Compiled
  PROVE  WarnsIdle
<1> SUFFICES ASSUME Documented(prog), pass \in {"start", "execute", "done"}
             PROVE  {ids[i].name : i \in warned} = {prog[n].x : n \in Idle(prog)}
  BY DEF WarnsIdle
<1>1. /\ warned = {Ident[k] : k \in Idle(prog)}
      /\ IdsOK(prog, Ident, ids, Len(prog), Len(prog), Len(prog))
  BY DEF Compiled, Judged, Generated, Size
<1>2. Len(prog) \in Nat
  BY DEF Typed, TypedProgram, Written
<1>3. ASSUME NEW k \in Idle(prog) PROVE ids[Ident[k]].name = prog[k].x
  <2>1. k \in 1..Len(prog) /\ prog[k].op \in {"literal", "clone"}
    BY DEF Idle
  <2>2. k <= Len(prog) /\ ~(k > Len(prog))
    BY <1>2, <2>1
  <2>3. k \in Known(prog, Len(prog), Len(prog))
    BY <2>1, <2>2 DEF Known, Rooted
  <2>4. Recorded(prog, Len(prog), Len(prog), k, ids[Ident[k]])
    BY <1>1, <2>3, IdentityKnown
  <2>5. QED
    BY <2>2, <2>4, RecordedOf
<1> DEFINE J == Ident
<1>4. warned = {J[k] : k \in Idle(prog)} /\ \A k \in Idle(prog) : ids[J[k]].name = prog[k].x
  BY <1>1, <1>3
<1> HIDE DEF J
<1>5. QED
  BY <1>4

\* VerdictIsRight for every bound: phase2Expr refuses exactly the documented
\* programs in which two places run the same command.
THEOREM CommandsVerdict == CommandsSpec => []VerdictIsRight
<1>1. CommandsInit => Typed /\ Compiled
  BY TypedInit, CompiledInit
<1>2. Typed /\ Compiled /\ [CommandsNext]_commandVars => (Typed /\ Compiled)'
  BY TypedNext, CompiledNext
<1>3. Typed /\ Compiled => VerdictIsRight
  BY CompiledVerdict
<1>4. QED
  BY <1>1, <1>2, <1>3, PTL DEF CommandsSpec

\* WarnsIdle for every bound: emitWarnings names the commands that nothing runs or
\* clones, and no other.
THEOREM CommandsWarnings == CommandsSpec => []WarnsIdle
<1>1. CommandsInit => Typed /\ Compiled
  BY TypedInit, CompiledInit
<1>2. Typed /\ Compiled /\ [CommandsNext]_commandVars => (Typed /\ Compiled)'
  BY TypedNext, CompiledNext
<1>3. Typed /\ Compiled => WarnsIdle
  BY CompiledWarnings
<1>4. QED
  BY <1>1, <1>2, <1>3, PTL DEF CommandsSpec

-----------------------------------------------------------------------------
(* The execution: what one statement does in the script. *)

Runners == {"run", "take", "fetch"}

\* The stream that is kept of the runs of an object, if one is.
Stored(p, o) == ReadsErrors(p, o) \/ ReadsText(p, o)
Stream(p, o) == IF ReadsErrors(p, o) THEN "stderr" ELSE "stdout"

\* The text that a statement runs.
RunText(p, n) == IF p[n].op = "fetch" THEN Plain(n) ELSE Texts(p)[Decl(p, n)]

LEMMA OneSide ==
  ASSUME NEW p, Written(p), Documented(p), NEW o \in 1..Len(p), p[o].op \in {"literal", "clone"},
         ReadsText(p, o)
  PROVE  ~ReadsErrors(p, o)
<1>1. PICK j \in 1..Len(p) : p[j].op \in {"stdout", "take", "fetch", "for"} /\ Object(p)[j] = o
  BY DEF ReadsText, Used
<1>2. p[j].op \in {"fetch", "for"} => Object(p)[j] = j
  BY ObjectIs DEF Makers, Rooted
<1>3. p[j].op \in {"stdout", "take"}
  BY <1>1, <1>2
<1>4. \A i \in 1..Len(p) : p[i].op = "stderr" => Object(p)[j] # Object(p)[i]
  BY <1>3 DEF Documented, OneStream
<1>5. QED
  BY <1>1, <1>4 DEF ReadsErrors, Used

\* What take and fetch read is the output, and it is kept.
LEMMA TakesOutput ==
  ASSUME NEW p, Written(p), Documented(p), NEW n \in 1..Len(p), p[n].op \in {"take", "fetch"},
         NEW o, o = Object(p)[n]
  PROVE  Stored(p, o) /\ Stream(p, o) = "stdout"
<1>1. ReadsText(p, o)
  BY DEF ReadsText, Used
<1>2. ~ReadsErrors(p, o)
  <2>1. CASE p[n].op = "take"
    <3>1. o \in 1..Len(p) /\ p[o].op \in {"literal", "clone"}
      BY <2>1, CalledObject DEF Calls
    <3>2. QED
      BY <1>1, <3>1, OneSide
  <2>2. CASE p[n].op = "fetch"
    <3>1. o = n
      BY <2>2, CalledObject DEF Rooted
    <3>2. ASSUME NEW j \in 1..Len(p), p[j].op = "stderr", Object(p)[j] = n PROVE FALSE
      <4>1. p[n].op \in {"literal", "clone"}
        BY <3>2, CalledObject DEF Calls, Reads
      <4>2. QED
        BY <2>2, <4>1
    <3>3. QED
      BY <3>1, <3>2 DEF ReadsErrors, Used
  <2>3. QED
    BY <2>1, <2>2
<1>3. QED
  BY <1>1, <1>2 DEF Stored, Stream

LEMMA RunOfIs ==
  ASSUME NEW p, NEW o, NEW t
  PROVE  /\ RunOf(p, o, t).runs = t
         /\ RunOf(p, o, t).into = IF Stored(p, o) THEN p[o].x ELSE NoVar
         /\ RunOf(p, o, t).stream = Stream(p, o)
         /\ RunOf(p, o, t).exit = IF ReadsStatus(p, o) THEN p[o].x ELSE NoVar
         /\ RunOf(p, o, t).copy = NoVar /\ RunOf(p, o, t).shows = NoVar
<1> DEFINE a == IF Stored(p, o) THEN p[o].x ELSE NoVar
           b == Stream(p, o)
           c == IF ReadsStatus(p, o) THEN p[o].x ELSE NoVar
<1>1. RunOf(p, o, t) = [NoLine EXCEPT !.runs = t, !.into = a, !.stream = b, !.exit = c]
  BY DEF RunOf, Stored, Stream
<1> HIDE DEF a, b, c
<1>2. /\ RunOf(p, o, t).runs = t /\ RunOf(p, o, t).into = a /\ RunOf(p, o, t).stream = b
      /\ RunOf(p, o, t).exit = c /\ RunOf(p, o, t).copy = NoVar /\ RunOf(p, o, t).shows = NoVar
  BY <1>1 DEF NoLine
<1>3. QED
  BY <1>2 DEF a, b, c

LEMMA TakenIs ==
  ASSUME NEW p, NEW o, NEW t, NEW x, NEW y
  PROVE  /\ Taken(RunOf(p, o, t), x, y).runs = t
         /\ Taken(RunOf(p, o, t), x, y).into = IF Stored(p, o) THEN p[o].x ELSE NoVar
         /\ Taken(RunOf(p, o, t), x, y).stream = Stream(p, o)
         /\ Taken(RunOf(p, o, t), x, y).exit = IF ReadsStatus(p, o) THEN p[o].x ELSE NoVar
         /\ Taken(RunOf(p, o, t), x, y).copy = x /\ Taken(RunOf(p, o, t), x, y).from = y
         /\ Taken(RunOf(p, o, t), x, y).shows = NoVar
<1> DEFINE a == IF Stored(p, o) THEN p[o].x ELSE NoVar
           b == Stream(p, o)
           c == IF ReadsStatus(p, o) THEN p[o].x ELSE NoVar
           l == Taken(RunOf(p, o, t), x, y)
<1>1. RunOf(p, o, t) = [NoLine EXCEPT !.runs = t, !.into = a, !.stream = b, !.exit = c]
  BY DEF RunOf, Stored, Stream
<1> HIDE DEF a, b, c
<1>2. /\ l.runs = t /\ l.into = a /\ l.stream = b /\ l.exit = c /\ l.copy = x /\ l.from = y
      /\ l.shows = NoVar
  BY <1>1 DEF NoLine, Taken
<1>3. QED
  BY <1>2 DEF a, b, c

\* The line l has the parts that are meant at statement n, for object o.
PartsOK(p, n, o, l) ==
  /\ l.runs = IF p[n].op \in Runners THEN RunText(p, n)
              ELSE IF p[n].op = "for" THEN Plain(n) ELSE NoText
  /\ l.into = IF p[n].op \in Runners /\ Stored(p, o) THEN p[o].x ELSE NoVar
  /\ p[n].op \in Runners => l.stream = Stream(p, o)
  /\ l.exit = IF p[n].op \in Runners /\ ReadsStatus(p, o) THEN p[o].x ELSE NoVar
  /\ l.copy = IF p[n].op = "take" THEN p[n].x ELSE NoVar
  /\ p[n].op = "take" => l.from = p[o].x
  /\ l.shows = IF p[n].op \in Reads THEN p[o].x ELSE IF p[n].op = "print" THEN p[n].y ELSE NoVar
  /\ p[n].op \in Reads => (l.code <=> p[n].op = "status")
  /\ p[n].op = "print" => l.code = FALSE

LEMMA MeantParts ==
  ASSUME NEW p, Written(p), Documented(p), NEW n \in 1..Len(p), NEW l, l = MeantLine(p, n),
         NEW o, o = Object(p)[n]
  PROVE  PartsOK(p, n, o, l)
<1> USE DEF PartsOK
<1>1. p[n].op \in Lets \cup Calls \cup {"fetch", "for", "print"}
  BY DocumentedOps
<1>2. CASE p[n].op \in Lets \cup {"for"}
  <2>1. p[n].op \in Lets => l = NoLine
    BY MeantLineIs
  <2>2. p[n].op = "for" => l = [NoLine EXCEPT !.runs = Plain(n)]
    BY MeantLineIs
  <2>3. p[n].op \notin Runners \cup Reads \cup {"take", "print"}
    BY <1>2 DEF Lets, Runners, Reads
  <2>4. p[n].op \in Lets => p[n].op # "for"
    BY DEF Lets
  <2>5. QED
    BY <1>2, <2>1, <2>2, <2>3, <2>4 DEF NoLine
<1>3. CASE p[n].op = "run"
  <2>1. l = RunOf(p, o, RunText(p, n))
    BY <1>3, MeantLineIs DEF RunText
  <2>2. p[n].op \in Runners /\ p[n].op \notin Reads
    BY <1>3 DEF Runners, Reads
  <2>3. QED
    BY <1>3, <2>1, <2>2, RunOfIs
<1>4. CASE p[n].op = "take"
  <2>1. l = Taken(RunOf(p, o, RunText(p, n)), p[n].x, p[o].x)
    BY <1>4, MeantLineIs DEF RunText
  <2>2. p[n].op \in Runners /\ p[n].op \notin Reads
    BY <1>4 DEF Runners, Reads
  <2>3. QED
    BY <1>4, <2>1, <2>2, TakenIs
<1>5. CASE p[n].op = "fetch"
  <2>1. l = Taken(RunOf(p, n, RunText(p, n)), NoVar, p[n].x) /\ o = n
    BY <1>5, MeantLineIs, CalledObject DEF RunText, Rooted
  <2>2. p[n].op \in Runners /\ p[n].op \notin Reads
    BY <1>5 DEF Runners, Reads
  <2>3. QED
    BY <1>5, <2>1, <2>2, TakenIs
<1>6. CASE p[n].op \in Reads
  <2>1. l = Shown(p[o].x, p[n].op = "status")
    BY <1>6, MeantLineIs
  <2>2. p[n].op \notin Runners \cup {"take", "print", "for"}
    BY <1>6 DEF Runners, Reads
  <2>3. QED
    BY <1>6, <2>1, <2>2 DEF NoLine, Shown
<1>7. CASE p[n].op = "print"
  <2>1. l = Printed(p[n].y)
    BY <1>7, MeantLineIs
  <2>2. p[n].op \notin Runners \cup Reads \cup {"take", "for"}
    BY <1>7 DEF Runners, Reads
  <2>3. QED
    BY <1>7, <2>1, <2>2 DEF NoLine, Printed
<1>8. QED
  BY <1>1, <1>2, <1>3, <1>4, <1>5, <1>6, <1>7 DEF Calls

\* The shell variables of the names of the program.
ShellShape == DOMAIN shell.out = Variable /\ DOMAIN shell.exit = Variable

LEMMA ExecuteLineIs ==
  ASSUME ShellShape, NEW l, ExecuteLine(l), l.into \in Name, l.copy \in Name, l.exit \in Name,
         l.copy # NoVar => l.from = l.into /\ l.into # NoVar,
         NEW got, got = Value(l.stream, clock', l.runs)
  PROVE  /\ ShellShape'
         /\ \A v \in Variable : shell'.out[v] = IF v \in {l.into, l.copy} THEN got ELSE shell.out[v]
         /\ \A v \in Variable :
              shell'.exit[v] = IF v = l.exit THEN Value("status", clock', l.runs) ELSE shell.exit[v]
         /\ did'.ran = l.runs
         /\ did'.shown = IF l.shows = NoVar THEN Empty
                         ELSE IF l.code THEN shell.exit[l.shows] ELSE shell.out[l.shows]
<1> DEFINE out == IF l.into = NoVar THEN shell.out ELSE [shell.out EXCEPT ![l.into] = got]
           copied == IF l.copy = NoVar THEN out ELSE [out EXCEPT ![l.copy] = out[l.from]]
           status == Value("status", clock', l.runs)
           exit == IF l.exit = NoVar THEN shell.exit ELSE [shell.exit EXCEPT ![l.exit] = status]
<1>1. shell' = [out |-> copied, exit |-> exit]
  BY DEF ExecuteLine
<1>2. did' = [ran |-> l.runs,
              shown |-> IF l.shows = NoVar THEN Empty
                        ELSE IF l.code THEN shell.exit[l.shows] ELSE shell.out[l.shows]]
  BY DEF ExecuteLine
<1>3. NoVar \notin Variable /\ DOMAIN shell.out = Variable /\ DOMAIN shell.exit = Variable
  BY VariableAssumption DEF ShellShape
<1>4. DOMAIN out = Variable /\ \A v \in Variable : out[v] = IF v = l.into THEN got ELSE shell.out[v]
  BY <1>3 DEF Name
<1>5. DOMAIN exit = Variable /\ \A v \in Variable : exit[v] = IF v = l.exit THEN status ELSE shell.exit[v]
  BY <1>3 DEF Name
<1>6. /\ DOMAIN copied = Variable
      /\ \A v \in Variable : copied[v] = IF v \in {l.into, l.copy} THEN got ELSE shell.out[v]
  <2>1. l.copy # NoVar => out[l.from] = got
    BY <1>3, <1>4 DEF Name
  <2> HIDE DEF out
  <2>2. QED
    BY <1>3, <1>4, <2>1 DEF Name
<1> HIDE DEF copied, exit
<1>7. shell'.out = copied /\ shell'.exit = exit
  BY <1>1
<1>8. QED
  BY <1>2, <1>5, <1>6, <1>7 DEF ShellShape

\* What one statement does to the shell variables, and what it shows.
LEMMA ScriptDoes ==
  ASSUME Typed, Documented(prog), pass = "execute", CodeOK(prog, code, Len(prog)), ShellShape,
         ExecuteLine(code[pc]), NEW o, o = Object(prog)[pc]
  PROVE  /\ ShellShape'
         /\ \A v \in Variable :
              shell'.out[v] = IF \/ prog[pc].op \in Runners /\ Stored(prog, o) /\ v = prog[o].x
                                 \/ prog[pc].op = "take" /\ v = prog[pc].x
                              THEN Value(Stream(prog, o), clock', RunText(prog, pc))
                              ELSE shell.out[v]
         /\ \A v \in Variable :
              shell'.exit[v] = IF prog[pc].op \in Runners /\ ReadsStatus(prog, o) /\ v = prog[o].x
                               THEN Value("status", clock', RunText(prog, pc))
                               ELSE shell.exit[v]
         /\ did'.ran = IF prog[pc].op \in Runners THEN RunText(prog, pc)
                       ELSE IF prog[pc].op = "for" THEN Plain(pc) ELSE NoText
         /\ did'.shown = IF prog[pc].op = "status" THEN shell.exit[prog[o].x]
                         ELSE IF prog[pc].op \in Reads THEN shell.out[prog[o].x]
                         ELSE IF prog[pc].op = "print" THEN shell.out[prog[pc].y] ELSE Empty
<1> DEFINE l == code[pc]
           s == prog[pc]
<1>1. pc \in 1..Len(prog) /\ Written(prog) /\ Len(prog) \in Nat /\ Len(code) = Len(prog)
      /\ code \in Seq(Line)
  BY DEF Typed, TypedProgram, TypedCode, Written
<1>2. l = MeantLine(prog, pc) /\ l \in Line
  BY <1>1 DEF CodeOK
<1>3. l.into \in Name /\ l.copy \in Name /\ l.exit \in Name
  BY <1>2 DEF Line, Name
<1>4. /\ l.runs = IF s.op \in Runners THEN RunText(prog, pc)
                  ELSE IF s.op = "for" THEN Plain(pc) ELSE NoText
      /\ l.into = IF s.op \in Runners /\ Stored(prog, o) THEN prog[o].x ELSE NoVar
      /\ s.op \in Runners => l.stream = Stream(prog, o)
      /\ l.exit = IF s.op \in Runners /\ ReadsStatus(prog, o) THEN prog[o].x ELSE NoVar
      /\ l.copy = IF s.op = "take" THEN s.x ELSE NoVar
      /\ s.op = "take" => l.from = prog[o].x
      /\ l.shows = IF s.op \in Reads THEN prog[o].x ELSE IF s.op = "print" THEN s.y ELSE NoVar
      /\ s.op \in Reads => (l.code <=> s.op = "status")
      /\ s.op = "print" => l.code = FALSE
  <2>1. PartsOK(prog, pc, o, l)
    <3> HIDE DEF l
    <3>1. QED
      BY <1>1, <1>2, MeantParts
  <2>2. QED
    BY <2>1 DEF PartsOK
<1>5. s.op \in {"take", "fetch"} => Stored(prog, o)
  BY <1>1, TakesOutput
<1>6. s.op \in Reads \cup Runners => prog[o].x \in Variable
  <2>1. ASSUME s.op \in Reads \cup Runners PROVE prog[o].x \in Variable
    <3>1. s.op \in Rooted \cup Calls
      BY <2>1 DEF Runners, Rooted, Calls
    <3>2. o \in 1..Len(prog) /\ (s.op \in Calls => prog[o].op \in {"literal", "clone"})
          /\ (s.op \in Rooted => o = pc)
      BY <1>1, <3>1, CalledObject
    <3>3. prog[o].op \in Binders
      BY <2>1, <3>1, <3>2 DEF Calls, Rooted, Binders, Runners, Reads
    <3>4. QED
      BY <1>1, <3>2, <3>3, StatementIs DEF Written
  <2>2. QED
    BY <2>1
<1>7. s.op = "take" => s.x \in Variable /\ s.op \in Runners
  BY <1>1, StatementIs DEF Written, Binders, Runners
<1>8. s.op = "print" => s.y \in Variable /\ s.op \notin Reads
  BY <1>1, StatementIs DEF Written, Using, Reads
<1>9. NoVar \notin Variable
  BY VariableAssumption
<1>10. l.copy # NoVar => l.from = l.into /\ l.into # NoVar
  <2> HIDE DEF l, s
  <2>1. QED
    BY <1>4, <1>5, <1>6, <1>7, <1>9
<1>11. s.op = "status" => s.op \in Reads
  BY DEF Reads
<1>12. ExecuteLine(l)
  OBVIOUS
<1> DEFINE got == Value(l.stream, clock', l.runs)
<1> HIDE DEF l
<1>13. /\ ShellShape'
       /\ \A v \in Variable : shell'.out[v] = IF v \in {l.into, l.copy} THEN got ELSE shell.out[v]
       /\ \A v \in Variable :
            shell'.exit[v] = IF v = l.exit THEN Value("status", clock', l.runs) ELSE shell.exit[v]
       /\ did'.ran = l.runs
       /\ did'.shown = IF l.shows = NoVar THEN Empty
                       ELSE IF l.code THEN shell.exit[l.shows] ELSE shell.out[l.shows]
  BY <1>3, <1>10, <1>12, ExecuteLineIs
<1> HIDE DEF s
<1>14. \A v \in Variable :
         v \in {l.into, l.copy} <=> \/ s.op \in Runners /\ Stored(prog, o) /\ v = prog[o].x
                                    \/ s.op = "take" /\ v = s.x
  BY <1>4, <1>9
<1>15. \A v \in Variable : v \in {l.into, l.copy} => got = Value(Stream(prog, o), clock', RunText(prog, pc))
  <2>1. ASSUME NEW v \in Variable, v \in {l.into, l.copy}
        PROVE  got = Value(Stream(prog, o), clock', RunText(prog, pc))
    <3>1. s.op \in Runners
      BY <1>7, <1>14, <2>1
    <3>2. QED
      BY <1>4, <3>1
  <2>2. QED
    BY <2>1
<1>16. \A v \in Variable :
         shell'.out[v] = IF \/ s.op \in Runners /\ Stored(prog, o) /\ v = prog[o].x
                            \/ s.op = "take" /\ v = s.x
                         THEN Value(Stream(prog, o), clock', RunText(prog, pc))
                         ELSE shell.out[v]
  <2> HIDE DEF got
  <2>1. QED
    BY <1>13, <1>14, <1>15
<1>17. \A v \in Variable :
         shell'.exit[v] = IF s.op \in Runners /\ ReadsStatus(prog, o) /\ v = prog[o].x
                          THEN Value("status", clock', RunText(prog, pc))
                          ELSE shell.exit[v]
  BY <1>4, <1>9, <1>13
<1>18. did'.shown = IF s.op = "status" THEN shell.exit[prog[o].x]
                    ELSE IF s.op \in Reads THEN shell.out[prog[o].x]
                    ELSE IF s.op = "print" THEN shell.out[s.y] ELSE Empty
  BY <1>4, <1>6, <1>8, <1>9, <1>11, <1>13
<1>19. QED
  BY <1>4, <1>13, <1>16, <1>17, <1>18 DEF s

\* What one statement means.
LEMMA ProgramDoes ==
  ASSUME Typed, pass = "execute", clock' = clock + 1, MeanStatement(prog[pc]),
         NEW s, s = prog[pc], s.op \in Lets \cup Calls \cup {"fetch", "for", "print"},
         NEW of, of = env[Decl(prog, pc)]
  PROVE  /\ \A k \in Index : k # pc => env'[k] = env[k]
         /\ s.op = "literal" => env'[pc].obj = <<pc, clock'>> /\ env'[pc].text = Plain(pc)
         /\ s.op = "clone" => env'[pc].obj = <<pc, clock'>> /\ env'[pc].text = of.text
         /\ s.op = "chain" => env'[pc].obj = of.obj /\ env'[pc].text = Chain(of.text, pc)
         /\ s.op = "take" => env'[pc].value = Value("stdout", clock', of.text)
         /\ s.op = "fetch" => env'[pc].value = Value("stdout", clock', Plain(pc))
         /\ s.op \notin {"run", "take"} => runs' = runs
         /\ s.op \in {"run", "take"} =>
              /\ DOMAIN runs' = DOMAIN runs \cup {of.obj}
              /\ \A e, b : Shows(runs', e, b) = IF b = of.obj THEN Value(e, clock', of.text)
                                                ELSE Shows(runs, e, b)
         /\ meant'.ran = IF s.op \in {"run", "take"} THEN of.text
                         ELSE IF s.op \in {"fetch", "for"} THEN Plain(pc) ELSE NoText
         /\ meant'.shown = IF s.op \in Reads THEN Shows(runs, s.op, of.obj)
                           ELSE IF s.op = "print" THEN of.value ELSE Empty
<1> DEFINE new == <<pc, clock'>>
           ranNow == [when |-> clock', text |-> of.text]
<1>1. /\ env \in [Index -> Meaning] /\ pc \in Index
  BY VariableAssumption DEF Typed, TypedRun, TypedProgram, Index, Written
<1>2. env[pc] \in Meaning /\ \A y : [env EXCEPT ![pc] = y][pc] = y /\
        \A k \in Index : k # pc => [env EXCEPT ![pc] = y][k] = env[k]
  BY <1>1
<1>3. Decl(prog, pc) = DeclOf(prog, s.y, pc)
  BY DEF Decl
<1>4. CASE s.op = "literal"
  <2>1. /\ env' = [env EXCEPT ![pc] = [obj |-> new, text |-> Plain(pc), value |-> Empty]]
        /\ meant' = Silent /\ runs' = runs
    BY <1>4 DEF MeanStatement, Reads
  <2>2. s.op \notin Reads
    BY <1>4 DEF Reads
  <2>3. QED
    BY <1>1, <1>2, <1>4, <2>1, <2>2 DEF Silent
<1>5. CASE s.op = "clone"
  <2>1. env' = [env EXCEPT ![pc] = [of EXCEPT !.obj = new]] /\ meant' = Silent /\ runs' = runs
    BY <1>3, <1>5 DEF MeanStatement, Reads
  <2>2. s.op \notin Reads
    BY <1>5 DEF Reads
  <2>3. of \in Meaning
    <3>1. Decl(prog, pc) \in Index
      <4>1. Decl(prog, pc) \in 1..Len(prog) /\ Len(prog) \in Nat /\ Len(prog) <= MaxStatements
        BY <1>5, UsedDecl DEF Typed, TypedProgram, Written
      <4>2. QED
        BY <4>1, VariableAssumption DEF Index
    <3>2. QED
      BY <1>1, <3>1
  <2>4. [of EXCEPT !.obj = new].obj = new /\ [of EXCEPT !.obj = new].text = of.text
    BY <2>3 DEF Meaning
  <2> HIDE DEF new
  <2>5. QED
    BY <1>1, <1>2, <1>5, <2>1, <2>2, <2>4 DEF Silent, new
<1>6. CASE s.op = "chain"
  <2>1. /\ env' = [env EXCEPT ![pc] = [of EXCEPT !.text = Chain(of.text, pc)]]
        /\ meant' = Silent /\ runs' = runs
    BY <1>3, <1>6 DEF MeanStatement, Reads
  <2>2. s.op \notin Reads
    BY <1>6 DEF Reads
  <2>3. of \in Meaning
    <3>1. Decl(prog, pc) \in Index
      <4>1. Decl(prog, pc) \in 1..Len(prog) /\ Len(prog) \in Nat /\ Len(prog) <= MaxStatements
        BY <1>6, UsedDecl DEF Typed, TypedProgram, Written
      <4>2. QED
        BY <4>1, VariableAssumption DEF Index
    <3>2. QED
      BY <1>1, <3>1
  <2>4. [of EXCEPT !.text = Chain(of.text, pc)].obj = of.obj
        /\ [of EXCEPT !.text = Chain(of.text, pc)].text = Chain(of.text, pc)
    BY <2>3 DEF Meaning
  <2>5. QED
    BY <1>1, <1>2, <1>6, <2>1, <2>2, <2>4 DEF Silent
<1>7. CASE s.op \in {"run", "take"}
  <2>1. /\ runs' = [b \in DOMAIN runs \cup {of.obj} |-> IF b = of.obj THEN ranNow ELSE runs[b]]
        /\ meant' = [ran |-> of.text, shown |-> Empty]
        /\ env' = IF s.op = "run" THEN env
                  ELSE [env EXCEPT ![pc] = [env[pc] EXCEPT !.value = Value("stdout", clock', of.text)]]
    BY <1>3, <1>7 DEF MeanStatement, Reads
  <2>2. s.op \notin Reads
    BY <1>7 DEF Reads
  <2>3. DOMAIN runs' = DOMAIN runs \cup {of.obj}
    BY <2>1
  <2>4. ASSUME NEW e, NEW b
        PROVE  Shows(runs', e, b) = IF b = of.obj THEN Value(e, clock', of.text) ELSE Shows(runs, e, b)
    <3>1. CASE b = of.obj
      <4>1. runs'[b] = ranNow /\ b \in DOMAIN runs'
        BY <2>1, <2>3, <3>1
      <4>2. QED
        BY <3>1, <4>1 DEF Shows
    <3>2. CASE b # of.obj /\ b \in DOMAIN runs
      <4>1. runs'[b] = runs[b] /\ b \in DOMAIN runs'
        BY <2>1, <2>3, <3>2
      <4>2. QED
        BY <3>2, <4>1 DEF Shows
    <3>3. CASE b # of.obj /\ b \notin DOMAIN runs
      BY <2>3, <3>3 DEF Shows
    <3>4. QED
      BY <3>1, <3>2, <3>3
  <2>5. s.op = "take" => env'[pc].value = Value("stdout", clock', of.text)
    <3>1. [env[pc] EXCEPT !.value = Value("stdout", clock', of.text)].value = Value("stdout", clock', of.text)
      BY <1>2 DEF Meaning
    <3>2. QED
      BY <1>2, <2>1, <3>1
  <2>6. \A k \in Index : k # pc => env'[k] = env[k]
    BY <1>2, <2>1
  <2>7. meant'.ran = of.text /\ meant'.shown = Empty
    BY <2>1
  <2> HIDE DEF ranNow
  <2>8. QED
    BY <1>7, <2>2, <2>3, <2>4, <2>5, <2>6, <2>7
<1>8. CASE s.op \in {"fetch", "for"}
  <2>1. /\ env' = [env EXCEPT ![pc] = [env[pc] EXCEPT !.value = Value("stdout", clock', Plain(pc))]]
        /\ meant' = [ran |-> Plain(pc), shown |-> Empty] /\ runs' = runs
    BY <1>8 DEF MeanStatement, Reads
  <2>2. s.op \notin Reads
    BY <1>8 DEF Reads
  <2>3. env'[pc].value = Value("stdout", clock', Plain(pc))
    <3>1. [env[pc] EXCEPT !.value = Value("stdout", clock', Plain(pc))].value = Value("stdout", clock', Plain(pc))
      BY <1>2 DEF Meaning
    <3>2. QED
      BY <1>2, <2>1, <3>1
  <2>4. QED
    BY <1>2, <1>8, <2>1, <2>2, <2>3
<1>9. CASE s.op \in Reads
  <2>1. meant' = [ran |-> NoText, shown |-> LastRun(s.op, of.obj)] /\ env' = env /\ runs' = runs
    BY <1>3, <1>9 DEF MeanStatement, Reads
  <2>2. LastRun(s.op, of.obj) = Shows(runs, s.op, of.obj)
    BY DEF LastRun, Shows
  <2>3. s.op \notin {"literal", "clone", "chain", "run", "take", "fetch", "for"}
    BY <1>9 DEF Reads
  <2>4. QED
    BY <1>9, <2>1, <2>2, <2>3
<1>10. CASE s.op = "print"
  <2>1. meant' = [ran |-> NoText, shown |-> of.value] /\ env' = env /\ runs' = runs
    BY <1>3, <1>10 DEF MeanStatement, Reads
  <2>2. s.op \notin Reads
    BY <1>10 DEF Reads
  <2>3. QED
    BY <1>10, <2>1, <2>2
<1>11. QED
  BY <1>4, <1>5, <1>6, <1>7, <1>8, <1>9, <1>10 DEF Lets, Calls

-----------------------------------------------------------------------------
(* The execution: what is kept. *)

\* What holds in front of a statement that is executed.
Performing ==
  /\ EnvOK(prog, env, clock, pc)
  /\ RunsOK(runs, clock)
  /\ ShellOK(prog, shell, env, runs, pc)

\* One statement is executed, whatever follows.
Performs ==
  /\ Typed /\ Documented(prog) /\ pass = "execute" /\ CodeOK(prog, code, Len(prog)) /\ ShellShape
  /\ Performing
  /\ clock' = clock + 1 /\ ExecuteLine(code[pc]) /\ MeanStatement(prog[pc])

\* Statement m follows n: what is seen there was seen at n, or is n.
ComesAfter(p, n, m) ==
  /\ \A k \in 1..Len(p) : Seen(p, k, m) => k = n \/ Seen(p, k, n)
  /\ \A o \in 1..Len(p) :
       p[o].block /\ Seen(p, o, m) /\ RunSeen(p, o, m) =>
         RunSeen(p, o, n) \/ (p[n].op \in {"run", "take"} /\ Object(p)[n] = o)
  /\ \A o \in m..Len(p) : ~p[o].block => o > n

LEMMA SameBlockPart ==
  ASSUME NEW p, NEW a \in Nat, NEW b \in Nat, NEW c \in Nat, NEW d \in Nat,
         a <= c, d <= b, SameBlock(p, a, b)
  PROVE  SameBlock(p, c, d)
<1>1. c..d \subseteq a..b
  OBVIOUS
<1>2. QED
  BY <1>1 DEF SameBlock

LEMMA FollowingSeen ==
  ASSUME Written(prog), pc \in 1..Len(prog), NEW m \in Following(pc), m \in 1..Len(prog)
  PROVE  ComesAfter(prog, pc, m)
<1> DEFINE N == Len(prog)
<1>1. N \in Nat /\ pc \in Nat /\ m \in Nat /\ prog \in Seq(Statement)
  BY DEF Written
<1>2. CASE m = pc + 1
  <2>1. ASSUME NEW k \in 1..N, Seen(prog, k, m) PROVE k = pc \/ Seen(prog, k, pc)
    <3>1. k \in 1..pc /\ (prog[k].block => SameBlock(prog, k, pc + 1))
      BY <1>1, <1>2, <2>1 DEF Seen
    <3>2. prog[k].block => SameBlock(prog, k, pc)
      BY <1>1, <3>1, SameBlockPart
    <3>3. k = pc \/ k \in 1..(pc - 1)
      BY <3>1
    <3>4. QED
      BY <3>2, <3>3 DEF Seen
  <2>2. ASSUME NEW o \in 1..N, RunSeen(prog, o, m)
        PROVE  RunSeen(prog, o, pc) \/ (prog[pc].op \in {"run", "take"} /\ Object(prog)[pc] = o)
    <3>1. PICK k \in 1..(m - 1) : /\ prog[k].op \in {"run", "take"} /\ Object(prog)[k] = o
                                  /\ prog[o].block => o < k
      BY <2>2 DEF RunSeen
    <3>2. k = pc \/ k \in 1..(pc - 1)
      BY <1>1, <1>2
    <3>3. QED
      BY <3>1, <3>2 DEF RunSeen
  <2>3. \A o \in m..N : o > pc
    BY <1>1, <1>2
  <2>4. QED
    BY <2>1, <2>2, <2>3 DEF ComesAfter
<1>3. CASE m > pc + 1 /\ ~prog[pc].block /\ SameBlock(prog, pc + 1, m - 1) /\ ~prog[m].block
  <2>1. ASSUME NEW k \in 1..N, Seen(prog, k, m) PROVE ~prog[k].block /\ (k = pc \/ Seen(prog, k, pc))
    <3>1. k \in 1..(m - 1) /\ (prog[k].block => SameBlock(prog, k, m))
      BY <2>1 DEF Seen
    <3>2. ~prog[k].block
      <4>1. m \in k..m
        BY <1>1, <3>1
      <4>2. QED
        BY <1>3, <3>1, <4>1 DEF SameBlock
    <3>3. k \in 1..pc
      <4>1. k \in (pc + 1)..(m - 1) => prog[k].block
        BY <1>3 DEF SameBlock
      <4>2. QED
        BY <1>1, <3>1, <3>2, <4>1
    <3>4. k = pc \/ k \in 1..(pc - 1)
      BY <3>3
    <3>5. QED
      BY <3>2, <3>4 DEF Seen
  <2>2. \A o \in m..N : o > pc
    BY <1>1, <1>3
  <2>3. QED
    BY <2>1, <2>2 DEF ComesAfter
<1>4. CASE m = BlockStart(prog, pc) /\ prog[pc].block /\ m <= pc
  <2>1. SameBlock(prog, m, pc) /\ \A k \in 1..pc : SameBlock(prog, k, pc) => m <= k
    BY <1>1, <1>4, BlockStartIs
  <2>2. ASSUME NEW k \in 1..N, Seen(prog, k, m) PROVE ~prog[k].block /\ Seen(prog, k, pc)
    <3>1. k \in 1..(m - 1) /\ k \in 1..pc /\ k < m /\ k \in 1..(pc - 1)
          /\ (prog[k].block => SameBlock(prog, k, m))
      BY <1>1, <1>4, <2>2 DEF Seen
    <3>2. SameBlock(prog, k, m) => SameBlock(prog, k, pc)
      <4>1. \A j \in k..pc : j \in k..m \/ j \in m..pc
        BY <1>1
      <4>2. QED
        BY <2>1, <4>1 DEF SameBlock
    <3>3. ~prog[k].block
      BY <1>1, <2>1, <3>1, <3>2
    <3>4. QED
      BY <3>1, <3>3 DEF Seen
  <2>3. ASSUME NEW o \in m..N, ~prog[o].block PROVE o > pc
    <3>1. o \in m..pc => prog[o].block
      BY <2>1 DEF SameBlock
    <3>2. QED
      BY <1>1, <2>3, <3>1
  <2>4. QED
    BY <2>2, <2>3 DEF ComesAfter
<1>5. QED
  BY <1>2, <1>3, <1>4, FollowingIs

\* What a statement uses denotes what it should.
LEMMA UsedNow ==
  ASSUME Written(prog), Documented(prog), pc \in 1..Len(prog), Performing,
         prog[pc].op \in Calls \cup {"clone", "chain"},
         NEW d, d = Decl(prog, pc), NEW o, o = Object(prog)[d]
  PROVE  /\ env[d].text = Texts(prog)[d] /\ env[d].obj = env[o].obj
         /\ env[o].obj[1] = o /\ env[o].obj[2] \in 0..clock
         /\ Seen(prog, o, pc) /\ o \in 1..Len(prog) /\ prog[o].op \in {"literal", "clone"} /\ o < pc
         /\ prog[o].x \in Variable
<1>1. /\ d \in 1..(pc - 1) /\ d \in 1..Len(prog) /\ prog[d].op \in Lets
      /\ prog[d].block => SameBlock(prog, d, pc)
  BY UsedDecl
<1>2. /\ o \in 1..(pc - 1) /\ o \in 1..Len(prog) /\ o < pc /\ prog[o].op \in {"literal", "clone"}
      /\ prog[o].x \in Variable /\ (prog[o].block => SameBlock(prog, o, pc))
  BY UsedObject
<1>3. Seen(prog, d, pc) /\ Seen(prog, o, pc)
  BY <1>1, <1>2 DEF Seen
<1>4. EnvOK(prog, env, clock, pc)
  BY DEF Performing
<1>5. env[d].text = Texts(prog)[d] /\ env[d].obj = env[o].obj
  BY <1>1, <1>3, <1>4 DEF EnvOK
<1>6. env[o].obj[1] = o /\ env[o].obj[2] \in 0..clock
  BY <1>2, <1>3, <1>4 DEF EnvOK
<1>7. QED
  BY <1>2, <1>3, <1>5, <1>6

\* The same at a call, for the object it is about.
LEMMA CalledNow ==
  ASSUME Written(prog), Documented(prog), pc \in 1..Len(prog), Performing,
         prog[pc].op \in Calls, NEW d, d = Decl(prog, pc), NEW o, o = Object(prog)[pc]
  PROVE  /\ env[d].text = Texts(prog)[d] /\ env[d].obj = env[o].obj
         /\ env[o].obj[1] = o /\ env[o].obj[2] \in 0..clock
         /\ Seen(prog, o, pc) /\ o \in 1..Len(prog) /\ prog[o].op \in {"literal", "clone"} /\ o < pc
         /\ prog[o].x \in Variable
<1>1. prog[pc].op \notin Makers
  BY DEF Calls, Reads, Makers, Rooted
<1>2. o = Object(prog)[d]
  BY <1>1, ObjectIs
<1>3. QED
  BY <1>2, UsedNow

\* The script runs the command that the program runs, and shows what it shows.
LEMMA PerformsMeant ==
  ASSUME Performs
  PROVE  did'.ran = meant'.ran /\ did'.shown = meant'.shown
<1> DEFINE s == prog[pc]
           d == Decl(prog, pc)
           o == Object(prog)[pc]
<1>1. Written(prog) /\ pc \in 1..Len(prog) /\ Documented(prog) /\ Performing
  BY DEF Performs, Typed, TypedProgram, Written
<1>2. s.op \in Lets \cup Calls \cup {"fetch", "for", "print"}
  BY <1>1, DocumentedOps
<1>3. /\ did'.ran = IF s.op \in Runners THEN RunText(prog, pc)
                    ELSE IF s.op = "for" THEN Plain(pc) ELSE NoText
      /\ did'.shown = IF s.op = "status" THEN shell.exit[prog[o].x]
                      ELSE IF s.op \in Reads THEN shell.out[prog[o].x]
                      ELSE IF s.op = "print" THEN shell.out[s.y] ELSE Empty
  BY ScriptDoes DEF Performs
<1>4. /\ meant'.ran = IF s.op \in {"run", "take"} THEN env[d].text
                      ELSE IF s.op \in {"fetch", "for"} THEN Plain(pc) ELSE NoText
      /\ meant'.shown = IF s.op \in Reads THEN Shows(runs, s.op, env[d].obj)
                        ELSE IF s.op = "print" THEN env[d].value ELSE Empty
  BY <1>2, ProgramDoes DEF Performs
<1>5. s.op \in Calls => /\ env[d].text = Texts(prog)[d] /\ env[d].obj = env[o].obj
                        /\ Seen(prog, o, pc) /\ o \in 1..Len(prog)
                        /\ prog[o].op \in {"literal", "clone"} /\ o < pc
  BY <1>1, CalledNow
<1>6. did'.ran = meant'.ran
  <2>1. s.op \in {"run", "take"} => s.op \in Calls
    BY DEF Calls
  <2> HIDE DEF o, d
  <2>2. s.op \in {"run", "take"} => RunText(prog, pc) = env[d].text
    BY <1>5, <2>1 DEF RunText, d
  <2>3. s.op = "fetch" => RunText(prog, pc) = Plain(pc)
    BY DEF RunText
  <2> HIDE DEF s
  <2>4. QED
    BY <1>3, <1>4, <2>2, <2>3 DEF Runners
<1>7. did'.shown = meant'.shown
  <2>1. CASE s.op \in Reads
    <3>1. s.op \in Calls
      BY <2>1 DEF Calls
    <3>2. RunSeen(prog, o, pc)
      <4>1. PICK k \in 1..(pc - 1) : prog[k].op \in {"run", "take"} /\ Object(prog)[k] = o
        BY <1>1, <2>1 DEF Documented, ReadsFollowRuns
      <4>2. k \in 1..Len(prog) /\ prog[k].op \in Calls
        BY <1>1, <4>1 DEF Calls, Written
      <4>3. Object(prog)[k] \in 1..(k - 1)
        BY <1>1, <4>2, CalledObject
      <4>4. o < k
        BY <4>1, <4>3
      <4>5. QED
        BY <4>1, <4>4 DEF RunSeen
    <3>3. /\ ReadsText(prog, o) => shell.out[prog[o].x] = Shows(runs, "stdout", env[o].obj)
          /\ ReadsErrors(prog, o) => shell.out[prog[o].x] = Shows(runs, "stderr", env[o].obj)
          /\ ReadsStatus(prog, o) => shell.exit[prog[o].x] = Shows(runs, "status", env[o].obj)
      <4> HIDE DEF o
      <4>1. QED
        BY <1>1, <1>5, <3>1, <3>2 DEF Performing, ShellOK
    <3>4. /\ s.op = "stdout" => ReadsText(prog, o)
          /\ s.op = "stderr" => ReadsErrors(prog, o)
          /\ s.op = "status" => ReadsStatus(prog, o)
      BY <1>1 DEF ReadsText, ReadsErrors, ReadsStatus, Used
    <3>5. env[d].obj = env[o].obj
      BY <1>5, <3>1
    <3> HIDE DEF o, d, s
    <3>6. QED
      BY <1>3, <1>4, <2>1, <3>3, <3>4, <3>5 DEF Reads
  <2>2. CASE s.op = "print"
    <3>1. /\ d \in 1..(pc - 1) /\ d \in 1..Len(prog) /\ prog[d].op \in {"fetch", "take"}
          /\ prog[d].x = s.y /\ (prog[d].block => SameBlock(prog, d, pc))
      <4>1. s.op \in Using
        BY <2>2 DEF Using
      <4>2. QED
        BY <1>1, <2>2, <4>1, DeclIs DEF Written
    <3>2. Seen(prog, d, pc)
      BY <3>1 DEF Seen
    <3>3. shell.out[prog[d].x] = env[d].value
      <4> HIDE DEF d
      <4>1. QED
        BY <1>1, <3>1, <3>2 DEF Performing, ShellOK
    <3>4. s.op \notin Reads
      BY <2>2 DEF Reads
    <3> HIDE DEF o, d, s
    <3>5. QED
      BY <1>3, <1>4, <2>2, <3>1, <3>3, <3>4
  <2>3. CASE s.op \notin Reads \cup {"print"}
    <3>1. s.op # "status"
      BY <2>3 DEF Reads
    <3> HIDE DEF o, d, s
    <3>2. QED
      BY <1>3, <1>4, <2>3, <3>1
  <2>4. QED
    BY <2>1, <2>2, <2>3
<1>8. QED
  BY <1>6, <1>7

LEMMA PerformsEnv ==
  ASSUME Performs, NEW m \in 1..Len(prog), ComesAfter(prog, pc, m)
  PROVE  EnvOK(prog, env', clock', m)
<1> DEFINE s == prog[pc]
           O == Object(prog)
           d == Decl(prog, pc)
<1>1. /\ Written(prog) /\ pc \in 1..Len(prog) /\ Documented(prog) /\ Performing /\ Len(prog) \in Nat
      /\ Len(prog) <= MaxStatements /\ clock \in Nat /\ clock' = clock + 1
  BY DEF Performs, Typed, TypedProgram, TypedRun, Written
<1>2. 1..Len(prog) \subseteq Index
  BY <1>1, VariableAssumption DEF Index
<1>3. s.op \in Lets \cup Calls \cup {"fetch", "for", "print"}
  BY <1>1, DocumentedOps
<1>4. /\ \A k \in Index : k # pc => env'[k] = env[k]
      /\ s.op = "literal" => env'[pc].obj = <<pc, clock'>> /\ env'[pc].text = Plain(pc)
      /\ s.op = "clone" => env'[pc].obj = <<pc, clock'>> /\ env'[pc].text = env[d].text
      /\ s.op = "chain" => env'[pc].obj = env[d].obj /\ env'[pc].text = Chain(env[d].text, pc)
  BY <1>3, ProgramDoes DEF Performs
<1>5. EnvOK(prog, env, clock, pc)
  BY <1>1 DEF Performing
<1> SUFFICES ASSUME NEW k \in 1..Len(prog), Seen(prog, k, m)
             PROVE  /\ prog[k].op \in Lets => /\ env'[k].text = Texts(prog)[k]
                                              /\ env'[k].obj = env'[O[k]].obj
                    /\ prog[k].op \in {"literal", "clone"} => /\ env'[k].obj[1] = k
                                                              /\ env'[k].obj[2] \in 0..clock'
  BY DEF EnvOK
<1>6. CASE k # pc
  <2>1. Seen(prog, k, pc)
    BY <1>6 DEF ComesAfter
  <2>2. k \in 1..(pc - 1) /\ env'[k] = env[k]
    BY <1>2, <1>4, <1>6, <2>1 DEF Seen
  <2>3. prog[k].op \in Lets => env'[O[k]] = env[O[k]]
    <3>1. ASSUME prog[k].op \in Lets PROVE env'[O[k]] = env[O[k]]
      <4>1. PICK o \in 1..k : o = O[k]
        BY <1>1, <3>1, LetObject
      <4>2. o \in 1..Len(prog) /\ o # pc
        BY <1>1, <2>2
      <4>3. QED
        BY <1>2, <1>4, <4>1, <4>2
    <3>2. QED
      BY <3>1
  <2>4. /\ prog[k].op \in Lets => env[k].text = Texts(prog)[k] /\ env[k].obj = env[O[k]].obj
        /\ prog[k].op \in {"literal", "clone"} => env[k].obj[1] = k /\ env[k].obj[2] \in 0..clock
    BY <1>5, <2>1 DEF EnvOK
  <2>5. 0..clock \subseteq 0..clock'
    BY <1>1
  <2> HIDE DEF O
  <2>6. QED
    BY <2>2, <2>3, <2>4, <2>5
<1>7. CASE k = pc /\ s.op \in {"literal", "clone"}
  <2>1. O[pc] = pc
    BY <1>1, <1>7, LetObject DEF Lets
  <2>2. env'[pc].obj = <<pc, clock'>> /\ clock' \in 0..clock'
    BY <1>1, <1>4, <1>7
  <2>3. env'[pc].text = Texts(prog)[pc]
    <3>1. CASE s.op = "literal"
      BY <1>1, <1>4, <3>1, TextsIs
    <3>2. CASE s.op = "clone"
      <4>1. env[d].text = Texts(prog)[d]
        BY <1>1, <3>2, UsedNow
      <4>2. QED
        BY <1>1, <1>4, <3>2, <4>1, TextsIs
    <3>3. QED
      BY <1>7, <3>1, <3>2
  <2> HIDE DEF O
  <2>4. QED
    BY <1>7, <2>1, <2>2, <2>3
<1>8. CASE k = pc /\ s.op = "chain"
  <2>1. env[d].text = Texts(prog)[d] /\ env[d].obj = env[O[d]].obj
    BY <1>1, <1>8, UsedNow
  <2>2. O[pc] = O[d] /\ O[pc] \in 1..(pc - 1)
    BY <1>1, <1>8, ChainObject
  <2>3. PICK o \in 1..(pc - 1) : o = O[pc]
    BY <2>2
  <2>4. o \in 1..Len(prog) /\ o # pc
    BY <1>1
  <2>5. env'[o] = env[o]
    BY <1>2, <1>4, <2>4
  <2>6. env'[pc].text = Texts(prog)[pc]
    BY <1>1, <1>4, <1>8, <2>1, TextsIs
  <2>7. env'[pc].obj = env'[O[pc]].obj
    BY <1>4, <1>8, <2>1, <2>2, <2>3, <2>5
  <2>8. prog[k].op \notin {"literal", "clone"}
    BY <1>8
  <2> HIDE DEF O
  <2>9. QED
    BY <1>8, <2>6, <2>7, <2>8
<1>9. CASE k = pc /\ s.op \notin Lets
  BY <1>9 DEF Lets
<1>10. QED
  BY <1>6, <1>7, <1>8, <1>9 DEF Lets

LEMMA PerformsRuns ==
  ASSUME Performs
  PROVE  RunsOK(runs', clock')
<1> DEFINE s == prog[pc]
           d == Decl(prog, pc)
<1>1. /\ Written(prog) /\ pc \in 1..Len(prog) /\ Documented(prog) /\ Performing
      /\ clock \in Nat /\ clock' = clock + 1 /\ DOMAIN runs \subseteq Nat \X Nat
  BY DEF Performs, Typed, TypedProgram, TypedRun, Written
<1>2. s.op \in Lets \cup Calls \cup {"fetch", "for", "print"}
  BY <1>1, DocumentedOps
<1>3. /\ s.op \notin {"run", "take"} => runs' = runs
      /\ s.op \in {"run", "take"} => DOMAIN runs' = DOMAIN runs \cup {env[d].obj}
  BY <1>2, ProgramDoes DEF Performs
<1>4. \A o \in DOMAIN runs : o[2] <= clock'
  <2>1. \A o \in DOMAIN runs : o[2] <= clock /\ o[2] \in Nat
    BY <1>1 DEF Performing, RunsOK
  <2>2. QED
    BY <1>1, <2>1
<1>5. s.op \in {"run", "take"} => env[d].obj[2] <= clock'
  <2>1. ASSUME s.op \in {"run", "take"} PROVE env[d].obj[2] <= clock'
    <3>1. s.op \in Calls
      BY <2>1 DEF Calls
    <3>2. PICK o : env[d].obj = env[o].obj /\ env[o].obj[2] \in 0..clock
      BY <1>1, <3>1, CalledNow
    <3>3. QED
      BY <1>1, <3>2
  <2>2. QED
    BY <2>1
<1> HIDE DEF s, d
<1>6. QED
  BY <1>3, <1>4, <1>5 DEF RunsOK

\* The shell variable of an object that is not run is left alone.
LEMMA OtherNames ==
  ASSUME Performs, NEW k \in 1..Len(prog), prog[k].op \in Binders, k # pc,
         ~(prog[pc].op \in Runners /\ Object(prog)[pc] = k)
  PROVE  /\ prog[k].x \in Variable
         /\ shell'.out[prog[k].x] = shell.out[prog[k].x]
         /\ shell'.exit[prog[k].x] = shell.exit[prog[k].x]
<1> DEFINE s == prog[pc]
           o == Object(prog)[pc]
<1>1. Written(prog) /\ pc \in 1..Len(prog) /\ Documented(prog)
  BY DEF Performs, Typed, TypedProgram, Written
<1>2. prog[k].x \in Variable
  BY <1>1, StatementIs DEF Written
<1>3. prog[k].x # s.x
  BY <1>1, OneName
<1>4. s.op \in Runners => prog[k].x # prog[o].x
  <2>1. ASSUME s.op \in Runners PROVE prog[k].x # prog[o].x
    <3>1. s.op \in Rooted \cup Calls
      BY <2>1 DEF Runners, Rooted, Calls
    <3>2. o \in 1..Len(prog) /\ o # k
      BY <1>1, <2>1, <3>1, CalledObject
    <3>3. QED
      BY <1>1, <3>2, OneName
  <2>2. QED
    BY <2>1
<1>5. /\ \A v \in Variable :
           shell'.out[v] = IF \/ s.op \in Runners /\ Stored(prog, o) /\ v = prog[o].x
                              \/ s.op = "take" /\ v = s.x
                           THEN Value(Stream(prog, o), clock', RunText(prog, pc))
                           ELSE shell.out[v]
      /\ \A v \in Variable :
           shell'.exit[v] = IF s.op \in Runners /\ ReadsStatus(prog, o) /\ v = prog[o].x
                            THEN Value("status", clock', RunText(prog, pc))
                            ELSE shell.exit[v]
  BY ScriptDoes DEF Performs
<1> HIDE DEF o
<1>6. QED
  BY <1>2, <1>3, <1>4, <1>5

\* The variables of an object hold what its last run gave.
Holds(p, sh, rs, o, obj) ==
  /\ ReadsText(p, o) => sh.out[p[o].x] = Shows(rs, "stdout", obj)
  /\ ReadsErrors(p, o) => sh.out[p[o].x] = Shows(rs, "stderr", obj)
  /\ ReadsStatus(p, o) => sh.exit[p[o].x] = Shows(rs, "status", obj)

\* After a run they hold what it gave.
LEMMA RunHolds ==
  ASSUME Performs, NEW o, o = Object(prog)[pc], prog[pc].op \in {"run", "take"}
  PROVE  Holds(prog, shell', runs', o, env'[o].obj)
<1> DEFINE s == prog[pc]
           d == Decl(prog, pc)
           t == Texts(prog)[d]
<1>1. /\ Written(prog) /\ pc \in 1..Len(prog) /\ Documented(prog) /\ Performing /\ Len(prog) \in Nat
      /\ Len(prog) <= MaxStatements
  BY DEF Performs, Typed, TypedProgram, Written
<1>2. s.op \in Calls /\ s.op \in Runners /\ RunText(prog, pc) = t
  BY DEF Calls, Runners, RunText
<1>3. /\ env[d].text = t /\ env[d].obj = env[o].obj
      /\ o \in 1..Len(prog) /\ prog[o].op \in {"literal", "clone"} /\ o < pc /\ prog[o].x \in Variable
  BY <1>1, <1>2, CalledNow
<1>4. o \in Index /\ o # pc
  BY <1>1, <1>3, VariableAssumption DEF Index
<1>5. /\ \A k \in Index : k # pc => env'[k] = env[k]
      /\ \A e, b : Shows(runs', e, b) = IF b = env[d].obj THEN Value(e, clock', env[d].text)
                                        ELSE Shows(runs, e, b)
  <2>1. s.op \in Lets \cup Calls \cup {"fetch", "for", "print"}
    BY <1>2
  <2>2. QED
    BY <2>1, ProgramDoes DEF Performs
<1>6. \A e : Shows(runs', e, env'[o].obj) = Value(e, clock', t)
  BY <1>3, <1>4, <1>5
<1>7. /\ Stored(prog, o) => shell'.out[prog[o].x] = Value(Stream(prog, o), clock', t)
      /\ ReadsStatus(prog, o) => shell'.exit[prog[o].x] = Value("status", clock', t)
  <2>1. /\ \A v \in Variable :
             shell'.out[v] = IF \/ s.op \in Runners /\ Stored(prog, o) /\ v = prog[o].x
                                \/ s.op = "take" /\ v = s.x
                             THEN Value(Stream(prog, o), clock', RunText(prog, pc))
                             ELSE shell.out[v]
        /\ \A v \in Variable :
             shell'.exit[v] = IF s.op \in Runners /\ ReadsStatus(prog, o) /\ v = prog[o].x
                              THEN Value("status", clock', RunText(prog, pc))
                              ELSE shell.exit[v]
    BY ScriptDoes DEF Performs
  <2> HIDE DEF t, s
  <2>2. QED
    BY <1>2, <1>3, <2>1
<1>8. ReadsText(prog, o) => ~ReadsErrors(prog, o)
  BY <1>1, <1>3, OneSide
<1> HIDE DEF t
<1>9. QED
  BY <1>6, <1>7, <1>8 DEF Holds, Stored, Stream

\* A command that is not run keeps what it gave.
LEMMA StillHolds ==
  ASSUME Performs, NEW o \in 1..Len(prog), prog[o].op \in {"literal", "clone"}, Seen(prog, o, pc),
         ~(prog[pc].op \in {"run", "take"} /\ Object(prog)[pc] = o),
         Holds(prog, shell, runs, o, env[o].obj)
  PROVE  Holds(prog, shell', runs', o, env'[o].obj)
<1> DEFINE s == prog[pc]
           d == Decl(prog, pc)
<1>1. /\ Written(prog) /\ pc \in 1..Len(prog) /\ Documented(prog) /\ Performing /\ Len(prog) \in Nat
      /\ Len(prog) <= MaxStatements
  BY DEF Performs, Typed, TypedProgram, Written
<1>2. o \in Index /\ o # pc /\ o < pc
  BY <1>1, VariableAssumption DEF Index, Seen
<1>3. prog[o].op \in Binders
  BY DEF Binders
<1>4. ~(s.op \in Runners /\ Object(prog)[pc] = o)
  <2>1. s.op = "fetch" => Object(prog)[pc] = pc
    BY <1>1, CalledObject DEF Rooted
  <2>2. QED
    BY <1>2, <2>1 DEF Runners
<1>5. shell'.out[prog[o].x] = shell.out[prog[o].x] /\ shell'.exit[prog[o].x] = shell.exit[prog[o].x]
  BY <1>2, <1>3, <1>4, OtherNames
<1>6. s.op \in Lets \cup Calls \cup {"fetch", "for", "print"}
  BY <1>1, DocumentedOps
<1>7. /\ \A k \in Index : k # pc => env'[k] = env[k]
      /\ s.op \notin {"run", "take"} => runs' = runs
      /\ s.op \in {"run", "take"} =>
           \A e, b : Shows(runs', e, b) = IF b = env[d].obj THEN Value(e, clock', env[d].text)
                                          ELSE Shows(runs, e, b)
  BY <1>6, ProgramDoes DEF Performs
<1>8. \A e : Shows(runs', e, env'[o].obj) = Shows(runs, e, env[o].obj)
  <2>1. env'[o] = env[o]
    BY <1>2, <1>7
  <2>2. CASE s.op \in {"run", "take"}
    <3>1. PICK c : c = Object(prog)[pc] /\ env[d].obj = env[c].obj /\ env[c].obj[1] = c
      <4>1. s.op \in Calls
        BY <2>2 DEF Calls
      <4>2. QED
        BY <1>1, <4>1, CalledNow
    <3>2. env[o].obj[1] = o
      BY <1>1 DEF Performing, EnvOK
    <3>3. env[d].obj # env[o].obj
      BY <2>2, <3>1, <3>2
    <3> HIDE DEF d
    <3>4. QED
      BY <1>7, <2>1, <2>2, <3>3
  <2>3. CASE s.op \notin {"run", "take"}
    BY <1>7, <2>1, <2>3
  <2>4. QED
    BY <2>2, <2>3
<1>9. QED
  BY <1>5, <1>8 DEF Holds

\* A new command has not run, and nothing is in its variables.
LEMMA NewHolds ==
  ASSUME Performs, prog[pc].op \in {"literal", "clone"}, ~prog[pc].block
  PROVE  Holds(prog, shell', runs', pc, env'[pc].obj)
<1> DEFINE s == prog[pc]
<1>1. /\ Written(prog) /\ pc \in 1..Len(prog) /\ Documented(prog) /\ Performing /\ Len(prog) \in Nat
      /\ clock \in Nat /\ clock' = clock + 1
  BY DEF Performs, Typed, TypedProgram, TypedRun, Written
<1>2. prog[pc].x \in Variable
  BY <1>1, StatementIs DEF Written, Binders
<1>3. shell.out[prog[pc].x] = Empty /\ shell.exit[prog[pc].x] = Empty
  <2>1. pc \in pc..Len(prog)
    BY <1>1
  <2>2. QED
    BY <1>1, <2>1 DEF Performing, ShellOK
<1>4. s.op \notin Runners \cup {"run", "take"}
  BY DEF Runners
<1>5. shell'.out[prog[pc].x] = Empty /\ shell'.exit[prog[pc].x] = Empty
  <2> DEFINE o == Object(prog)[pc]
  <2>1. /\ \A v \in Variable :
             shell'.out[v] = IF \/ s.op \in Runners /\ Stored(prog, o) /\ v = prog[o].x
                                \/ s.op = "take" /\ v = s.x
                             THEN Value(Stream(prog, o), clock', RunText(prog, pc))
                             ELSE shell.out[v]
        /\ \A v \in Variable :
             shell'.exit[v] = IF s.op \in Runners /\ ReadsStatus(prog, o) /\ v = prog[o].x
                              THEN Value("status", clock', RunText(prog, pc))
                              ELSE shell.exit[v]
    BY ScriptDoes DEF Performs
  <2> HIDE DEF o
  <2>2. QED
    BY <1>2, <1>3, <1>4, <2>1
<1>6. s.op \in Lets \cup Calls \cup {"fetch", "for", "print"}
  BY DEF Lets
<1>7. env'[pc].obj = <<pc, clock'>> /\ runs' = runs
  BY <1>4, <1>6, ProgramDoes DEF Performs
<1>8. <<pc, clock'>> \notin DOMAIN runs
  <2>1. \A o \in DOMAIN runs : o[2] <= clock
    BY <1>1 DEF Performing, RunsOK
  <2>2. <<pc, clock'>>[2] = clock' /\ ~(clock' <= clock)
    BY <1>1
  <2>3. QED
    BY <2>1, <2>2
<1>9. \A e : Shows(runs', e, env'[pc].obj) = Empty
  BY <1>7, <1>8 DEF Shows
<1>10. QED
  BY <1>5, <1>9 DEF Holds

LEMMA PerformsShell ==
  ASSUME Performs, NEW m \in 1..Len(prog), ComesAfter(prog, pc, m)
  PROVE  ShellOK(prog, shell', env', runs', m)
<1> DEFINE s == prog[pc]
           O == Object(prog)
<1>1. /\ Written(prog) /\ pc \in 1..Len(prog) /\ Documented(prog) /\ Performing /\ Len(prog) \in Nat
      /\ Len(prog) <= MaxStatements
  BY DEF Performs, Typed, TypedProgram, Written
<1>2. ShellOK(prog, shell, env, runs, pc)
  BY <1>1 DEF Performing
<1>3. ASSUME NEW o \in 1..Len(prog), prog[o].op \in {"literal", "clone"}, Seen(prog, o, m),
             prog[o].block => RunSeen(prog, o, m)
      PROVE  Holds(prog, shell', runs', o, env'[o].obj)
  <2>1. CASE s.op \in {"run", "take"} /\ O[pc] = o
    BY <2>1, RunHolds
  <2>2. CASE ~(s.op \in {"run", "take"} /\ O[pc] = o) /\ o # pc
    <3>1. Seen(prog, o, pc) /\ (prog[o].block => RunSeen(prog, o, pc))
      BY <1>3, <2>2 DEF ComesAfter
    <3>2. Holds(prog, shell, runs, o, env[o].obj)
      BY <1>2, <1>3, <3>1 DEF ShellOK, Holds
    <3>3. QED
      BY <1>3, <2>2, <3>1, <3>2, StillHolds
  <2>3. CASE ~(s.op \in {"run", "take"} /\ O[pc] = o) /\ o = pc
    <3>1. ~RunSeen(prog, pc, pc) \/ ~prog[pc].block
      <4>1. \A k \in 1..(pc - 1) : ~(pc < k)
        BY <1>1
      <4>2. QED
        BY <4>1 DEF RunSeen
    <3>2. ~prog[pc].block
      BY <1>3, <2>3, <3>1 DEF ComesAfter
    <3>3. QED
      BY <1>3, <2>3, <3>2, NewHolds
  <2>4. QED
    BY <2>1, <2>2, <2>3
<1>4. ASSUME NEW o \in m..Len(prog), prog[o].op \in {"literal", "clone"}, ~prog[o].block
      PROVE  shell'.out[prog[o].x] = Empty /\ shell'.exit[prog[o].x] = Empty
  <2>1. o > pc /\ o \in 1..Len(prog) /\ o \in pc..Len(prog) /\ o # pc
    <3>1. o > pc
      BY <1>4 DEF ComesAfter
    <3>2. QED
      BY <1>1, <3>1
  <2>2. shell.out[prog[o].x] = Empty /\ shell.exit[prog[o].x] = Empty
    BY <1>2, <1>4, <2>1 DEF ShellOK
  <2>3. ~(s.op \in Runners /\ O[pc] = o)
    <3>1. O[pc] \in 1..pc
      BY <1>1, ObjectBound
    <3>2. QED
      BY <1>1, <2>1, <3>1
  <2>4. QED
    BY <1>4, <2>1, <2>2, <2>3, OtherNames DEF Binders
<1>5. ASSUME NEW k \in 1..Len(prog), prog[k].op \in {"fetch", "take"}, Seen(prog, k, m)
      PROVE  shell'.out[prog[k].x] = env'[k].value
  <2>1. CASE k # pc
    <3>1. Seen(prog, k, pc)
      BY <1>5, <2>1 DEF ComesAfter
    <3>2. shell.out[prog[k].x] = env[k].value
      BY <1>2, <1>5, <3>1 DEF ShellOK
    <3>3. ~(s.op \in Runners /\ O[pc] = k)
      <4>1. s.op = "fetch" => O[pc] = pc
        BY <1>1, CalledObject DEF Rooted
      <4>2. s.op \in {"run", "take"} => prog[O[pc]].op \in {"literal", "clone"}
        BY <1>1, CalledObject DEF Calls
      <4>3. QED
        BY <1>5, <2>1, <4>1, <4>2 DEF Runners
    <3>4. shell'.out[prog[k].x] = shell.out[prog[k].x]
      BY <1>5, <2>1, <3>3, OtherNames DEF Binders
    <3>5. env'[k] = env[k]
      <4>1. k \in Index
        BY <1>1, VariableAssumption DEF Index
      <4>2. s.op \in Lets \cup Calls \cup {"fetch", "for", "print"}
        BY <1>1, DocumentedOps
      <4>3. QED
        BY <2>1, <4>1, <4>2, ProgramDoes DEF Performs
    <3>6. QED
      BY <3>2, <3>4, <3>5
  <2>2. CASE k = pc
    <3> DEFINE o == O[pc]
    <3>1. Stored(prog, o) /\ Stream(prog, o) = "stdout"
      BY <1>1, <1>5, <2>2, TakesOutput
    <3>2. s.op \in Runners /\ s.x \in Variable /\ (s.op = "fetch" => o = pc)
      <4>1. s.x \in Variable
        BY <1>1, <1>5, <2>2, StatementIs DEF Written, Binders
      <4>2. s.op = "fetch" => o = pc
        BY <1>1, CalledObject DEF Rooted
      <4>3. QED
        BY <1>5, <2>2, <4>1, <4>2 DEF Runners
    <3>3. shell'.out[s.x] = Value("stdout", clock', RunText(prog, pc))
      <4>1. \A v \in Variable :
               shell'.out[v] = IF \/ s.op \in Runners /\ Stored(prog, o) /\ v = prog[o].x
                                  \/ s.op = "take" /\ v = s.x
                               THEN Value(Stream(prog, o), clock', RunText(prog, pc))
                               ELSE shell.out[v]
        BY ScriptDoes DEF Performs
      <4>2. s.op = "fetch" => prog[o].x = s.x
        BY <3>2
      <4> HIDE DEF o
      <4>3. QED
        BY <1>5, <2>2, <3>1, <3>2, <4>1, <4>2
    <3>4. env'[pc].value = Value("stdout", clock', RunText(prog, pc))
      <4>1. CASE s.op = "fetch"
        <5>1. s.op \in Lets \cup Calls \cup {"fetch", "for", "print"}
          BY <4>1
        <5>2. env'[pc].value = Value("stdout", clock', Plain(pc))
          BY <4>1, <5>1, ProgramDoes DEF Performs
        <5>3. QED
          BY <4>1, <5>2 DEF RunText
      <4>2. CASE s.op = "take"
        <5>1. s.op \in Lets \cup Calls \cup {"fetch", "for", "print"} /\ s.op \in Calls
          BY <4>2 DEF Calls
        <5>2. env'[pc].value = Value("stdout", clock', env[Decl(prog, pc)].text)
          BY <4>2, <5>1, ProgramDoes DEF Performs
        <5>3. env[Decl(prog, pc)].text = Texts(prog)[Decl(prog, pc)]
          BY <1>1, <5>1, CalledNow
        <5>4. QED
          BY <4>2, <5>2, <5>3 DEF RunText
      <4>3. QED
        BY <1>5, <2>2, <4>1, <4>2
    <3>5. QED
      BY <2>2, <3>3, <3>4
  <2>3. QED
    BY <2>1, <2>2
<1>6. QED
  BY <1>3, <1>4, <1>5 DEF ShellOK, Holds

-----------------------------------------------------------------------------
(* The invariant of the execution. *)

NoExecution ==
  /\ shell = [out |-> [v \in Variable |-> Empty], exit |-> [v \in Variable |-> Empty]]
  /\ runs = << >> /\ did = Silent /\ meant = Silent

Executed ==
  /\ ShellShape
  /\ pass \notin {"execute", "done"} => NoExecution
  /\ Documented(prog) /\ pass = "execute" => Performing
  /\ Documented(prog) => did.ran = meant.ran /\ did.shown = meant.shown

LEMMA EmptyShell ==
  ASSUME NoExecution
  PROVE  /\ ShellShape /\ DOMAIN runs = {} /\ did = meant
         /\ \A v \in Variable : shell.out[v] = Empty /\ shell.exit[v] = Empty
BY DEF NoExecution, ShellShape

LEMMA ExecutedInit ==
  ASSUME CommandsInit
  PROVE  Executed
<1>1. NoExecution /\ pass = "write"
  BY DEF CommandsInit, AnalysisInit, NoExecution
<1>2. QED
  BY <1>1, EmptyShell DEF Executed

\* The passes in front of the execution.
LEMMA ExecutedWaits ==
  ASSUME Executed, pass \notin {"execute", "done"}, pass' \notin {"execute", "done"},
         UNCHANGED executionVars
  PROVE  Executed'
<1>1. NoExecution
  BY DEF Executed
<1>2. NoExecution'
  BY <1>1 DEF NoExecution, executionVars
<1>3. ShellShape' /\ did' = meant'
  <2>1. UNCHANGED <<shell, did, meant>>
    BY DEF executionVars
  <2>2. QED
    BY <1>1, <2>1, EmptyShell DEF ShellShape
<1>4. QED
  BY <1>2, <1>3 DEF Executed

LEMMA ExecutedStutter ==
  ASSUME Executed, UNCHANGED commandVars
  PROVE  Executed'
BY DEF commandVars, analysisVars, generatorVars, executionVars, Executed, ShellShape, NoExecution,
       Performing

LEMMA ExecutedStart ==
  ASSUME Typed, Executed, Start
  PROVE  Executed'
<1>1. /\ pass = "start" /\ NoExecution
      /\ UNCHANGED <<prog, clock, rounds, shell, env, runs, did, meant>>
  BY DEF Start, Executed, executionVars
<1>2. PICK m \in Entering(1) : pc' = m /\ pass' = IF m <= Len(prog) THEN "execute" ELSE "done"
  BY DEF Start
<1>3. Written(prog) /\ Len(prog) \in Nat /\ 1 \in 1..(Len(prog) + 1)
  BY <1>1 DEF Typed, TypedProgram, Written
<1>4. ShellShape' /\ did' = meant'
  BY <1>1, EmptyShell DEF ShellShape
<1>5. ASSUME pass' = "execute" PROVE Performing'
  <2>1. m \in 1..Len(prog)
    <3>1. m \in 1..(Len(prog) + 1) /\ m <= Len(prog)
      BY <1>2, <1>3, <1>5, EnteringIs
    <3>2. QED
      BY <1>3, <3>1
  <2>2. ASSUME NEW k \in 1..Len(prog), Seen(prog, k, m) PROVE FALSE
    <3>1. k \in 1..(m - 1) /\ (prog[k].block => SameBlock(prog, k, m))
      BY <2>2 DEF Seen
    <3>2. m > 1 /\ SameBlock(prog, 1, m - 1) /\ ~prog[m].block
      BY <1>2, <1>3, <2>1, <3>1, EnteringIs
    <3>3. prog[k].block
      BY <3>1, <3>2 DEF SameBlock
    <3>4. m \in k..m
      BY <2>1, <3>1
    <3>5. QED
      BY <3>1, <3>2, <3>3, <3>4 DEF SameBlock
  <2>3. EnvOK(prog, env, clock, m)
    BY <2>2 DEF EnvOK
  <2>4. RunsOK(runs, clock)
    BY <1>1, EmptyShell DEF RunsOK
  <2>5. ShellOK(prog, shell, env, runs, m)
    <3>1. \A o \in m..Len(prog) : prog[o].op \in {"literal", "clone"} => prog[o].x \in Variable
      <4>1. \A o \in m..Len(prog) : o \in 1..Len(prog)
        BY <2>1
      <4>2. QED
        BY <1>3, <4>1, StatementIs DEF Written, Binders
    <3>2. \A v \in Variable : shell.out[v] = Empty /\ shell.exit[v] = Empty
      BY <1>1, EmptyShell
    <3>3. QED
      BY <2>2, <3>1, <3>2 DEF ShellOK
  <2>6. QED
    BY <1>1, <1>2, <2>3, <2>4, <2>5 DEF Performing
<1>6. pass' \in {"execute", "done"}
  BY <1>2
<1>7. QED
  BY <1>4, <1>5, <1>6 DEF Executed

LEMMA ExecutedExecute ==
  ASSUME Typed, Compiled, Executed, Execute
  PROVE  Executed'
<1>1. /\ pass = "execute" /\ clock' = clock + 1 /\ ExecuteLine(code[pc]) /\ MeanStatement(prog[pc])
      /\ prog' = prog /\ code' = code
  BY DEF Execute, generatorVars
<1>2. PICK m \in Following(pc) : pc' = m /\ pass' = IF m <= Len(prog) THEN "execute" ELSE "done"
  BY DEF Execute
<1>3. Written(prog) /\ Len(prog) \in Nat /\ pc \in 1..Len(prog) /\ ShellShape
      /\ code \in Seq(Line) /\ Len(code) = Len(prog)
  BY <1>1 DEF Typed, TypedProgram, TypedCode, Written, Executed
<1>4. ShellShape'
  <2>1. code[pc] \in Line
    BY <1>3
  <2>2. DOMAIN shell'.out = Variable /\ DOMAIN shell'.exit = Variable
    BY <1>1, <1>3 DEF ExecuteLine, ShellShape
  <2>3. QED
    BY <2>2 DEF ShellShape
<1>5. ASSUME Documented(prog)
      PROVE  /\ pass' = "execute" => Performing'
             /\ did'.ran = meant'.ran /\ did'.shown = meant'.shown
  <2>1. Performs
    BY <1>1, <1>3, <1>5 DEF Performs, Executed, Compiled, Generated, Size
  <2>2. ASSUME pass' = "execute" PROVE Performing'
    <3>1. m \in 1..Len(prog)
      <4>1. m \in 1..(Len(prog) + 1) /\ m <= Len(prog)
        BY <1>2, <1>3, <2>2, FollowingIs
      <4>2. QED
        BY <1>3, <4>1
    <3>2. ComesAfter(prog, pc, m)
      BY <1>3, <3>1, FollowingSeen
    <3>3. EnvOK(prog, env', clock', m) /\ RunsOK(runs', clock') /\ ShellOK(prog, shell', env', runs', m)
      BY <2>1, <3>1, <3>2, PerformsEnv, PerformsRuns, PerformsShell
    <3>4. QED
      BY <1>1, <1>2, <3>3 DEF Performing
  <2>3. QED
    BY <2>1, <2>2, PerformsMeant
<1>6. pass' \in {"execute", "done"}
  BY <1>2
<1>7. QED
  BY <1>1, <1>4, <1>5, <1>6 DEF Executed

LEMMA ExecutedNext ==
  ASSUME Typed, Compiled, Executed, [CommandsNext]_commandVars
  PROVE  Executed'
<1>1. CASE AnalysisNext /\ UNCHANGED <<generatorVars, executionVars>>
  <2>1. pass \notin {"execute", "done"} /\ pass' \notin {"execute", "done"}
    BY <1>1 DEF AnalysisNext, Write, Compile, Allocate, Scan, EmitWarnings, Advance
  <2>2. UNCHANGED executionVars
    BY <1>1
  <2>3. QED
    BY <2>1, <2>2, ExecutedWaits
<1>2. CASE Generate
  <2>1. pass \notin {"execute", "done"} /\ pass' \notin {"execute", "done"} /\ UNCHANGED executionVars
    BY <1>2 DEF Generate, Advance
  <2>2. QED
    BY <2>1, ExecutedWaits
<1>3. QED
  BY <1>1, <1>2, ExecutedStart, ExecutedExecute, ExecutedStutter DEF CommandsNext

\* RanAsMeant for every bound: at every statement of a documented program the
\* script runs the command the program runs, with the chains put upon it
\* (genRunCall, genCmdChain), however often the blocks are repeated.
THEOREM CommandsRun == CommandsSpec => []RanAsMeant
<1>1. CommandsInit => Typed /\ Compiled /\ Executed
  BY TypedInit, CompiledInit, ExecutedInit
<1>2. Typed /\ Compiled /\ Executed /\ [CommandsNext]_commandVars => (Typed /\ Compiled /\ Executed)'
  BY TypedNext, CompiledNext, ExecutedNext
<1>3. Typed /\ Compiled /\ Executed => RanAsMeant
  BY DEF Executed, RanAsMeant
<1>4. QED
  BY <1>1, <1>2, <1>3, PTL DEF CommandsSpec

\* ShownAsMeant for every bound: what a documented program prints is what the last
\* run of the command it reads gave, and not what another command, an earlier run
\* or another stream left in the variable (CaptureVarName, genRunCall).
THEOREM CommandsShown == CommandsSpec => []ShownAsMeant
<1>1. CommandsInit => Typed /\ Compiled /\ Executed
  BY TypedInit, CompiledInit, ExecutedInit
<1>2. Typed /\ Compiled /\ Executed /\ [CommandsNext]_commandVars => (Typed /\ Compiled /\ Executed)'
  BY TypedNext, CompiledNext, ExecutedNext
<1>3. Typed /\ Compiled /\ Executed => ShownAsMeant
  BY DEF Executed, ShownAsMeant
<1>4. QED
  BY <1>1, <1>2, <1>3, PTL DEF CommandsSpec

=============================================================================
