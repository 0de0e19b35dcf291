----------------------------- MODULE ListProofs -----------------------------
(***************************************************************************)
(* What the operators of module Lists return, for every list.  Induction   *)
(* is by the least counterexample, which is a first-order argument.        *)
(***************************************************************************)
EXTENDS Lists, SequenceTheorems, WellFoundedInduction, TLAPS

\* Every nonempty set of numbers has a least member.
LEMMA LeastNat ==
  ASSUME NEW T \in SUBSET Nat, T # {}
  PROVE  \E x \in T : \A y \in T : x <= y
<1>1. PICK x \in T : \A y \in T : ~ (<<y, x>> \in OpToRel(<, Nat))
  BY NatLessThanWellFounded, WFMin
<1>2. \A y \in T : ~(y < x)
  BY <1>1 DEF OpToRel
<1>3. QED
  BY <1>2

\* A set of numbers that holds 0 and, up to n, the successor of each member
\* holds all numbers up to n.
LEMMA UpTo ==
  ASSUME NEW n \in Nat, NEW T, 0 \in T, \A i \in 1..n : i - 1 \in T => i \in T
  PROVE  \A i \in 0..n : i \in T
<1> DEFINE Out == {i \in 0..n : i \notin T}
<1> SUFFICES ASSUME Out # {} PROVE FALSE
  OBVIOUS
<1>1. Out \in SUBSET Nat
  OBVIOUS
<1>2. PICK i \in Out : \A j \in Out : i <= j
  <2> HIDE DEF Out
  <2>1. QED
    BY <1>1, LeastNat
<1>3. i \in 1..n /\ i - 1 \in 0..n
  OBVIOUS
<1>4. i - 1 \in T
  BY <1>2, <1>3
<1>5. QED
  BY <1>3, <1>4

\* g begins with c and goes on as H says, up to n.
Follows(g, c, H, n, V) == g \in [0..n -> V] /\ g[0] = c /\ \A i \in 1..n : g[i] = H[i][g[i - 1]]
Stepwise(H, n, V) == H \in [1..n -> [V -> V]]

\* A function may be defined by recursion up to n.
LEMMA Recursion ==
  ASSUME NEW V, NEW c \in V, NEW n \in Nat, NEW H, Stepwise(H, n, V)
  PROVE  \E g : Follows(g, c, H, n, V)
<1> USE DEF Stepwise
<1> DEFINE Partial(m, g) == g[0] = c /\ \A i \in 1..m : g[i] = H[i][g[i - 1]]
<1> DEFINE T == {m \in 0..n : \E g \in [0..m -> V] : Partial(m, g)}
<1>1. 0 \in T
  <2> DEFINE g == [i \in 0..0 |-> c]
  <2>1. g \in [0..0 -> V] /\ g[0] = c /\ 0 \in 0..n
    OBVIOUS
  <2> HIDE DEF g
  <2>2. Partial(0, g)
    BY <2>1
  <2>3. QED
    BY <2>1, <2>2
<1>2. ASSUME NEW m \in 1..n, m - 1 \in T PROVE m \in T
  <2>1. PICK g \in [0..(m - 1) -> V] : Partial(m - 1, g)
    BY <1>2
  <2> DEFINE h == [i \in 0..m |-> IF i = m THEN H[m][g[m - 1]] ELSE g[i]]
  <2>2. g[m - 1] \in V /\ H[m][g[m - 1]] \in V
    OBVIOUS
  <2>3. h \in [0..m -> V]
    BY <2>2
  <2>4. h[m] = H[m][g[m - 1]] /\ \A i \in 0..(m - 1) : h[i] = g[i]
    OBVIOUS
  <2> HIDE DEF h
  <2>5. h[0] = c
    BY <2>1, <2>4
  <2>6. ASSUME NEW i \in 1..m PROVE h[i] = H[i][h[i - 1]]
    <3>1. h[i - 1] = g[i - 1]
      BY <2>4
    <3>2. CASE i = m
      BY <2>4, <3>1, <3>2
    <3>3. CASE i # m
      BY <2>1, <2>4, <3>1, <3>3
    <3>4. QED
      BY <3>2, <3>3
  <2>7. Partial(m, h)
    BY <2>5, <2>6
  <2> HIDE DEF Partial
  <2>8. QED
    BY <2>3, <2>7
<1>3. \A m \in 1..n : m - 1 \in T => m \in T
  BY <1>2
<1>4. n \in T
  <2> HIDE DEF T
  <2>1. \A i \in 0..n : i \in T
    BY <1>1, <1>3, UpTo
  <2>2. QED
    BY <2>1
<1>5. QED
  BY <1>4 DEF Follows

-----------------------------------------------------------------------------

\* The loop keeps an element or passes it by.
LEMMA KeptSteps ==
  ASSUME NEW U, NEW s \in Seq(U), NEW S
  PROVE  /\ KeptAfter(s, S) \in [0..Len(s) -> Seq(U)]
         /\ KeptAfter(s, S)[0] = << >>
         /\ \A n \in 1..Len(s) :
              KeptAfter(s, S)[n] = IF s[n] \in S THEN Append(KeptAfter(s, S)[n - 1], s[n])
                                   ELSE KeptAfter(s, S)[n - 1]
<1> DEFINE V == Seq(U)
           N == Len(s)
           Empty == << >>
           H == [i \in 1..N |-> [v \in V |-> IF s[i] \in S THEN Append(v, s[i]) ELSE v]]
           Body(k) == [n \in 0..N |-> IF n = 0 THEN << >>
                        ELSE IF s[n] \in S THEN Append(k[n - 1], s[n]) ELSE k[n - 1]]
<1>1. Empty \in V /\ N \in Nat
  OBVIOUS
<1>2. H \in [1..N -> [V -> V]]
  BY ElementOfSeq, AppendProperties
<1>3. \A i \in 1..N, v \in V : H[i][v] = IF s[i] \in S THEN Append(v, s[i]) ELSE v
  OBVIOUS
<1>4. KeptAfter(s, S) = CHOOSE k : k = Body(k)
  BY DEF KeptAfter
<1>5. \E g \in [0..N -> V] : g = Body(g)
  <2> HIDE DEF V, N, H, Empty
  <2>0. PICK g : Follows(g, Empty, H, N, V)
    BY <1>1, <1>2, Recursion DEF Stepwise
  <2>1. g \in [0..N -> V] /\ g[0] = Empty /\ \A i \in 1..N : g[i] = H[i][g[i - 1]]
    BY <2>0 DEF Follows
  <2>2. ASSUME NEW i \in 0..N PROVE g[i] = Body(g)[i]
    <3>1. CASE i = 0
      BY <2>1, <3>1 DEF Empty
    <3>2. CASE i # 0
      <4>1. i \in 1..N /\ i - 1 \in 0..N
        BY <3>2, <1>1
      <4>2. g[i - 1] \in V
        BY <2>1, <4>1
      <4>3. QED
        BY <1>3, <2>1, <3>2, <4>1, <4>2
    <3>3. QED
      BY <3>1, <3>2
  <2>3. g = [i \in 0..N |-> Body(g)[i]]
    BY <2>1, <2>2
  <2>4. QED
    BY <2>1, <2>3
<1> DEFINE K == KeptAfter(s, S)
<1>6. K = Body(K)
  <2> HIDE DEF Body, V, N
  <2>1. QED
    BY <1>4, <1>5
<1> HIDE DEF K
<1>7. /\ K[0] = << >>
      /\ \A n \in 1..N : K[n] = IF s[n] \in S THEN Append(K[n - 1], s[n]) ELSE K[n - 1]
      /\ K = [n \in 0..N |-> K[n]]
  <2>1. \A n \in 0..N : K[n] = Body(K)[n]
    BY <1>6
  <2>2. \A n \in 1..N : n \in 0..N /\ n # 0
    OBVIOUS
  <2>3. \A n \in 1..N : K[n] = IF s[n] \in S THEN Append(K[n - 1], s[n]) ELSE K[n - 1]
    <3> HIDE DEF N
    <3>1. QED
      BY <2>1, <2>2
  <2>4. K[0] = << >>
    BY <2>1, <1>1
  <2>5. K = [n \in 0..N |-> K[n]]
    BY <1>6, <2>1
  <2>6. QED
    BY <2>3, <2>4, <2>5
<1>8. \A n \in 0..N : K[n] \in Seq(U)
  <2> DEFINE T == {n \in 0..N : K[n] \in Seq(U)}
  <2>1. 0 \in T
    BY <1>1, <1>7
  <2>2. ASSUME NEW n \in 1..N, K[n - 1] \in Seq(U) PROVE K[n] \in Seq(U)
    <3>1. s[n] \in U
      BY ElementOfSeq
    <3>2. Append(K[n - 1], s[n]) \in Seq(U)
      BY <2>2, <3>1, AppendProperties
    <3>3. QED
      BY <1>7, <2>2, <3>2
  <2>3. \A n \in 1..N : n - 1 \in T => n \in T
    BY <2>2
  <2> HIDE DEF T, N
  <2>4. \A n \in 0..N : n \in T
    BY <1>1, <2>1, <2>3, UpTo
  <2>5. QED
    BY <2>4 DEF T
<1>9. QED
  BY <1>7, <1>8 DEF K

LEMMA KeptEmpty ==
  ASSUME NEW s, s = << >>, NEW S
  PROVE  Kept(s, S) = << >>
<1>1. PICK U : s \in Seq(U)
  OBVIOUS
<1>2. KeptAfter(s, S)[0] = << >>
  BY ONLY <1>1, KeptSteps
<1>3. Len(s) = 0
  OBVIOUS
<1>4. QED
  BY <1>2, <1>3 DEF Kept

\* What is kept of the first n elements depends on these only.
LEMMA KeptSame ==
  ASSUME NEW U, NEW s \in Seq(U), NEW t \in Seq(U), NEW S, NEW n \in 0..Len(s), n <= Len(t),
         \A i \in 1..n : s[i] = t[i]
  PROVE  KeptAfter(s, S)[n] = KeptAfter(t, S)[n]
<1> DEFINE a == KeptAfter(s, S)
           b == KeptAfter(t, S)
           T == {i \in 0..n : a[i] = b[i]}
<1>1. n \in Nat /\ Len(s) \in Nat /\ Len(t) \in Nat
  OBVIOUS
<1>2. 0 \in T
  BY <1>1, KeptSteps
<1>3. ASSUME NEW i \in 1..n, a[i - 1] = b[i - 1] PROVE a[i] = b[i]
  <2>1. i \in 1..Len(s) /\ i \in 1..Len(t)
    BY <1>1
  <2>2. a[i] = IF s[i] \in S THEN Append(a[i - 1], s[i]) ELSE a[i - 1]
    BY <2>1, KeptSteps
  <2>3. b[i] = IF t[i] \in S THEN Append(b[i - 1], t[i]) ELSE b[i - 1]
    BY <2>1, KeptSteps
  <2>4. QED
    BY <1>3, <2>2, <2>3
<1>4. \A i \in 1..n : i - 1 \in T => i \in T
  BY <1>3
<1>5. n \in T
  <2> HIDE DEF T
  <2>1. \A i \in 0..n : i \in T
    BY <1>1, <1>2, <1>4, UpTo
  <2>2. QED
    BY <1>1, <2>1
<1>6. QED
  BY <1>5

LEMMA KeptAppend ==
  ASSUME NEW U, NEW s \in Seq(U), NEW e \in U, NEW S
  PROVE  Kept(Append(s, e), S) = IF e \in S THEN Append(Kept(s, S), e) ELSE Kept(s, S)
<1> DEFINE t == Append(s, e)
           n == Len(s)
<1>1. /\ t \in Seq(U) /\ Len(t) = n + 1 /\ n \in Nat /\ t[n + 1] = e
      /\ \A i \in 1..n : s[i] = t[i]
  BY AppendProperties
<1> HIDE DEF t
<1>2. KeptAfter(s, S)[n] = KeptAfter(t, S)[n]
  <2>1. n \in 0..Len(s) /\ n <= Len(t)
    BY <1>1
  <2>2. QED
    BY <1>1, <2>1, KeptSame
<1>3. n + 1 \in 1..Len(t) /\ (n + 1) - 1 = n
  BY <1>1
<1>4. KeptAfter(t, S)[n + 1] = IF t[n + 1] \in S THEN Append(KeptAfter(t, S)[(n + 1) - 1], t[n + 1])
                               ELSE KeptAfter(t, S)[(n + 1) - 1]
  BY <1>1, <1>3, KeptSteps
<1>5. QED
  BY <1>1, <1>2, <1>3, <1>4 DEF Kept, t

\* The list b begins with the list a.
Begins(a, b) == Len(a) <= Len(b) /\ \A j \in 1..Len(a) : b[j] = a[j]

\* What is kept so far stays, at its place.
LEMMA KeptGrows ==
  ASSUME NEW U, NEW s \in Seq(U), NEW S, NEW n \in 0..Len(s), NEW m \in 0..n
  PROVE  Begins(KeptAfter(s, S)[m], KeptAfter(s, S)[n])
<1> DEFINE k == KeptAfter(s, S)
           Extends(i) == /\ Len(k[m]) <= Len(k[i])
                         /\ \A j \in 1..Len(k[m]) : k[i][j] = k[m][j]
           T == {i \in 0..n : i < m \/ Extends(i)}
<1>1. /\ n \in Nat /\ m \in Nat /\ Len(s) \in Nat
      /\ \A i \in 0..n : k[i] \in Seq(U) /\ Len(k[i]) \in Nat
      /\ \A i \in 1..n : k[i] = IF s[i] \in S THEN Append(k[i - 1], s[i]) ELSE k[i - 1]
      /\ \A i \in 1..n : s[i] \in U
  BY KeptSteps, ElementOfSeq
<1> HIDE DEF k
<1>2. Extends(m)
  BY <1>1
<1>3. 0 \in T
  BY <1>1, <1>2
<1>4. ASSUME NEW i \in 1..n, i - 1 < m \/ Extends(i - 1) PROVE i < m \/ Extends(i)
  <2>1. CASE i <= m
    BY <1>1, <1>2, <2>1
  <2>2. CASE ~(i <= m)
    <3>1. Extends(i - 1)
      BY <1>1, <1>4, <2>2
    <3>2. i - 1 \in 0..n
      BY <1>1
    <3>3. CASE s[i] \notin S
      BY <1>1, <3>1, <3>3
    <3>4. CASE s[i] \in S
      <4>1. k[i] = Append(k[i - 1], s[i])
        BY <1>1, <3>4
      <4>2. Len(k[i]) = Len(k[i - 1]) + 1 /\ \A j \in 1..Len(k[i - 1]) : k[i][j] = k[i - 1][j]
        BY <1>1, <3>2, <4>1, AppendProperties
      <4>3. QED
        BY <1>1, <3>1, <3>2, <4>2
    <3>5. QED
      BY <3>3, <3>4
  <2>3. QED
    BY <2>1, <2>2
<1>5. \A i \in 1..n : i - 1 \in T => i \in T
  <2> HIDE DEF Extends
  <2>1. \A i \in 1..n : i \in 0..n
    BY <1>1
  <2>2. QED
    BY <1>4, <2>1
<1>6. n \in T
  <2> HIDE DEF T
  <2>1. \A i \in 0..n : i \in T
    BY <1>1, <1>3, <1>5, UpTo
  <2>2. QED
    BY <1>1, <2>1
<1>7. QED
  BY <1>1, <1>6 DEF k, Begins

\* What was kept early is the beginning of what is kept.
LEMMA KeptPrefix ==
  ASSUME NEW U, NEW s \in Seq(U), NEW S, NEW m \in 0..Len(s)
  PROVE  Begins(KeptAfter(s, S)[m], Kept(s, S))
<1>1. PICK n \in 0..Len(s) : n = Len(s)
  OBVIOUS
<1>2. m \in 0..n
  BY <1>1
<1>3. Begins(KeptAfter(s, S)[m], KeptAfter(s, S)[n])
  BY <1>2, KeptGrows
<1>4. Kept(s, S) = KeptAfter(s, S)[n]
  BY <1>1 DEF Kept
<1>5. QED
  BY <1>3, <1>4

\* Everything kept is an element that was to be kept.
LEMMA KeptIsIn ==
  ASSUME NEW U, NEW s \in Seq(U), NEW S, NEW n \in 0..Len(s), NEW j \in 1..Len(KeptAfter(s, S)[n])
  PROVE  /\ KeptAfter(s, S)[n][j] \in S
         /\ \E i \in 1..n : KeptAfter(s, S)[n][j] = s[i]
<1> DEFINE k == KeptAfter(s, S)
           Good(i) == \A l \in 1..Len(k[i]) : k[i][l] \in S /\ \E x \in 1..i : k[i][l] = s[x]
           T == {i \in 0..n : Good(i)}
<1>1. /\ n \in Nat /\ Len(s) \in Nat
      /\ k[0] = << >>
      /\ \A i \in 0..n : k[i] \in Seq(U) /\ Len(k[i]) \in Nat
      /\ \A i \in 1..n : k[i] = IF s[i] \in S THEN Append(k[i - 1], s[i]) ELSE k[i - 1]
      /\ \A i \in 1..n : s[i] \in U
  BY KeptSteps, ElementOfSeq
<1>2. j \in 1..Len(k[n])
  OBVIOUS
<1> HIDE DEF k
<1>3. 0 \in T
  BY <1>1
<1>4. ASSUME NEW i \in 1..n, Good(i - 1) PROVE Good(i)
  <2> SUFFICES ASSUME NEW l \in 1..Len(k[i])
               PROVE  k[i][l] \in S /\ \E x \in 1..i : k[i][l] = s[x]
    OBVIOUS
  <2>1. i - 1 \in 0..n /\ (1..(i - 1)) \subseteq (1..i) /\ i \in 1..i
    BY <1>1
  <2>2. CASE s[i] \notin S
    BY <1>1, <1>4, <2>1, <2>2
  <2>3. CASE s[i] \in S
    <3>1. k[i] = Append(k[i - 1], s[i])
      BY <1>1, <2>3
    <3>2. /\ Len(k[i]) = Len(k[i - 1]) + 1 /\ k[i][Len(k[i - 1]) + 1] = s[i]
          /\ \A x \in 1..Len(k[i - 1]) : k[i][x] = k[i - 1][x]
      BY <1>1, <2>1, <3>1, AppendProperties
    <3>3. CASE l = Len(k[i - 1]) + 1
      BY <2>1, <2>3, <3>2, <3>3
    <3>4. CASE l # Len(k[i - 1]) + 1
      <4>1. l \in 1..Len(k[i - 1])
        BY <1>1, <2>1, <3>2, <3>4
      <4>2. QED
        BY <1>4, <2>1, <3>2, <4>1
    <3>5. QED
      BY <3>3, <3>4
  <2>4. QED
    BY <2>2, <2>3
<1>5. \A i \in 1..n : i - 1 \in T => i \in T
  <2> HIDE DEF Good
  <2>1. \A i \in 1..n : i \in 0..n
    BY <1>1
  <2>2. QED
    BY <1>4, <2>1
<1>6. n \in T
  <2> HIDE DEF T
  <2>1. \A i \in 0..n : i \in T
    BY <1>1, <1>3, <1>5, UpTo
  <2>2. QED
    BY <1>1, <2>1
<1>7. QED
  BY <1>2, <1>6 DEF k

\* Everything that was to be kept is kept.
LEMMA KeptHas ==
  ASSUME NEW U, NEW s \in Seq(U), NEW S, NEW n \in 0..Len(s), NEW i \in 1..n, s[i] \in S
  PROVE  \E j \in 1..Len(KeptAfter(s, S)[n]) : KeptAfter(s, S)[n][j] = s[i]
<1> DEFINE k == KeptAfter(s, S)
           N == Len(s)
           l == Len(k[i - 1]) + 1
<1>1. i - 1 \in 0..N /\ i \in 1..N /\ n \in 0..N /\ i \in 0..n
  OBVIOUS
<1>2. /\ k \in [0..N -> Seq(U)]
      /\ \A x \in 1..N : k[x] = IF s[x] \in S THEN Append(k[x - 1], s[x]) ELSE k[x - 1]
  BY KeptSteps
<1>3. \A x \in 0..N : \A m \in 0..x : Begins(k[m], k[x])
  BY KeptGrows
<1> HIDE DEF k, N
<1>4. k[i] = Append(k[i - 1], s[i]) /\ k[i - 1] \in Seq(U) /\ k[n] \in Seq(U)
  BY <1>1, <1>2
<1>5. s[i] \in U
  BY <1>1, ElementOfSeq DEF N
<1>6. Len(k[i]) = l /\ k[i][l] = s[i] /\ l \in Nat \ {0} /\ Len(k[n]) \in Nat
  BY <1>4, <1>5, AppendProperties
<1>7. Len(k[i]) <= Len(k[n]) /\ \A j \in 1..Len(k[i]) : k[n][j] = k[i][j]
  BY <1>1, <1>3 DEF Begins
<1>8. l \in 1..Len(k[i]) /\ l \in 1..Len(k[n])
  BY <1>6, <1>7
<1>9. QED
  BY <1>6, <1>7, <1>8 DEF k

\* A list all of whose elements are kept is kept as it is.
LEMMA KeptAll ==
  ASSUME NEW U, NEW s \in Seq(U), NEW S, \A i \in 1..Len(s) : s[i] \in S
  PROVE  Kept(s, S) = s
<1> DEFINE k == KeptAfter(s, S)
           n == Len(s)
           T == {i \in 0..n : Len(k[i]) = i /\ \A j \in 1..i : k[i][j] = s[j]}
<1>1. /\ k \in [0..n -> Seq(U)]
      /\ k[0] = << >>
      /\ \A x \in 1..n : k[x] = IF s[x] \in S THEN Append(k[x - 1], s[x]) ELSE k[x - 1]
  BY KeptSteps
<1> HIDE DEF k
<1>2. n \in Nat /\ \A i \in 1..n : s[i] \in U
  BY ElementOfSeq
<1>3. \A i \in 0..n : k[i] \in Seq(U) /\ Len(k[i]) \in Nat
  BY <1>1
<1>4. \A i \in 1..n : k[i] = Append(k[i - 1], s[i])
  BY <1>1
<1>5. /\ n \in Nat
      /\ k[0] = << >>
      /\ \A i \in 0..n : k[i] \in Seq(U) /\ Len(k[i]) \in Nat
      /\ \A i \in 1..n : k[i] = Append(k[i - 1], s[i])
      /\ \A i \in 1..n : s[i] \in U
  BY <1>1, <1>2, <1>3, <1>4
<1>6. 0 \in T
  BY <1>5
<1>7. ASSUME NEW i \in 1..n, i - 1 \in T PROVE i \in T
  <2>1. i - 1 \in 0..n /\ i \in 0..n
    BY <1>5
  <2>2. k[i - 1] \in Seq(U) /\ s[i] \in U /\ k[i] = Append(k[i - 1], s[i])
    BY <1>5, <2>1
  <2>3. /\ Len(k[i]) = Len(k[i - 1]) + 1 /\ k[i][Len(k[i - 1]) + 1] = s[i]
        /\ \A x \in 1..Len(k[i - 1]) : k[i][x] = k[i - 1][x]
    BY <2>2, AppendProperties
  <2>4. Len(k[i]) = i /\ k[i][i] = s[i] /\ \A x \in 1..(i - 1) : k[i][x] = s[x]
    BY <1>7, <2>3
  <2>5. \A x \in 1..i : k[i][x] = s[x]
    BY <2>4
  <2>6. QED
    BY <2>1, <2>4, <2>5
<1>8. \A i \in 1..n : i - 1 \in T => i \in T
  BY <1>7
<1>9. n \in T
  <2> HIDE DEF T, n
  <2>1. \A i \in 0..n : i \in T
    BY <1>5, <1>6, <1>8, UpTo
  <2>2. QED
    BY <1>5, <2>1
<1>10. k[n] \in Seq(U) /\ Len(k[n]) = Len(s) /\ \A j \in 1..Len(s) : k[n][j] = s[j]
  BY <1>5, <1>9
<1>11. k[n] = s
  BY <1>10, SeqEqual
<1>12. QED
  BY <1>11 DEF Kept, k

\* Appending elements that are not kept changes nothing.
LEMMA KeptNone ==
  ASSUME NEW U, NEW s \in Seq(U), NEW t \in Seq(U), NEW S, \A i \in 1..Len(t) : t[i] \notin S
  PROVE  Kept(s \o t, S) = Kept(s, S)
<1> DEFINE st == s \o t
           k == KeptAfter(st, S)
           n == Len(st)
           T == {i \in 0..n : i < Len(s) \/ k[i] = k[Len(s)]}
<1>1. /\ st \in Seq(U) /\ n = Len(s) + Len(t) /\ Len(s) \in Nat /\ Len(t) \in Nat /\ n \in Nat
      /\ \A i \in 1..Len(s) : st[i] = s[i]
      /\ \A i \in (Len(s) + 1)..n : st[i] \notin S
  BY ConcatProperties
<1> HIDE DEF st
<1>2. \A i \in 1..n : k[i] = IF st[i] \in S THEN Append(k[i - 1], st[i]) ELSE k[i - 1]
  BY <1>1, KeptSteps
<1> HIDE DEF k
<1>3. 0 \in T
  BY <1>1
<1>4. ASSUME NEW i \in 1..n, i - 1 \in T PROVE i \in T
  <2>1. CASE i <= Len(s)
    BY <1>1, <2>1
  <2>2. CASE ~(i <= Len(s))
    BY <1>1, <1>2, <1>4, <2>2
  <2>3. QED
    BY <2>1, <2>2
<1>5. \A i \in 1..n : i - 1 \in T => i \in T
  BY <1>4
<1>6. n \in T
  <2> HIDE DEF T, n
  <2>1. \A i \in 0..n : i \in T
    BY <1>1, <1>3, <1>5, UpTo
  <2>2. QED
    BY <1>1, <2>1
<1>7. k[n] = k[Len(s)]
  BY <1>1, <1>6
<1>8. KeptAfter(s, S)[Len(s)] = KeptAfter(st, S)[Len(s)]
  <2> DEFINE x == Len(s)
  <2>1. x \in 0..Len(s) /\ x <= Len(st) /\ \A i \in 1..x : s[i] = st[i]
    BY <1>1
  <2> HIDE DEF x
  <2>2. KeptAfter(s, S)[x] = KeptAfter(st, S)[x]
    BY <1>1, <2>1, KeptSame
  <2>3. QED
    BY <2>2 DEF x
<1>9. QED
  BY <1>7, <1>8 DEF Kept, k, st

\* An element that is kept stands behind those kept before it.
LEMMA KeptPlace ==
  ASSUME NEW U, NEW s \in Seq(U), NEW S, NEW n \in 1..Len(s), s[n] \in S
  PROVE  LET l == Len(KeptAfter(s, S)[n - 1]) + 1
         IN  l \in 1..Len(Kept(s, S)) /\ Kept(s, S)[l] = s[n]
<1> DEFINE k == KeptAfter(s, S)
           N == Len(s)
           l == Len(k[n - 1]) + 1
<1>1. n - 1 \in 0..N /\ n \in 0..N /\ N \in 0..N /\ n \in 1..N
  OBVIOUS
<1>2. /\ k \in [0..N -> Seq(U)]
      /\ \A x \in 1..N : k[x] = IF s[x] \in S THEN Append(k[x - 1], s[x]) ELSE k[x - 1]
  BY KeptSteps
<1>3. \A x \in 0..N : \A m \in 0..x : Begins(k[m], k[x])
  BY KeptGrows
<1>4. Kept(s, S) = k[N]
  BY DEF Kept
<1> HIDE DEF k, N
<1>5. k[n] = Append(k[n - 1], s[n]) /\ k[n - 1] \in Seq(U) /\ s[n] \in U /\ k[N] \in Seq(U)
  BY <1>1, <1>2, ElementOfSeq
<1>6. Len(k[n]) = l /\ k[n][l] = s[n] /\ l \in Nat \ {0} /\ Len(k[N]) \in Nat
  BY <1>5, AppendProperties
<1>7. Len(k[n]) <= Len(k[N]) /\ \A j \in 1..Len(k[n]) : k[N][j] = k[n][j]
  BY <1>1, <1>3 DEF Begins
<1>8. l \in 1..Len(k[n]) /\ l \in 1..Len(k[N])
  BY <1>6, <1>7
<1>9. QED
  BY <1>4, <1>6, <1>7, <1>8 DEF k

\* What is kept of a list without repetitions has none.
LEMMA KeptApart ==
  ASSUME NEW U, NEW s \in Seq(U), NEW S,
         \A i, j \in 1..Len(s) : s[i] = s[j] => i = j
  PROVE  \A i, j \in 1..Len(Kept(s, S)) : Kept(s, S)[i] = Kept(s, S)[j] => i = j
<1> DEFINE k == KeptAfter(s, S)
           N == Len(s)
           Apart(n) == \A i, j \in 1..Len(k[n]) : k[n][i] = k[n][j] => i = j
           T == {n \in 0..N : Apart(n)}
<1>1. /\ N \in Nat
      /\ k[0] = << >>
      /\ \A n \in 0..N : k[n] \in Seq(U) /\ Len(k[n]) \in Nat
      /\ \A n \in 1..N : k[n] = IF s[n] \in S THEN Append(k[n - 1], s[n]) ELSE k[n - 1]
      /\ \A n \in 1..N : s[n] \in U
  BY KeptSteps, ElementOfSeq
<1>2. \A n \in 0..N : \A j \in 1..Len(k[n]) : \E i \in 1..n : k[n][j] = s[i]
  BY KeptIsIn
<1>3. \A i, j \in 1..N : s[i] = s[j] => i = j
  OBVIOUS
<1> HIDE DEF k
<1>4. 0 \in T
  BY <1>1
<1>5. ASSUME NEW n \in 1..N, n - 1 \in T PROVE n \in T
  <2> DEFINE e == s[n]
             a == k[n - 1]
  <2>1. n - 1 \in 0..N /\ n \in 0..N /\ a \in Seq(U) /\ Len(a) \in Nat /\ e \in U
    BY <1>1
  <2>2. \A i, j \in 1..Len(a) : a[i] = a[j] => i = j
    BY <1>5
  <2>3. \A j \in 1..Len(a) : a[j] # e
    <3> SUFFICES ASSUME NEW j \in 1..Len(a), a[j] = e PROVE FALSE
      OBVIOUS
    <3>1. PICK i \in 1..(n - 1) : a[j] = s[i]
      BY <1>2, <2>1
    <3>2. i \in 1..N /\ i # n
      BY <1>1
    <3>3. QED
      BY <1>3, <3>1, <3>2
  <2>4. k[n] = IF e \in S THEN Append(a, e) ELSE a
    BY <1>1
  <2> HIDE DEF a, e
  <2>5. CASE k[n] = a
    BY <2>1, <2>2, <2>5
  <2>6. CASE k[n] = Append(a, e)
    <3>1. /\ Len(k[n]) = Len(a) + 1 /\ k[n][Len(a) + 1] = e
          /\ \A i \in 1..Len(a) : k[n][i] = a[i]
      BY <2>1, <2>6, AppendProperties
    <3>2. \A i \in 1..Len(k[n]) : i \in 1..Len(a) \/ i = Len(a) + 1
      BY <2>1, <3>1
    <3>3. Apart(n)
      BY <2>2, <2>3, <3>1, <3>2
    <3>4. QED
      BY <2>1, <3>3
  <2>7. QED
    BY <2>4, <2>5, <2>6
<1>6. \A n \in 1..N : n - 1 \in T => n \in T
  BY <1>5
<1>7. N \in T
  <2> HIDE DEF T, N
  <2>1. \A n \in 0..N : n \in T
    BY <1>1, <1>4, <1>6, UpTo
  <2>2. QED
    BY <1>1, <2>1
<1>8. QED
  BY <1>7 DEF Kept, k

\* When what is kept has no repetitions, no element that is kept comes twice.
LEMMA KeptTells ==
  ASSUME NEW U, NEW s \in Seq(U), NEW S,
         \A i, j \in 1..Len(Kept(s, S)) : Kept(s, S)[i] = Kept(s, S)[j] => i = j,
         NEW n \in 1..Len(s), NEW m \in 1..Len(s), n < m, s[n] \in S
  PROVE  s[n] # s[m]
<1> SUFFICES ASSUME s[n] = s[m] PROVE FALSE
  OBVIOUS
<1> DEFINE k == KeptAfter(s, S)
           N == Len(s)
<1>1. /\ n - 1 \in 0..N /\ m - 1 \in 0..N /\ n \in 0..N /\ n \in 0..(m - 1) /\ N \in Nat
      /\ s[m] \in S
  OBVIOUS
<1>2. Len(k[n - 1]) + 1 \in 1..Len(Kept(s, S)) /\ Kept(s, S)[Len(k[n - 1]) + 1] = s[n]
  BY KeptPlace
<1>3. Len(k[m - 1]) + 1 \in 1..Len(Kept(s, S)) /\ Kept(s, S)[Len(k[m - 1]) + 1] = s[m]
  BY <1>1, KeptPlace
<1>4. Len(k[n - 1]) + 1 = Len(k[m - 1]) + 1
  BY <1>2, <1>3
<1>5. Begins(k[n], k[m - 1])
  BY <1>1, KeptGrows
<1>6. /\ k \in [0..N -> Seq(U)]
      /\ k[n] = Append(k[n - 1], s[n]) /\ s[n] \in U
  BY KeptSteps, ElementOfSeq
<1> HIDE DEF k
<1>7. k[n - 1] \in Seq(U) /\ k[m - 1] \in Seq(U)
  BY <1>1, <1>6
<1>8. Len(k[n]) = Len(k[n - 1]) + 1 /\ Len(k[n - 1]) \in Nat /\ Len(k[m - 1]) \in Nat
  BY <1>6, <1>7, AppendProperties
<1>9. QED
  BY <1>4, <1>5, <1>8 DEF Begins

\* What is kept keeps its order: an element kept stands behind every element
\* kept that came before it in the list.
LEMMA KeptInOrder ==
  ASSUME NEW U, NEW s \in Seq(U), NEW S,
         \A i, j \in 1..Len(Kept(s, S)) : Kept(s, S)[i] = Kept(s, S)[j] => i = j,
         NEW n \in 1..Len(s), NEW m \in 1..Len(s), n < m, s[n] \in S,
         NEW l \in 1..Len(Kept(s, S)), Kept(s, S)[l] = s[m]
  PROVE  \E j \in 1..(l - 1) : Kept(s, S)[j] = s[n]
<1> DEFINE k == KeptAfter(s, S)
           N == Len(s)
<1>1. m - 1 \in 0..N /\ n \in 1..(m - 1) /\ N \in Nat
  OBVIOUS
<1>2. s[m] \in S
  <2>1. PICK x \in 0..Len(s) : x = Len(s)
    OBVIOUS
  <2>2. Kept(s, S) = KeptAfter(s, S)[x]
    BY <2>1 DEF Kept
  <2>3. Kept(s, S)[l] \in S
    BY <2>2, KeptIsIn
  <2>4. QED
    BY <2>3
<1>3. Len(k[m - 1]) + 1 \in 1..Len(Kept(s, S)) /\ Kept(s, S)[Len(k[m - 1]) + 1] = s[m]
  BY <1>2, KeptPlace
<1>4. l = Len(k[m - 1]) + 1
  BY <1>3
<1>5. PICK j \in 1..Len(k[m - 1]) : k[m - 1][j] = s[n]
  BY <1>1, KeptHas
<1>6. Begins(k[m - 1], Kept(s, S))
  BY <1>1, KeptPrefix
<1>7. k[m - 1] \in Seq(U)
  BY <1>1, KeptSteps
<1> HIDE DEF k
<1>8. Len(k[m - 1]) \in Nat
  BY <1>7
<1>9. j \in 1..(l - 1) /\ Kept(s, S)[j] = s[n]
  BY <1>4, <1>5, <1>6, <1>8 DEF Begins
<1>10. QED
  BY <1>9

-----------------------------------------------------------------------------

\* A list between two elements.
LEMMA Enclosed ==
  ASSUME NEW U, NEW a \in U, NEW s \in Seq(U), NEW b \in U
  PROVE  LET n == Len(s)
             t == <<a>> \o s \o <<b>>
         IN  /\ t \in Seq(U) /\ Len(t) = n + 2
             /\ t[1] = a /\ t[n + 2] = b
             /\ \A i \in 1..n : t[i + 1] = s[i]
<1> DEFINE n == Len(s)
           oa == <<a>>
           os == oa \o s
           ob == <<b>>
           t == os \o ob
<1>1. n \in Nat /\ oa \in Seq(U) /\ Len(oa) = 1 /\ oa[1] = a /\ ob \in Seq(U) /\ Len(ob) = 1 /\ ob[1] = b
  OBVIOUS
<1> HIDE DEF oa, ob
<1>2. os \in Seq(U) /\ Len(os) = 1 + n
      /\ \A i \in 1..(1 + n) : os[i] = IF i <= 1 THEN oa[i] ELSE s[i - 1]
  BY <1>1, ConcatProperties
<1> HIDE DEF os
<1>3. t \in Seq(U) /\ Len(t) = (1 + n) + 1
      /\ \A i \in 1..((1 + n) + 1) : t[i] = IF i <= 1 + n THEN os[i] ELSE ob[i - (1 + n)]
  <2> DEFINE N == 1 + n
  <2>1. os \in Seq(U) /\ ob \in Seq(U) /\ Len(os) = N /\ Len(ob) = 1
    BY <1>1, <1>2
  <2> HIDE DEF N
  <2>2. /\ t \in Seq(U) /\ Len(t) = Len(os) + Len(ob)
        /\ \A i \in 1..(Len(os) + Len(ob)) : t[i] = IF i <= Len(os) THEN os[i] ELSE ob[i - Len(os)]
    BY <2>1, ConcatProperties
  <2> HIDE DEF t
  <2>3. t \in Seq(U) /\ Len(t) = N + 1 /\ \A i \in 1..(N + 1) : t[i] = IF i <= N THEN os[i] ELSE ob[i - N]
    BY <2>1, <2>2
  <2>4. QED
    BY <2>3 DEF N
<1> HIDE DEF t, n
<1>4. 1 \in 1..((1 + n) + 1) /\ n + 2 \in 1..((1 + n) + 1) /\ 1 <= 1 + n /\ ~(n + 2 <= 1 + n)
      /\ (n + 2) - (1 + n) = 1 /\ 1 \in 1..(1 + n)
  BY <1>1 DEF n
<1>5. t[1] = a /\ t[n + 2] = b
  BY <1>1, <1>2, <1>3, <1>4
<1>6. ASSUME NEW i \in 1..n PROVE t[i + 1] = s[i]
  <2>1. i + 1 \in 1..((1 + n) + 1) /\ i + 1 \in 1..(1 + n) /\ i + 1 <= 1 + n /\ ~(i + 1 <= 1) /\ (i + 1) - 1 = i
    BY <1>1 DEF n
  <2>2. QED
    BY <1>2, <1>3, <2>1
<1>7. t \in Seq(U) /\ Len(t) = n + 2
  BY <1>1, <1>3 DEF n
<1>8. QED
  BY <1>5, <1>6, <1>7 DEF t, n, os, oa, ob

\* The greatest of some numbers.
LEMMA GreatestIsOne ==
  ASSUME NEW n \in Nat, NEW T \in SUBSET (0..n), T # {}
  PROVE  \E x \in T : \A y \in T : x >= y
<1> DEFINE R == {n - x : x \in T}
<1>1. R \in SUBSET Nat /\ R # {}
  <2>1. \A x \in T : n - x \in Nat
    OBVIOUS
  <2>2. QED
    BY <2>1
<1> HIDE DEF R
<1>2. PICK z \in R : \A y \in R : z <= y
  BY <1>1, LeastNat
<1>3. PICK x \in T : z = n - x
  BY <1>2 DEF R
<1>4. \A y \in T : n - y \in R
  BY DEF R
<1>5. \A y \in T : x >= y
  BY <1>2, <1>3, <1>4
<1>6. QED
  BY <1>5

=============================================================================
