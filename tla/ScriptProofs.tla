---------------------------- MODULE ScriptProofs ----------------------------
(***************************************************************************)
(* Proofs about a script run by sh, for every program.  The calls and      *)
(* processes that sh has entered are those the blocks around its line ask  *)
(* for: every jump keeps to the blocks.  So a function returns to its call *)
(* with the return slot as it was, whatever the calls in between did.      *)
(***************************************************************************)
EXTENDS Scripts, ListProofs, FiniteSetTheorems

-----------------------------------------------------------------------------
(* Greatest members. *)

LEMMA MaxIs ==
  ASSUME NEW n \in Nat, NEW S \in SUBSET (0..n), S # {}
  PROVE  Max(S) \in S /\ \A x \in S : x <= Max(S)
<1> DEFINE T == {n - x : x \in S}
<1>1. T \in SUBSET Nat /\ T # {}
  <2>1. \A x \in S : x \in 0..n /\ n - x \in Nat
    OBVIOUS
  <2>2. QED
    BY <2>1
<1>2. PICK t \in T : \A y \in T : t <= y
  <2> HIDE DEF T
  <2>1. QED
    BY <1>1, LeastNat
<1>3. PICK m \in S : t = n - m
  BY <1>2
<1>4. \A x \in S : m >= x
  <2> SUFFICES ASSUME NEW x \in S PROVE m >= x
    OBVIOUS
  <2>1. n - m <= n - x
    BY <1>2, <1>3
  <2>2. QED
    BY <2>1
<1>5. Max(S) \in S /\ \A y \in S : Max(S) >= y
  BY <1>3, <1>4 DEF Max
<1>6. QED
  BY <1>5

LEMMA MinIs ==
  ASSUME NEW S \in SUBSET Nat, S # {}
  PROVE  Min(S) \in S /\ \A x \in S : Min(S) <= x
<1>1. PICK m \in S : \A y \in S : m <= y
  BY LeastNat
<1>2. QED
  BY <1>1 DEF Min

-----------------------------------------------------------------------------
(* How deep statement k of a program is in blocks, its own included.       *)

Depth(p, k) == Count(p, 1, k, Openers) - Count(p, 1, k, {"end"})

Gain(p, j, ops) == IF p[j].op \in ops THEN 1 ELSE 0

LEMMA CountSteps ==
  ASSUME NEW p, NEW i \in Nat \ {0}, NEW ops
  PROVE  /\ Count(p, i, i - 1, ops) = 0
         /\ \A j \in Nat : i <= j + 1 =>
              /\ Count(p, i, j, ops) \in Nat
              /\ Count(p, i, j + 1, ops) = Count(p, i, j, ops) + Gain(p, j + 1, ops)
<1> DEFINE K(j) == {k \in i..j : p[k].op \in ops}
<1>1. \A j \in Nat : IsFiniteSet(K(j)) /\ Cardinality(K(j)) \in Nat
  <2> SUFFICES ASSUME NEW j \in Nat PROVE IsFiniteSet(K(j)) /\ Cardinality(K(j)) \in Nat
    OBVIOUS
  <2>1. IsFiniteSet(i..j)
    BY FS_Interval
  <2>2. K(j) \subseteq i..j
    OBVIOUS
  <2>3. QED
    BY <2>1, <2>2, FS_Subset, FS_CardinalityType
<1>2. ASSUME NEW j \in Nat, i <= j + 1
      PROVE  Cardinality(K(j + 1)) = Cardinality(K(j)) + Gain(p, j + 1, ops)
  <2>1. i..(j + 1) = (i..j) \cup {j + 1}
    BY <1>2
  <2>2. CASE p[j + 1].op \in ops
    <3>1. K(j + 1) = K(j) \cup {j + 1} /\ j + 1 \notin K(j)
      BY <2>1, <2>2
    <3>2. QED
      BY <1>1, <2>2, <3>1, FS_AddElement DEF Gain
  <2>3. CASE p[j + 1].op \notin ops
    <3>1. K(j + 1) = K(j)
      BY <2>1, <2>3
    <3>2. Gain(p, j + 1, ops) = 0 /\ Cardinality(K(j)) \in Nat
      BY <1>1, <2>3 DEF Gain
    <3> HIDE DEF K
    <3>3. QED
      BY <3>1, <3>2
  <2>4. QED
    BY <2>2, <2>3
<1>3. K(i - 1) = {}
  OBVIOUS
<1>4. Count(p, i, i - 1, ops) = 0
  BY <1>3, FS_EmptySet DEF Count
<1>5. QED
  BY <1>1, <1>2, <1>4 DEF Count

\* Counts from b on are differences of counts from the beginning.
LEMMA CountFrom ==
  ASSUME NEW p, NEW b \in Nat \ {0}, NEW n \in Nat, b <= n + 1, NEW ops
  PROVE  \A k \in (b - 1)..n : Count(p, b, k, ops) = Count(p, 1, k, ops) - Count(p, 1, b - 1, ops)
<1> DEFINE C(i, j) == Count(p, i, j, ops)
           T == {t \in 0..(n + 1 - b) : C(b, b - 1 + t) = C(1, b - 1 + t) - C(1, b - 1)}
           m == n + 1 - b
<1>1. m \in Nat
  OBVIOUS
<1>2. /\ C(b, b - 1) = 0
      /\ \A j \in Nat : b <= j + 1 => C(b, j) \in Nat /\ C(b, j + 1) = C(b, j) + Gain(p, j + 1, ops)
  BY CountSteps
<1>3. \A j \in Nat : C(1, j) \in Nat /\ C(1, j + 1) = C(1, j) + Gain(p, j + 1, ops)
  BY CountSteps
<1> HIDE DEF C
<1>4. 0 \in T
  <2>1. b - 1 + 0 = b - 1 /\ b - 1 \in Nat
    OBVIOUS
  <2>2. QED
    BY <1>1, <1>2, <1>3, <2>1
<1>5. ASSUME NEW t \in 1..m, t - 1 \in T PROVE t \in T
  <2> DEFINE j == b - 1 + (t - 1)
  <2>1. j \in Nat /\ b <= j + 1 /\ j + 1 = b - 1 + t /\ t \in 0..m
    OBVIOUS
  <2>2. C(b, j) = C(1, j) - C(1, b - 1)
    BY <1>5
  <2> HIDE DEF j
  <2>3. C(b, j + 1) = C(1, j + 1) - C(1, b - 1)
    <3>1. C(1, b - 1) \in Nat
      BY <1>3
    <3>2. Gain(p, j + 1, ops) \in {0, 1} /\ C(1, j) \in Nat
      BY <1>3, <2>1 DEF Gain
    <3>3. QED
      BY <1>2, <1>3, <2>1, <2>2, <3>1, <3>2
  <2>4. QED
    BY <2>1, <2>3
<1>6. \A t \in 0..m : t \in T
  <2> HIDE DEF T, m
  <2>1. QED
    BY <1>1, <1>4, <1>5, UpTo
<1>7. ASSUME NEW k \in (b - 1)..n PROVE C(b, k) = C(1, k) - C(1, b - 1)
  <2>1. k - (b - 1) \in 0..m /\ b - 1 + (k - (b - 1)) = k
    OBVIOUS
  <2>2. QED
    BY <1>6, <2>1
<1>8. QED
  BY <1>7 DEF C

IsText(p) == Len(p) \in Nat /\ DOMAIN p = 1..Len(p)

LEMMA DepthSteps ==
  ASSUME NEW p, IsText(p), Closed(p)
  PROVE  /\ Depth(p, 0) = 0 /\ Depth(p, Len(p)) = 0
         /\ \A k \in 0..Len(p) : Depth(p, k) \in Nat
         /\ \A k \in 1..Len(p) :
              /\ p[k].op \in Openers => Depth(p, k) = Depth(p, k - 1) + 1
              /\ p[k].op = "end" => Depth(p, k) = Depth(p, k - 1) - 1
              /\ p[k].op \notin Openers \cup {"end"} => Depth(p, k) = Depth(p, k - 1)
<1> DEFINE O(k) == Count(p, 1, k, Openers)
           E(k) == Count(p, 1, k, {"end"})
<1>1. /\ O(0) = 0
      /\ \A j \in Nat : O(j) \in Nat /\ O(j + 1) = O(j) + Gain(p, j + 1, Openers)
  BY CountSteps
<1>2. /\ E(0) = 0
      /\ \A j \in Nat : E(j) \in Nat /\ E(j + 1) = E(j) + Gain(p, j + 1, {"end"})
  BY CountSteps
<1>3. O(Len(p)) = E(Len(p)) /\ \A k \in 1..Len(p) : O(k) >= E(k)
  BY DEF Closed, IsText
<1>4. \A k : Depth(p, k) = O(k) - E(k)
  BY DEF Depth
<1> HIDE DEF O, E
<1>5. \A k \in 0..Len(p) : O(k) >= E(k)
  BY <1>1, <1>2, <1>3 DEF IsText
<1>6. ASSUME NEW k \in 1..Len(p)
      PROVE  Depth(p, k) = Depth(p, k - 1) + Gain(p, k, Openers) - Gain(p, k, {"end"})
  <2>1. k - 1 \in Nat /\ (k - 1) + 1 = k
    OBVIOUS
  <2>2. /\ O(k) = O(k - 1) + Gain(p, k, Openers) /\ E(k) = E(k - 1) + Gain(p, k, {"end"})
        /\ O(k - 1) \in Nat /\ E(k - 1) \in Nat
    BY <1>1, <1>2, <2>1
  <2>3. Gain(p, k, Openers) \in {0, 1} /\ Gain(p, k, {"end"}) \in {0, 1}
    BY DEF Gain
  <2>4. QED
    BY <1>4, <2>2, <2>3
<1>7. \A k \in 0..Len(p) : Depth(p, k) \in Nat
  <2> SUFFICES ASSUME NEW k \in 0..Len(p) PROVE Depth(p, k) \in Nat
    OBVIOUS
  <2>1. O(k) \in Nat /\ E(k) \in Nat /\ O(k) >= E(k)
    BY <1>1, <1>2, <1>5 DEF IsText
  <2>2. QED
    BY <1>4, <2>1
<1>8. Depth(p, 0) = 0 /\ Depth(p, Len(p)) = 0
  BY <1>1, <1>2, <1>3, <1>4 DEF IsText
<1>9. ASSUME NEW k \in 1..Len(p)
      PROVE  /\ p[k].op \in Openers => Depth(p, k) = Depth(p, k - 1) + 1
             /\ p[k].op = "end" => Depth(p, k) = Depth(p, k - 1) - 1
             /\ p[k].op \notin Openers \cup {"end"} => Depth(p, k) = Depth(p, k - 1)
  <2>1. Depth(p, k - 1) \in Nat
    BY <1>7, <1>9 DEF IsText
  <2>2. "end" \notin Openers
    BY DEF Openers
  <2>3. p[k].op \in Openers => Gain(p, k, Openers) = 1 /\ Gain(p, k, {"end"}) = 0
    BY <2>2 DEF Gain
  <2>4. p[k].op = "end" => Gain(p, k, Openers) = 0 /\ Gain(p, k, {"end"}) = 1
    BY <2>2 DEF Gain
  <2>5. p[k].op \notin Openers \cup {"end"} => Gain(p, k, Openers) = 0 /\ Gain(p, k, {"end"}) = 0
    BY DEF Gain
  <2>6. QED
    BY <1>6, <2>1, <2>3, <2>4, <2>5
<1>10. QED
  BY <1>7, <1>8, <1>9

\* Statement c ends the block that b opens.
Closes(p, b, c) ==
  /\ c \in (b + 1)..Len(p)
  /\ p[c].op = "end"
  /\ Depth(p, c) = Depth(p, b - 1)
  /\ \A k \in b..(c - 1) : Depth(p, k) > Depth(p, b - 1)

LEMMA CloseIsThat ==
  ASSUME NEW p, IsText(p), Closed(p), NEW b \in 1..Len(p), NEW c, Closes(p, b, c)
  PROVE  Close(p, b) = c
<1> DEFINE O(k) == Count(p, b, k, Openers)
           E(k) == Count(p, b, k, {"end"})
           Ends(j) == /\ O(j) = E(j)
                      /\ \A k \in (b + 1)..(j - 1) : O(k) # E(k)
<1>1. Close(p, b) = CHOOSE j \in (b + 1)..Len(p) : Ends(j)
  BY DEF Close
<1>2. \A k \in b..Len(p) : O(k) = E(k) <=> Depth(p, k) = Depth(p, b - 1)
  <2> SUFFICES ASSUME NEW k \in b..Len(p) PROVE O(k) = E(k) <=> Depth(p, k) = Depth(p, b - 1)
    OBVIOUS
  <2>1. b \in Nat \ {0} /\ k \in Nat /\ b <= k + 1 /\ k \in (b - 1)..k /\ b - 1 \in Nat
    BY DEF IsText
  <2>2. /\ O(k) = Count(p, 1, k, Openers) - Count(p, 1, b - 1, Openers)
        /\ E(k) = Count(p, 1, k, {"end"}) - Count(p, 1, b - 1, {"end"})
    <3>1. ASSUME NEW ops PROVE Count(p, b, k, ops) = Count(p, 1, k, ops) - Count(p, 1, b - 1, ops)
      BY <2>1, CountFrom
    <3>2. QED
      BY <3>1
  <2>3. \A j \in Nat : \A ops : Count(p, 1, j, ops) \in Nat
    BY CountSteps
  <2>4. /\ Count(p, 1, k, Openers) \in Nat /\ Count(p, 1, b - 1, Openers) \in Nat
        /\ Count(p, 1, k, {"end"}) \in Nat /\ Count(p, 1, b - 1, {"end"}) \in Nat
    BY <2>1, <2>3
  <2> HIDE DEF O, E
  <2>5. QED
    BY <2>2, <2>4 DEF Depth
<1>3. \A k \in 0..Len(p) : Depth(p, k) \in Nat
  BY DepthSteps
<1> HIDE DEF O, E
<1>4. c \in (b + 1)..Len(p) /\ Ends(c)
  BY <1>2, <1>3 DEF Closes, IsText
<1>5. \A j \in (b + 1)..Len(p) : Ends(j) => j = c
  <2> SUFFICES ASSUME NEW j \in (b + 1)..Len(p), Ends(j), j # c PROVE FALSE
    OBVIOUS
  <2>1. j \in (b + 1)..(c - 1) \/ c \in (b + 1)..(j - 1)
    BY <1>4 DEF IsText
  <2>2. QED
    BY <1>4, <2>1
<1> HIDE DEF Ends
<1>6. QED
  BY <1>1, <1>4, <1>5

LEMMA CloseIs ==
  ASSUME NEW p, IsText(p), Closed(p), NEW b \in 1..Len(p), p[b].op \in Openers
  PROVE  Closes(p, b, Close(p, b))
<1> DEFINE D(k) == Depth(p, k)
           T == {j \in (b + 1)..Len(p) : D(j) <= D(b - 1)}
<1>1. /\ D(Len(p)) = 0 /\ \A k \in 0..Len(p) : D(k) \in Nat
      /\ \A k \in 1..Len(p) :
              /\ p[k].op \in Openers => D(k) = D(k - 1) + 1
              /\ p[k].op = "end" => D(k) = D(k - 1) - 1
              /\ p[k].op \notin Openers \cup {"end"} => D(k) = D(k - 1)
  BY DepthSteps
<1> HIDE DEF D
<1>2. D(b) = D(b - 1) + 1 /\ D(b - 1) \in Nat
  BY <1>1 DEF IsText
<1>3. Len(p) \in T
  BY <1>1, <1>2 DEF IsText
<1>4. PICK c \in T : \A j \in T : c <= j
  <2>1. T \in SUBSET Nat
    BY DEF IsText
  <2> HIDE DEF T
  <2>2. QED
    BY <1>3, <2>1, LeastNat
<1>5. \A k \in b..(c - 1) : D(k) > D(b - 1)
  <2> SUFFICES ASSUME NEW k \in b..(c - 1) PROVE D(k) > D(b - 1)
    OBVIOUS
  <2>1. CASE k = b
    BY <1>2, <2>1
  <2>2. CASE k # b
    <3>1. k \in (b + 1)..Len(p) /\ k \notin T
      BY <1>4, <2>2 DEF IsText
    <3>2. D(k) \in Nat
      BY <1>1 DEF IsText
    <3>3. QED
      BY <1>2, <3>1, <3>2
  <2>3. QED
    BY <2>1, <2>2
<1>6. c \in 1..Len(p) /\ c - 1 \in b..(c - 1) /\ D(c - 1) > D(b - 1) /\ D(c) <= D(b - 1)
  BY <1>4, <1>5 DEF IsText
<1>7. D(c) \in Nat /\ D(c - 1) \in Nat
  BY <1>1, <1>6 DEF IsText
<1>8. p[c].op = "end" /\ D(c) = D(b - 1)
  BY <1>1, <1>2, <1>6, <1>7
<1>9. Closes(p, b, c)
  BY <1>4, <1>5, <1>8 DEF Closes, D
<1>10. QED
  BY <1>9, CloseIsThat

-----------------------------------------------------------------------------
(* Blocks lie within one another. *)

\* What is used of a program from here on.
Blocks(p) == IsText(p) /\ Closed(p)

\* b opens a block.
Opening(p, b) == b \in 1..Len(p) /\ p[b].op \in Openers

LEMMA CloseAfter ==
  ASSUME NEW p, Blocks(p), NEW b, Opening(p, b)
  PROVE  /\ Len(p) \in Nat /\ b \in 1..Len(p) /\ Close(p, b) \in 1..Len(p) /\ b < Close(p, b)
         /\ p[Close(p, b)].op = "end"
  BY CloseIs DEF Blocks, Opening, Closes, IsText

LEMMA Nested ==
  ASSUME NEW p, Blocks(p), NEW b, Opening(p, b), NEW c, Opening(p, c), b < c, c < Close(p, b)
  PROVE  Close(p, c) < Close(p, b)
<1> DEFINE D(k) == Depth(p, k)
           B == Close(p, b)
           C == Close(p, c)
<1>1. /\ \A k \in 0..Len(p) : D(k) \in Nat
      /\ b \in 1..Len(p) /\ c \in 1..Len(p) /\ Len(p) \in Nat
  BY DepthSteps DEF Blocks, Opening, IsText
<1>2. /\ B \in (b + 1)..Len(p) /\ D(B) = D(b - 1) /\ b < c /\ c < B
      /\ \A k \in b..(B - 1) : D(k) > D(b - 1)
  BY CloseIs DEF Blocks, Opening, Closes
<1>3. /\ C \in (c + 1)..Len(p) /\ D(C) = D(c - 1)
      /\ \A k \in c..(C - 1) : D(k) > D(c - 1)
  BY CloseIs DEF Blocks, Opening, Closes
<1> HIDE DEF D, B, C
<1>4. D(c - 1) > D(b - 1)
  BY <1>1, <1>2
<1>5. B \notin c..(C - 1) /\ B # C
  BY <1>1, <1>2, <1>3, <1>4
<1>6. C < B
  BY <1>1, <1>2, <1>3, <1>5
<1>7. QED
  BY <1>6 DEF B, C

LEMMA ClosesOne ==
  ASSUME NEW p, Blocks(p), NEW b, Opening(p, b), NEW c, Opening(p, c), Close(p, b) = Close(p, c)
  PROVE  b = c
<1>1. b < Close(p, b) /\ c < Close(p, c) /\ b \in Nat /\ c \in Nat /\ Close(p, b) \in Nat
  BY CloseAfter
<1>2. ~(b < c) /\ ~(c < b)
  BY <1>1, Nested
<1>3. QED
  BY <1>1, <1>2

\* Every end closes a block.
LEMMA EndIs ==
  ASSUME NEW p, Blocks(p), NEW i \in 1..Len(p), p[i].op = "end"
  PROVE  /\ Opening(p, Opener(p, i)) /\ Close(p, Opener(p, i)) = i
         /\ Opener(p, i) < i
<1> DEFINE D(k) == Depth(p, k)
           T == {m \in 0..(i - 1) : D(m) <= D(i)}
<1>1. /\ D(0) = 0 /\ \A k \in 0..Len(p) : D(k) \in Nat
      /\ \A k \in 1..Len(p) :
              /\ p[k].op \in Openers => D(k) = D(k - 1) + 1
              /\ p[k].op = "end" => D(k) = D(k - 1) - 1
              /\ p[k].op \notin Openers \cup {"end"} => D(k) = D(k - 1)
  BY DepthSteps DEF Blocks
<1> HIDE DEF D
<1>2. D(i - 1) = D(i) + 1 /\ D(i) \in Nat /\ Len(p) \in Nat
  BY <1>1 DEF Blocks, IsText
<1>3. 0 \in T
  BY <1>1, <1>2
<1>4. PICK m \in T : \A k \in T : k <= m
  <2>1. T \in SUBSET (0..(i - 1)) /\ i - 1 \in Nat
    OBVIOUS
  <2> HIDE DEF T
  <2>2. QED
    BY <1>3, <2>1, MaxIs
<1>5. m \in 0..(i - 1) /\ D(m) <= D(i) /\ m # i - 1
  BY <1>1, <1>2, <1>4
<1> DEFINE b == m + 1
<1>6. b \in 1..(i - 1) /\ b - 1 = m /\ i \in (b + 1)..Len(p) /\ b \in 1..Len(p)
  BY <1>2, <1>5
<1>7. \A k \in b..(i - 1) : D(k) > D(i)
  <2> SUFFICES ASSUME NEW k \in b..(i - 1) PROVE D(k) > D(i)
    OBVIOUS
  <2>1. k \in 0..(i - 1) /\ ~(k <= m) /\ D(k) \in Nat
    BY <1>1, <1>2, <1>5
  <2>2. QED
    BY <1>2, <1>4, <2>1
<1>8. p[b].op \in Openers /\ D(b - 1) = D(i)
  <2>1. D(b) > D(i) /\ D(b - 1) <= D(i) /\ D(b) \in Nat /\ D(b - 1) \in Nat
    BY <1>1, <1>2, <1>5, <1>6, <1>7
  <2>2. QED
    BY <1>1, <1>2, <1>6, <2>1
<1> HIDE DEF b
<1>9. Closes(p, b, i) /\ Opening(p, b)
  BY <1>6, <1>7, <1>8 DEF Closes, Opening, D
<1>10. Close(p, b) = i
  BY <1>6, <1>9, CloseIsThat DEF Blocks
<1>11. Opener(p, i) = CHOOSE x \in 1..(i - 1) : p[x].op \in Openers /\ Close(p, x) = i
  BY DEF Opener
<1>12. Opener(p, i) \in 1..(i - 1) /\ p[Opener(p, i)].op \in Openers /\ Close(p, Opener(p, i)) = i
  BY <1>6, <1>8, <1>10, <1>11
<1>13. QED
  BY <1>2, <1>12 DEF Opening

LEMMA OpenerIs ==
  ASSUME NEW p, Blocks(p), NEW b, Opening(p, b)
  PROVE  Opener(p, Close(p, b)) = b
<1>1. Close(p, b) \in 1..Len(p) /\ p[Close(p, b)].op = "end"
  BY CloseAfter
<1>2. Opening(p, Opener(p, Close(p, b))) /\ Close(p, Opener(p, Close(p, b))) = Close(p, b)
  BY <1>1, EndIs
<1>3. QED
  BY <1>2, ClosesOne

LEMMA AroundIs ==
  ASSUME NEW p, Blocks(p), NEW i \in 1..(Len(p) + 1)
  PROVE  /\ \A b : b \in Around(p, i) <=> Opening(p, b) /\ b < i /\ i < Close(p, b)
         /\ Around(p, i) \in SUBSET (1..(i - 1))
         /\ Block(p, i) \in Around(p, i) \cup {0}
         /\ \A b \in Around(p, i) : b <= Block(p, i)
<1>1. Len(p) \in Nat
  BY DEF Blocks, IsText
<1>2. \A b : b \in Around(p, i) <=> Opening(p, b) /\ b < i /\ i < Close(p, b)
  BY <1>1 DEF Around, Opening
<1>3. Around(p, i) \in SUBSET (1..(i - 1))
  BY DEF Around
<1>4. Around(p, i) \cup {0} \in SUBSET (0..i) /\ Around(p, i) \cup {0} # {} /\ i \in Nat
  BY <1>3
<1>5. Max(Around(p, i) \cup {0}) \in Around(p, i) \cup {0}
      /\ \A b \in Around(p, i) \cup {0} : b <= Max(Around(p, i) \cup {0})
  BY <1>4, MaxIs
<1>6. QED
  BY <1>2, <1>3, <1>5 DEF Block

LEMMA LoopAroundIs ==
  ASSUME NEW p, Blocks(p), NEW i \in 1..Len(p), \E b \in Around(p, i) : p[b].op \in Loops
  PROVE  /\ LoopAround(p, i) \in Around(p, i) /\ p[LoopAround(p, i)].op \in Loops
         /\ \A b \in Around(p, i) : p[b].op \in Loops => b <= LoopAround(p, i)
<1> DEFINE T == {b \in Around(p, i) : p[b].op \in Loops}
<1>1. i \in 1..(Len(p) + 1) /\ i \in Nat
  BY DEF Blocks, IsText
<1>2. Around(p, i) \in SUBSET (1..(i - 1))
  BY <1>1, AroundIs
<1>3. T \in SUBSET (0..i) /\ T # {}
  BY <1>2
<1> HIDE DEF T
<1>4. Max(T) \in T /\ \A b \in T : b <= Max(T)
  BY <1>1, <1>3, MaxIs
<1>5. LoopAround(p, i) = Max(T)
  BY DEF LoopAround, T
<1>6. QED
  BY <1>4, <1>5 DEF T

-----------------------------------------------------------------------------
(* The statements run within a call or a process. *)

\* Programs whose jumps keep to the blocks.
Structured(p) ==
  /\ Blocks(p) /\ ElsesOk(p) /\ FunctionsOk(p) /\ LoopsOk(p)
  /\ NoReturnInside(p) /\ CalledAfter(p)

\* What sh enters at b goes up to here: the catch of a try is outside again.
Shut(p, b) == IF p[b].op = "try" THEN Max(ElseOf(p, b)) ELSE Close(p, b)

\* Statement i runs within what is entered at b.
Holds(p, b, i) == Opening(p, b) /\ p[b].op \in {"fn", "each", "try"} /\ b < i /\ i <= Shut(p, b)

LEMMA WordsApart ==
  /\ "end" \notin Openers /\ "else" \notin Openers /\ "return" \notin Openers
  /\ "break" \notin Openers /\ "continue" \notin Openers
  /\ Loops \subseteq Openers /\ {"if", "try", "fn", "each"} \subseteq Openers
  BY DEF Openers, Loops

LEMMA ElseIs ==
  ASSUME NEW p, Structured(p), NEW j \in 1..Len(p), p[j].op = "else", NEW b, b = Block(p, j)
  PROVE  /\ Opening(p, b) /\ p[b].op \in {"if", "try"} /\ b < j /\ j < Close(p, b)
         /\ Otherwise(p, b) = j + 1
         /\ p[b].op = "try" => Shut(p, b) = j
<1>1. Blocks(p) /\ Len(p) \in Nat /\ DOMAIN p = 1..Len(p)
  BY DEF Structured, Blocks, IsText
<1>2. b # 0 /\ p[b].op \in {"if", "try"} /\ ElseOf(p, b) = {j}
  BY <1>1 DEF Structured, ElsesOk
<1>3. b \in Around(p, j) /\ Opening(p, b) /\ b < j /\ j < Close(p, b)
  BY <1>1, <1>2, AroundIs
<1>4. Max(ElseOf(p, b)) = j
  BY <1>2 DEF Max
<1>5. QED
  BY <1>2, <1>3, <1>4 DEF Otherwise, Shut

LEMMA TryIs ==
  ASSUME NEW p, Structured(p), NEW b, Opening(p, b), p[b].op = "try"
  PROVE  /\ Shut(p, b) \in 1..Len(p) /\ p[Shut(p, b)].op = "else" /\ Block(p, Shut(p, b)) = b
         /\ b < Shut(p, b) /\ Shut(p, b) < Close(p, b)
<1>1. Blocks(p) /\ Len(p) \in Nat /\ DOMAIN p = 1..Len(p)
  BY DEF Structured, Blocks, IsText
<1>2. b \in 1..Len(p) /\ Close(p, b) \in 1..Len(p) /\ b < Close(p, b)
  BY <1>1, CloseAfter
<1>3. ElseOf(p, b) # {}
  BY <1>1, <1>2 DEF Structured, ElsesOk
<1>4. PICK j \in (b + 1)..Close(p, b) : p[j].op = "else" /\ Block(p, j) = b
  BY <1>3 DEF ElseOf
<1>5. j \in 1..Len(p)
  BY <1>2, <1>4
<1>6. QED
  BY <1>4, <1>5, ElseIs

LEMMA ShutIs ==
  ASSUME NEW p, Structured(p), NEW b, Opening(p, b)
  PROVE  /\ b \in 1..Len(p) /\ Shut(p, b) \in 1..Len(p) /\ b < Shut(p, b)
         /\ Close(p, b) \in 1..Len(p) /\ Shut(p, b) <= Close(p, b)
         /\ p[Shut(p, b)].op \in {"end", "else"} /\ p[Close(p, b)].op = "end"
<1>1. /\ Len(p) \in Nat /\ b \in 1..Len(p) /\ Close(p, b) \in 1..Len(p) /\ b < Close(p, b)
      /\ p[Close(p, b)].op = "end"
  BY CloseAfter DEF Structured
<1>2. CASE p[b].op = "try"
  BY <1>1, <1>2, TryIs
<1>3. CASE p[b].op # "try"
  BY <1>1, <1>3 DEF Shut
<1>4. QED
  BY <1>2, <1>3

\* A block that begins within what is entered at b ends there.
LEMMA HeldToTheEnd ==
  ASSUME NEW p, Structured(p), NEW b, NEW c, Holds(p, b, c), Opening(p, c)
  PROVE  Close(p, c) < Shut(p, b)
<1>1. /\ Opening(p, b) /\ b < c /\ c <= Shut(p, b) /\ Blocks(p)
  BY DEF Holds, Structured
<1>2. /\ b \in 1..Len(p) /\ Shut(p, b) \in 1..Len(p) /\ p[Shut(p, b)].op \in {"end", "else"}
      /\ c \in 1..Len(p) /\ Close(p, c) \in 1..Len(p) /\ p[Close(p, c)].op = "end"
      /\ c < Close(p, c) /\ Len(p) \in Nat
  BY <1>1, ShutIs, CloseAfter
<1>3. c # Shut(p, b)
  BY <1>2, WordsApart DEF Opening
<1>4. c < Shut(p, b)
  BY <1>1, <1>2, <1>3
<1>5. CASE p[b].op # "try"
  <2>1. Shut(p, b) = Close(p, b)
    BY <1>5 DEF Shut
  <2>2. QED
    BY <1>1, <1>4, <2>1, Nested
<1>6. CASE p[b].op = "try"
  <2>1. p[Shut(p, b)].op = "else" /\ Block(p, Shut(p, b)) = b
    BY <1>1, <1>6, TryIs
  <2>2. SUFFICES ASSUME ~(Close(p, c) < Shut(p, b)) PROVE FALSE
    OBVIOUS
  <2>3. Shut(p, b) < Close(p, c)
    BY <1>2, <2>1, <2>2
  <2>4. Shut(p, b) \in 1..(Len(p) + 1)
    BY <1>2
  <2>5. c \in Around(p, Shut(p, b))
    BY <1>1, <1>4, <2>3, <2>4, AroundIs
  <2>6. c <= b
    BY <1>1, <2>1, <2>4, <2>5, AroundIs
  <2>7. QED
    BY <1>1, <1>2, <2>6
<1>7. QED
  BY <1>5, <1>6

\* Statement j is in block c, or follows it, and in none within c.
LEMMA HeldAsBlock ==
  ASSUME NEW p, Structured(p), NEW c, Opening(p, c), NEW j \in (c + 1)..(Close(p, c) + 1),
         \A d : Opening(p, d) /\ c < d /\ d < j => Close(p, d) < j,
         NEW b, b # c
  PROVE  Holds(p, b, j) <=> Holds(p, b, c)
<1>1. c \in 1..Len(p) /\ Close(p, c) \in 1..Len(p) /\ Len(p) \in Nat /\ j \in Nat /\ c < j
  BY CloseAfter DEF Structured
<1>2. ASSUME Holds(p, b, c) PROVE Holds(p, b, j)
  <2>1. Close(p, c) < Shut(p, b) /\ Opening(p, b) /\ b < c
    BY <1>2, HeldToTheEnd DEF Holds
  <2>2. b \in 1..Len(p) /\ Shut(p, b) \in 1..Len(p)
    BY <2>1, ShutIs
  <2>3. QED
    BY <1>1, <1>2, <2>1, <2>2 DEF Holds
<1>3. ASSUME Holds(p, b, j) PROVE Holds(p, b, c)
  <2>1. Opening(p, b) /\ b < j /\ j <= Shut(p, b)
    BY <1>3 DEF Holds
  <2>2. /\ b \in 1..Len(p) /\ Shut(p, b) \in 1..Len(p) /\ Close(p, b) \in 1..Len(p)
        /\ Shut(p, b) <= Close(p, b)
    BY <2>1, ShutIs
  <2>3. ~(c < b)
    BY <1>1, <2>1, <2>2
  <2>4. b < c /\ c <= Shut(p, b)
    BY <1>1, <2>1, <2>2, <2>3
  <2>5. QED
    BY <1>3, <2>4 DEF Holds
<1>4. QED
  BY <1>2, <1>3

\* Where what holds statement i is what holds statement j, and no more.
Same(p, i, j) == \A b : Holds(p, b, i) <=> Holds(p, b, j)

LEMMA HeldFirst ==
  ASSUME NEW p, Structured(p), NEW c, Opening(p, c)
  PROVE  \A b : b # c => (Holds(p, b, c + 1) <=> Holds(p, b, c))
<1>1. c \in Nat /\ Close(p, c) \in Nat /\ c < Close(p, c)
  BY CloseAfter DEF Structured
<1>2. c + 1 \in (c + 1)..(Close(p, c) + 1)
  BY <1>1
<1>3. \A d : ~(Opening(p, d) /\ c < d /\ d < c + 1)
  BY <1>1 DEF Opening
<1>4. QED
  BY <1>2, <1>3, HeldAsBlock

LEMMA HeldLast ==
  ASSUME NEW p, Structured(p), NEW c, Opening(p, c)
  PROVE  /\ \A b : b # c => (Holds(p, b, Close(p, c)) <=> Holds(p, b, c))
         /\ Same(p, c, Close(p, c) + 1)
<1>1. c \in Nat /\ Close(p, c) \in Nat /\ c < Close(p, c) /\ p[Close(p, c)].op = "end" /\ Blocks(p)
  BY CloseAfter DEF Structured
<1>2. \A d : Opening(p, d) /\ c < d /\ d < Close(p, c) + 1 => d < Close(p, c) /\ Close(p, d) < Close(p, c)
  <2> SUFFICES ASSUME NEW d, Opening(p, d), c < d, d < Close(p, c) + 1
               PROVE  d < Close(p, c) /\ Close(p, d) < Close(p, c)
    OBVIOUS
  <2>1. d # Close(p, c) /\ d \in Nat
    BY <1>1, WordsApart DEF Opening
  <2>2. d < Close(p, c)
    BY <1>1, <2>1
  <2>3. QED
    BY <1>1, <2>2, Nested
<1>3. \A d : Opening(p, d) => d \in Nat /\ Close(p, d) \in Nat
  BY <1>1, CloseAfter
<1>4. \A d : Opening(p, d) /\ c < d /\ d < Close(p, c) => Close(p, d) < Close(p, c)
  BY <1>1, <1>2, <1>3
<1>5. \A d : Opening(p, d) /\ c < d /\ d < Close(p, c) + 1 => Close(p, d) < Close(p, c) + 1
  BY <1>1, <1>2, <1>3
<1>6. /\ Close(p, c) \in (c + 1)..(Close(p, c) + 1)
      /\ Close(p, c) + 1 \in (c + 1)..(Close(p, c) + 1)
  BY <1>1
<1>7. \A b : b # c => (Holds(p, b, Close(p, c)) <=> Holds(p, b, c))
  BY <1>4, <1>6, HeldAsBlock
<1>8. \A b : b # c => (Holds(p, b, Close(p, c) + 1) <=> Holds(p, b, c))
  BY <1>5, <1>6, HeldAsBlock
<1>9. ~Holds(p, c, c) /\ ~Holds(p, c, Close(p, c) + 1)
  <2>1. Shut(p, c) <= Close(p, c) /\ Shut(p, c) \in Nat
    BY ShutIs
  <2>2. QED
    BY <1>1, <2>1 DEF Holds
<1>10. QED
  BY <1>7, <1>8, <1>9 DEF Same

LEMMA HeldElse ==
  ASSUME NEW p, Structured(p), NEW j \in 1..Len(p), p[j].op = "else", NEW c, c = Block(p, j)
  PROVE  \A b : b # c => /\ Holds(p, b, j) <=> Holds(p, b, c)
                         /\ Holds(p, b, j + 1) <=> Holds(p, b, c)
<1>1. /\ Opening(p, c) /\ c < j /\ j < Close(p, c) /\ Blocks(p)
  BY ElseIs DEF Structured
<1>2. c \in 1..Len(p) /\ Close(p, c) \in 1..Len(p) /\ Len(p) \in Nat /\ j \in Nat /\ j \in 1..(Len(p) + 1)
  BY <1>1, CloseAfter
<1>3. \A d : Opening(p, d) /\ c < d /\ d < j => Close(p, d) < j
  <2> SUFFICES ASSUME NEW d, Opening(p, d), c < d, d < j, ~(Close(p, d) < j) PROVE FALSE
    OBVIOUS
  <2>1. d \in 1..Len(p) /\ Close(p, d) \in 1..Len(p) /\ p[Close(p, d)].op = "end"
    BY <1>1, CloseAfter
  <2>2. j < Close(p, d)
    BY <1>2, <2>1
  <2>3. d \in Around(p, j)
    BY <1>1, <1>2, <2>2, AroundIs
  <2>4. d <= c
    BY <1>1, <1>2, <2>3, AroundIs
  <2>5. QED
    BY <1>2, <2>1, <2>4
<1>4. \A d : Opening(p, d) /\ c < d /\ d < j + 1 => Close(p, d) < j + 1
  <2> SUFFICES ASSUME NEW d, Opening(p, d), c < d, d < j + 1 PROVE Close(p, d) < j + 1
    OBVIOUS
  <2>1. d \in 1..Len(p) /\ Close(p, d) \in 1..Len(p) /\ d # j
    BY <1>1, CloseAfter, WordsApart DEF Opening
  <2>2. d < j
    BY <1>2, <2>1
  <2>3. Close(p, d) < j
    BY <1>3, <2>2
  <2>4. QED
    BY <1>2, <2>1, <2>3
<1>5. j \in (c + 1)..(Close(p, c) + 1) /\ j + 1 \in (c + 1)..(Close(p, c) + 1)
  BY <1>1, <1>2
<1>6. \A b : b # c => (Holds(p, b, j) <=> Holds(p, b, c))
  BY <1>1, <1>3, <1>5, HeldAsBlock
<1>7. \A b : b # c => (Holds(p, b, j + 1) <=> Holds(p, b, c))
  BY <1>1, <1>4, <1>5, HeldAsBlock
<1>8. QED
  BY <1>6, <1>7

\* A statement that is no block goes on to the next.
LEMMA HeldNext ==
  ASSUME NEW p, Structured(p), NEW i \in 1..Len(p),
         p[i].op \notin {"fn", "each", "try", "end", "else"}
  PROVE  Same(p, i, i + 1)
<1>1. ASSUME NEW b, Opening(p, b), p[b].op \in {"fn", "each", "try"}
      PROVE  b < i /\ i <= Shut(p, b) <=> b < i + 1 /\ i + 1 <= Shut(p, b)
  <2>1. b \in 1..Len(p) /\ Shut(p, b) \in 1..Len(p) /\ p[Shut(p, b)].op \in {"end", "else"}
    BY <1>1, ShutIs
  <2>2. i # b /\ i # Shut(p, b)
    BY <1>1, <2>1
  <2>3. QED
    BY <2>1, <2>2
<1>2. QED
  BY <1>1 DEF Same, Holds

\* Functions are written at the top.
LEMMA FnIs ==
  ASSUME NEW p, Structured(p), NEW f \in 1..Len(p), p[f].op = "fn"
  PROVE  /\ Opening(p, f) /\ Shut(p, f) = Close(p, f)
         /\ \A c : Opening(p, c) /\ c < f => Close(p, c) < f
         /\ \A b : ~Holds(p, b, f)
         /\ \A b : Holds(p, b, f + 1) <=> b = f
<1>1. Blocks(p) /\ Len(p) \in Nat /\ DOMAIN p = 1..Len(p) /\ f \in 1..(Len(p) + 1)
  BY DEF Structured, Blocks, IsText
<1>2. Block(p, f) = 0
  BY <1>1 DEF Structured, FunctionsOk
<1>3. Opening(p, f) /\ Shut(p, f) = Close(p, f)
  BY WordsApart DEF Opening, Shut
<1>4. ASSUME NEW c, Opening(p, c), c < f, ~(Close(p, c) < f) PROVE FALSE
  <2>1. c \in 1..Len(p) /\ Close(p, c) \in 1..Len(p) /\ p[Close(p, c)].op = "end"
    BY <1>1, <1>4, CloseAfter
  <2>2. f < Close(p, c)
    BY <1>4, <2>1
  <2>3. c \in Around(p, f)
    BY <1>1, <1>4, <2>2, AroundIs
  <2>4. c <= Block(p, f)
    BY <1>1, <2>3, AroundIs
  <2>5. QED
    BY <1>2, <2>1, <2>4
<1>5. ASSUME NEW b, Holds(p, b, f) PROVE FALSE
  <2>1. Opening(p, b) /\ b < f /\ f <= Shut(p, b)
    BY <1>5 DEF Holds
  <2>2. b \in 1..Len(p) /\ Shut(p, b) \in 1..Len(p) /\ Close(p, b) \in 1..Len(p) /\ Shut(p, b) <= Close(p, b)
    BY <2>1, ShutIs
  <2>3. Close(p, b) < f
    BY <1>4, <2>1
  <2>4. QED
    BY <2>1, <2>2, <2>3
<1>6. Holds(p, f, f + 1)
  <2>1. f \in 1..Len(p) /\ Shut(p, f) \in 1..Len(p) /\ f < Shut(p, f)
    BY <1>3, ShutIs
  <2>2. QED
    BY <1>3, <2>1 DEF Holds
<1>7. \A b : Holds(p, b, f + 1) <=> b = f
  BY <1>3, <1>5, <1>6, HeldFirst
<1>8. QED
  BY <1>3, <1>4, <1>5, <1>7

\* A break and a continue belong to a loop that is not left by the process
\* they are in, nor by the function.
LEMMA LoopIs ==
  ASSUME NEW p, Structured(p), NEW i \in 1..Len(p), p[i].op \in {"break", "continue"},
         NEW c, c = LoopAround(p, i)
  PROVE  /\ Opening(p, c) /\ p[c].op \in Loops /\ c < i /\ i < Close(p, c)
         /\ \A b : b # c => (Holds(p, b, i) <=> Holds(p, b, c))
<1>1. Blocks(p) /\ Len(p) \in Nat /\ DOMAIN p = 1..Len(p) /\ i \in 1..(Len(p) + 1)
  BY DEF Structured, Blocks, IsText
<1>2. \E b \in Around(p, i) : p[b].op \in Loops
  BY <1>1 DEF Structured, LoopsOk
<1>3. c \in Around(p, i) /\ p[c].op \in Loops
      /\ \A b \in Around(p, i) : p[b].op \in Loops => b <= c
  BY <1>1, <1>2, LoopAroundIs
<1>4. Opening(p, c) /\ c < i /\ i < Close(p, c)
  BY <1>1, <1>3, AroundIs
<1>5. c \in 1..Len(p) /\ Close(p, c) \in 1..Len(p)
  BY <1>1, <1>4, CloseAfter
<1>6. ASSUME NEW b, Holds(p, b, c) PROVE Holds(p, b, i)
  <2>1. Close(p, c) < Shut(p, b) /\ b < c /\ Opening(p, b)
    BY <1>4, <1>6, HeldToTheEnd DEF Holds
  <2>2. b \in 1..Len(p) /\ Shut(p, b) \in 1..Len(p)
    BY <2>1, ShutIs
  <2>3. QED
    BY <1>4, <1>5, <1>6, <2>1, <2>2 DEF Holds
<1>7. ASSUME NEW b, b # c, Holds(p, b, i) PROVE Holds(p, b, c)
  <2>1. Opening(p, b) /\ b < i /\ i <= Shut(p, b) /\ p[b].op \in {"fn", "each", "try"}
    BY <1>7 DEF Holds
  <2>2. /\ b \in 1..Len(p) /\ Shut(p, b) \in 1..Len(p) /\ Close(p, b) \in 1..Len(p)
        /\ Shut(p, b) <= Close(p, b) /\ p[Shut(p, b)].op \in {"end", "else"}
        /\ p[Close(p, b)].op = "end"
    BY <2>1, ShutIs
  <2>3. i # Shut(p, b) /\ i < Shut(p, b) /\ i < Close(p, b)
    BY <2>1, <2>2
  <2>4. b \in Around(p, i)
    BY <1>1, <2>1, <2>3, AroundIs
  <2>5. ~(c < b)
    <3> SUFFICES ASSUME c < b PROVE FALSE
      OBVIOUS
    <3>1. CASE p[b].op = "each"
      <4>1. b <= c
        BY <1>3, <2>4, <3>1 DEF Loops
      <4>2. QED
        BY <1>5, <2>2, <4>1
    <3>2. CASE p[b].op = "fn"
      <4>1. Close(p, c) < b
        BY <1>4, <2>2, <3>2, FnIs
      <4>2. QED
        BY <1>4, <1>5, <2>1, <2>2, <4>1
    <3>3. CASE p[b].op = "try"
      <4>1. Second(p, b, i)
        BY <1>1, <2>4, <3>3 DEF Structured, NoReturnInside
      <4>2. i > Shut(p, b)
        BY <3>3, <4>1 DEF Second, Shut
      <4>3. QED
        BY <2>2, <2>3, <4>2
    <3>4. QED
      BY <2>1, <3>1, <3>2, <3>3
  <2>6. b < c /\ c <= Shut(p, b)
    BY <1>4, <1>5, <1>7, <2>1, <2>2, <2>3, <2>5
  <2>7. QED
    BY <1>7, <2>6 DEF Holds
<1>8. QED
  BY <1>3, <1>4, <1>6, <1>7

\* A return leaves a function, and no process within it.
LEMMA ReturnIs ==
  ASSUME NEW p, Structured(p), NEW i \in 1..Len(p), p[i].op = "return"
  PROVE  \E f : p[f].op = "fn" /\ \A b : Holds(p, b, i) <=> b = f
<1>1. Blocks(p) /\ Len(p) \in Nat /\ DOMAIN p = 1..Len(p) /\ i \in 1..(Len(p) + 1)
  BY DEF Structured, Blocks, IsText
<1>2. PICK f \in Around(p, i) : p[f].op = "fn"
  BY <1>1 DEF Structured, FunctionsOk, Within
<1>3. Opening(p, f) /\ f < i /\ i < Close(p, f) /\ f \in 1..Len(p)
  BY <1>1, <1>2, AroundIs DEF Opening
<1>4. Holds(p, f, i)
  BY <1>2, <1>3, CloseAfter, <1>1 DEF Holds, Shut
<1>5. ASSUME NEW b, Holds(p, b, i) PROVE b = f
  <2>1. Opening(p, b) /\ b < i /\ i <= Shut(p, b) /\ p[b].op \in {"fn", "each", "try"}
    BY <1>5 DEF Holds
  <2>2. /\ b \in 1..Len(p) /\ Shut(p, b) \in 1..Len(p) /\ Close(p, b) \in 1..Len(p)
        /\ Shut(p, b) <= Close(p, b) /\ p[Shut(p, b)].op \in {"end", "else"}
    BY <2>1, ShutIs
  <2>3. i # Shut(p, b) /\ i < Shut(p, b) /\ i < Close(p, b)
    BY <2>1, <2>2
  <2>4. b \in Around(p, i)
    BY <1>1, <2>1, <2>3, AroundIs
  <2>5. p[b].op = "fn"
    <3>1. p[b].op # "each"
      BY <1>1, <2>4 DEF Structured, NoReturnInside
    <3>2. p[b].op # "try"
      BY <1>1, <2>4 DEF Structured, NoReturnInside
    <3>3. QED
      BY <2>1, <3>1, <3>2
  <2>6. ~(b < f) /\ ~(f < b)
    <3>1. b < f => Close(p, b) < f
      BY <1>2, <1>3, <2>1, FnIs
    <3>2. f < b => Close(p, f) < b
      BY <1>3, <2>2, <2>5, FnIs
    <3>3. Close(p, f) \in Nat
      BY <1>1, <1>3, CloseAfter
    <3>4. QED
      BY <1>3, <2>1, <2>2, <2>3, <3>1, <3>2, <3>3
  <2>7. QED
    BY <1>3, <2>2, <2>6
<1>6. QED
  BY <1>2, <1>4, <1>5

-----------------------------------------------------------------------------
(* Where sh is, and what it has entered. The program p and its lines ls do  *)
(* not change; s is a process, st a stack and i a line.                     *)

\* A line has the kind of its statement, and calls what it calls.
LinesOK(p, ls) ==
  /\ ls = [i \in DOMAIN p |-> ls[i]]
  /\ \A i \in DOMAIN p :
       /\ ls[i].op \in {"", p[i].op}
       /\ ls[i].e.k = "call" => Calls(p[i]) /\ ls[i].e.f = p[i].e.f

IsEntry(e) == e = [kind |-> e.kind, at |-> e.at, n |-> e.n, sh |-> e.sh]
IsStack(st) == Len(st) \in Nat /\ st \in Seq({st[k] : k \in 1..Len(st)})
IsProcess(p, s) ==
  /\ s = [vars |-> s.vars, fns |-> s.fns, slot |-> s.slot, olds |-> s.olds]
  /\ s.olds = [i \in DOMAIN p |-> s.olds[i]]

\* The function a call has entered, and whether e was entered at b.
Target(p, ls, e) == FnAt(p, ls[e.at].e.f)
EnteredAt(p, ls, e, b) ==
  IF p[b].op = "fn" THEN e.kind = "call" /\ Target(p, ls, e) = b
  ELSE e.kind = p[b].op /\ e.at = b

\* Line i is one that sh may be at with the first k entries of st: the last of
\* them is the innermost that holds i, and the last call entered a function
\* that holds i.
Reached(p, ls, st, i, k) ==
  /\ i \in 1..(Len(p) + 1)
  /\ \A b : Holds(p, b, i) /\ (\A c : Holds(p, c, i) => c <= b) =>
       k > 0 /\ EnteredAt(p, ls, st[k], b)
  /\ \A j \in 1..k : st[j].kind = "call" /\ (\A m \in (j + 1)..k : st[m].kind # "call") =>
       Holds(p, Target(p, ls, st[j]), i)

\* Entry j is a call that wants a value; v is the slot with the first k.
Wants(ls, st, j) == st[j].kind = "call" /\ ls[st[j].at].to # NoVar
SlotIs(ls, st, k, v) ==
  \/ v = NoVar /\ \A j \in 1..k : ~Wants(ls, st, j)
  \/ \E j \in 1..k : /\ Wants(ls, st, j) /\ v = ls[st[j].at].to
                     /\ \A m \in (j + 1)..k : ~Wants(ls, st, m)

\* Process s has the slot of the first k entries, and has put aside for each
\* call the slot from before it.
Fits(p, ls, st, s, k) ==
  /\ IsProcess(p, s)
  /\ SlotIs(ls, st, k, s.slot)
  /\ \A j \in 1..k : Wants(ls, st, j) => SlotIs(ls, st, j - 1, s.olds[st[j].at])

EntryOK(p, ls, st, k) ==
  /\ IsEntry(st[k]) /\ st[k].at \in 1..Len(p)
  /\ Reached(p, ls, st, st[k].at, k - 1)
  /\ \/ st[k].kind = "call" /\ ls[st[k].at].e.k = "call"
     \/ /\ st[k].kind \in {"each", "try"} /\ st[k].kind = p[st[k].at].op
        /\ Fits(p, ls, st, st[k].sh, k - 1)

\* Calls lead up in the text: what is entered after a call stands above it.
StackOK(p, ls, st) ==
  /\ IsStack(st)
  /\ \A k \in 1..Len(st) : EntryOK(p, ls, st, k)
  /\ \A j, k \in 1..Len(st) : j < k /\ st[j].kind = "call" => st[k].at < st[j].at

ShellOK(p, ls, st, s, i) ==
  /\ StackOK(p, ls, st)
  /\ Reached(p, ls, st, i, Len(st))
  /\ Fits(p, ls, st, s, Len(st))

-----------------------------------------------------------------------------
(* Stacks. *)

LEMMA StackShape ==
  ASSUME NEW st, NEW S, st \in Seq(S)
  PROVE  IsStack(st)
<1>1. Len(st) \in Nat /\ st \in [1..Len(st) -> S]
  BY LenProperties
<1>2. st \in [1..Len(st) -> {st[k] : k \in 1..Len(st)}]
  BY <1>1
<1>3. QED
  BY <1>1, <1>2, SeqDef DEF IsStack

LEMMA StackPush ==
  ASSUME NEW st, IsStack(st), NEW e
  PROVE  /\ IsStack(Append(st, e)) /\ Len(Append(st, e)) = Len(st) + 1
         /\ Append(st, e)[Len(st) + 1] = e
         /\ \A k \in 1..Len(st) : Append(st, e)[k] = st[k]
<1> DEFINE S == {st[k] : k \in 1..Len(st)} \cup {e}
<1>1. st \in Seq(S) /\ e \in S /\ Len(st) \in Nat
  <2>1. \A k \in 1..Len(st) : st[k] \in S
    OBVIOUS
  <2>2. Len(st) \in Nat /\ st \in [1..Len(st) -> {st[k] : k \in 1..Len(st)}]
    BY LenProperties DEF IsStack
  <2>3. st \in [1..Len(st) -> S]
    BY <2>1, <2>2
  <2>4. QED
    BY <2>2, <2>3, SeqDef
<1> HIDE DEF S
<1>2. /\ Append(st, e) \in Seq(S) /\ Len(Append(st, e)) = Len(st) + 1
      /\ \A k \in 1..Len(st) : Append(st, e)[k] = st[k]
      /\ Append(st, e)[Len(st) + 1] = e
  BY <1>1, AppendProperties
<1>3. QED
  BY <1>2, StackShape

LEMMA StackCut ==
  ASSUME NEW st, IsStack(st), NEW k \in 1..(Len(st) + 1)
  PROVE  /\ IsStack(SubSeq(st, 1, k - 1)) /\ Len(SubSeq(st, 1, k - 1)) = k - 1
         /\ \A j \in 1..(k - 1) : SubSeq(st, 1, k - 1)[j] = st[j]
<1> DEFINE S == {st[m] : m \in 1..Len(st)}
<1>1. st \in Seq(S) /\ Len(st) \in Nat
  BY DEF IsStack
<1> HIDE DEF S
<1>2. 1 \in 1..(Len(st) + 1) /\ k - 1 \in (1 - 1)..Len(st) /\ (k - 1) - 1 + 1 = k - 1
  BY <1>1
<1>3. /\ SubSeq(st, 1, k - 1) \in Seq(S)
      /\ Len(SubSeq(st, 1, k - 1)) = (IF 1 <= k - 1 THEN (k - 1) - 1 + 1 ELSE 0)
      /\ \A i \in 1..((k - 1) - 1 + 1) : SubSeq(st, 1, k - 1)[i] = st[1 + i - 1]
  BY <1>1, <1>2, SubSeqProperties
<1>4. Len(SubSeq(st, 1, k - 1)) = k - 1
  BY <1>2, <1>3
<1>5. \A j \in 1..(k - 1) : SubSeq(st, 1, k - 1)[j] = st[j]
  <2>1. \A j \in 1..(k - 1) : 1 + j - 1 = j /\ j \in 1..((k - 1) - 1 + 1)
    BY <1>2
  <2>2. QED
    BY <1>3, <2>1
<1>6. QED
  BY <1>3, <1>4, <1>5, StackShape

\* The first k entries of u are those of st but for how often a loop has run.
Like(st, u, k) ==
  \A j \in 1..k : IsEntry(u[j]) /\ u[j].kind = st[j].kind /\ u[j].at = st[j].at /\ u[j].sh = st[j].sh

LEMMA LikeSlot ==
  ASSUME NEW ls, NEW st, NEW u, NEW k \in Nat, Like(st, u, k), NEW m \in 0..k, NEW v, SlotIs(ls, st, m, v)
  PROVE  SlotIs(ls, u, m, v)
<1>1. \A j \in 1..m : j \in 1..k
  OBVIOUS
<1>2. \A j \in 1..m : (Wants(ls, u, j) <=> Wants(ls, st, j)) /\ u[j].at = st[j].at
  BY <1>1 DEF Like, Wants
<1>3. CASE v = NoVar /\ \A j \in 1..m : ~Wants(ls, st, j)
  BY <1>2, <1>3 DEF SlotIs
<1>4. CASE \E j \in 1..m : /\ Wants(ls, st, j) /\ v = ls[st[j].at].to
                           /\ \A l \in (j + 1)..m : ~Wants(ls, st, l)
  <2>1. PICK j \in 1..m : /\ Wants(ls, st, j) /\ v = ls[st[j].at].to
                          /\ \A l \in (j + 1)..m : ~Wants(ls, st, l)
    BY <1>4
  <2>2. \A l \in (j + 1)..m : l \in 1..m
    OBVIOUS
  <2>3. Wants(ls, u, j) /\ v = ls[u[j].at].to /\ \A l \in (j + 1)..m : ~Wants(ls, u, l)
    BY <1>2, <2>1, <2>2
  <2>4. QED
    BY <2>3 DEF SlotIs
<1>5. QED
  BY <1>3, <1>4 DEF SlotIs

LEMMA LikeFits ==
  ASSUME NEW p, NEW ls, NEW st, NEW u, NEW k \in Nat, Like(st, u, k), NEW m \in 0..k, NEW s, Fits(p, ls, st, s, m)
  PROVE  Fits(p, ls, u, s, m)
<1>1. IsProcess(p, s) /\ SlotIs(ls, u, m, s.slot)
  BY LikeSlot DEF Fits
<1>2. ASSUME NEW j \in 1..m, Wants(ls, u, j) PROVE SlotIs(ls, u, j - 1, s.olds[u[j].at])
  <2>1. j \in 1..k /\ j - 1 \in 0..k
    OBVIOUS
  <2>2. Wants(ls, st, j) /\ u[j].at = st[j].at
    BY <1>2, <2>1 DEF Like, Wants
  <2>3. SlotIs(ls, st, j - 1, s.olds[st[j].at])
    BY <2>2 DEF Fits
  <2>4. SlotIs(ls, u, j - 1, s.olds[st[j].at])
    BY <2>1, <2>3, LikeSlot
  <2>5. QED
    BY <2>2, <2>4
<1>3. QED
  BY <1>1, <1>2 DEF Fits

LEMMA LikeReached ==
  ASSUME NEW p, NEW ls, NEW st, NEW u, NEW k \in Nat, Like(st, u, k), NEW m \in 0..k, NEW i, Reached(p, ls, st, i, m)
  PROVE  Reached(p, ls, u, i, m)
<1>1. \A j \in 1..m : j \in 1..k
  OBVIOUS
<1>2. \A j \in 1..m : u[j].kind = st[j].kind /\ Target(p, ls, u[j]) = Target(p, ls, st[j])
  BY <1>1 DEF Like, Target
<1>3. ASSUME NEW b, Holds(p, b, i), \A c : Holds(p, c, i) => c <= b
      PROVE  m > 0 /\ EnteredAt(p, ls, u[m], b)
  <2>1. m > 0 /\ EnteredAt(p, ls, st[m], b)
    BY <1>3 DEF Reached
  <2>2. m \in 1..m /\ m \in 1..k
    BY <2>1
  <2>3. QED
    BY <1>2, <2>1, <2>2 DEF EnteredAt, Like
<1>4. ASSUME NEW j \in 1..m, u[j].kind = "call", \A l \in (j + 1)..m : u[l].kind # "call"
      PROVE  Holds(p, Target(p, ls, u[j]), i)
  <2>1. \A l \in (j + 1)..m : l \in 1..m
    OBVIOUS
  <2>2. st[j].kind = "call" /\ \A l \in (j + 1)..m : st[l].kind # "call"
    BY <1>2, <1>4, <2>1
  <2>3. QED
    BY <1>2, <2>2 DEF Reached
<1>5. QED
  BY <1>3, <1>4 DEF Reached

LEMMA LikeStack ==
  ASSUME NEW p, NEW ls, NEW st, StackOK(p, ls, st), NEW k \in 0..Len(st),
         NEW u, IsStack(u), Len(u) = k, Like(st, u, k)
  PROVE  StackOK(p, ls, u)
<1>1. Len(st) \in Nat /\ k \in Nat
  BY DEF StackOK, IsStack
<1>2. ASSUME NEW m \in 1..k PROVE EntryOK(p, ls, u, m)
  <2>1. m \in 1..Len(st) /\ m - 1 \in 0..k
    BY <1>1
  <2>2. EntryOK(p, ls, st, m)
    BY <2>1 DEF StackOK
  <2>3. IsEntry(u[m]) /\ u[m].kind = st[m].kind /\ u[m].at = st[m].at /\ u[m].sh = st[m].sh
    BY DEF Like
  <2>4. Reached(p, ls, u, u[m].at, m - 1)
    BY <1>1, <2>1, <2>2, <2>3, LikeReached DEF EntryOK
  <2>5. Fits(p, ls, st, st[m].sh, m - 1) => Fits(p, ls, u, u[m].sh, m - 1)
    BY <1>1, <2>1, <2>3, LikeFits
  <2>6. QED
    BY <2>2, <2>3, <2>4, <2>5 DEF EntryOK
<1>3. ASSUME NEW j \in 1..k, NEW m \in 1..k, j < m, u[j].kind = "call" PROVE u[m].at < u[j].at
  <2>1. j \in 1..Len(st) /\ m \in 1..Len(st)
    BY <1>1
  <2>2. u[j].kind = st[j].kind /\ u[j].at = st[j].at /\ u[m].at = st[m].at
    BY DEF Like
  <2>3. QED
    BY <1>3, <2>1, <2>2 DEF StackOK
<1>4. QED
  BY <1>2, <1>3 DEF StackOK

-----------------------------------------------------------------------------
(* Going on, entering and leaving. *)

LEMMA GoesOn ==
  ASSUME NEW p, NEW ls, NEW st, NEW k, NEW i, Reached(p, ls, st, i, k),
         NEW j \in 1..(Len(p) + 1), Same(p, i, j)
  PROVE  Reached(p, ls, st, j, k)
  BY DEF Reached, Same

\* From one place of a block that sh does not enter to another.
LEMMA SameBlock ==
  ASSUME NEW p, NEW i, NEW j, NEW b, p[b].op \notin {"fn", "each", "try"},
         \A c : c # b => (Holds(p, c, i) <=> Holds(p, c, j))
  PROVE  Same(p, i, j)
<1>1. ~Holds(p, b, i) /\ ~Holds(p, b, j)
  BY DEF Holds
<1>2. QED
  BY <1>1 DEF Same

\* The innermost entry is that of b, if all else that holds i holds b.
LEMMA InnermostIs ==
  ASSUME NEW p, NEW ls, NEW st, NEW k, NEW i, Reached(p, ls, st, i, k),
         NEW b, Holds(p, b, i), \A c : c # b => (Holds(p, c, i) => Holds(p, c, b))
  PROVE  k > 0 /\ EnteredAt(p, ls, st[k], b)
<1>1. \A c : Holds(p, c, i) => c <= b
  <2> SUFFICES ASSUME NEW c, Holds(p, c, i) PROVE c <= b
    OBVIOUS
  <2>1. b \in Nat
    BY DEF Holds, Opening
  <2>2. CASE c = b
    BY <2>1, <2>2
  <2>3. CASE c # b
    <3>1. Holds(p, c, b)
      BY <2>3
    <3>2. c < b /\ c \in Nat
      BY <3>1 DEF Holds, Opening
    <3>3. QED
      BY <2>1, <3>2
  <2>4. QED
    BY <2>2, <2>3
<1>2. QED
  BY <1>1 DEF Reached

\* A process is entered at b.
LEMMA EntersProcess ==
  ASSUME NEW p, Structured(p), NEW ls, NEW st, NEW k \in Nat, NEW b, Opening(p, b),
         p[b].op \in {"each", "try"}, Reached(p, ls, st, b, k),
         st[k + 1].kind = p[b].op, st[k + 1].at = b
  PROVE  Reached(p, ls, st, b + 1, k + 1)
<1>1. b \in 1..Len(p) /\ Shut(p, b) \in 1..Len(p) /\ b < Shut(p, b) /\ Len(p) \in Nat
  BY ShutIs DEF Structured, Blocks, IsText
<1>2. Holds(p, b, b + 1)
  BY <1>1 DEF Holds
<1>3. \A c : c # b => (Holds(p, c, b + 1) <=> Holds(p, c, b))
  BY HeldFirst
<1>4. EnteredAt(p, ls, st[k + 1], b)
  BY DEF EnteredAt
<1>5. ASSUME NEW c, Holds(p, c, b + 1), \A d : Holds(p, d, b + 1) => d <= c
      PROVE  EnteredAt(p, ls, st[k + 1], c)
  <2>1. b <= c
    BY <1>2, <1>5
  <2>2. CASE c = b
    BY <1>4, <2>2
  <2>3. CASE c # b
    <3>1. Holds(p, c, b)
      BY <1>3, <1>5, <2>3
    <3>2. c < b /\ c \in Nat
      BY <3>1 DEF Holds, Opening
    <3>3. QED
      BY <1>1, <2>1, <3>2
  <2>4. QED
    BY <2>2, <2>3
<1>6. ASSUME NEW j \in 1..(k + 1), st[j].kind = "call", \A m \in (j + 1)..(k + 1) : st[m].kind # "call"
      PROVE  Holds(p, Target(p, ls, st[j]), b + 1)
  <2>1. j # k + 1
    BY <1>6
  <2>2. j \in 1..k /\ \A m \in (j + 1)..k : st[m].kind # "call"
    BY <1>6, <2>1
  <2>3. Holds(p, Target(p, ls, st[j]), b)
    BY <1>6, <2>2 DEF Reached
  <2>4. Target(p, ls, st[j]) # b
    BY <1>1, <2>3 DEF Holds
  <2>5. QED
    BY <1>3, <2>3, <2>4
<1>7. b + 1 \in 1..(Len(p) + 1)
  BY <1>1
<1>8. k + 1 > 0
  OBVIOUS
<1>9. QED
  BY <1>5, <1>6, <1>7, <1>8 DEF Reached

\* A function is entered.
LEMMA EntersFn ==
  ASSUME NEW p, Structured(p), NEW ls, NEW st, NEW k \in Nat, NEW f \in 1..Len(p), p[f].op = "fn",
         st[k + 1].kind = "call", Target(p, ls, st[k + 1]) = f
  PROVE  Reached(p, ls, st, f + 1, k + 1)
<1>1. \A b : Holds(p, b, f + 1) <=> b = f
  BY FnIs
<1>2. EnteredAt(p, ls, st[k + 1], f)
  BY DEF EnteredAt
<1>3. ASSUME NEW j \in 1..(k + 1), \A m \in (j + 1)..(k + 1) : st[m].kind # "call"
      PROVE  Target(p, ls, st[j]) = f
  <2>1. j = k + 1
    BY <1>3
  <2>2. QED
    BY <2>1
<1>4. f + 1 \in 1..(Len(p) + 1) /\ k + 1 > 0
  BY DEF Structured, Blocks, IsText
<1>5. QED
  BY <1>1, <1>2, <1>3, <1>4 DEF Reached

\* Where sh is, it is above all the calls that are under way.
LEMMA AboveCalls ==
  ASSUME NEW p, Structured(p), NEW ls, LinesOK(p, ls), NEW st, StackOK(p, ls, st),
         NEW i, Reached(p, ls, st, i, Len(st)), NEW j \in 1..Len(st), st[j].kind = "call"
  PROVE  i < st[j].at
<1> DEFINE T == {m \in 1..Len(st) : st[m].kind = "call"}
<1>1. Len(st) \in Nat /\ Len(p) \in Nat /\ DOMAIN p = 1..Len(p) /\ i \in Nat
  BY DEF StackOK, IsStack, Structured, Blocks, IsText, Reached
<1>2. T \in SUBSET (0..Len(st)) /\ j \in T
  BY <1>1
<1>3. PICK m \in T : \A l \in T : l <= m
  <2> HIDE DEF T
  <2>1. QED
    BY <1>1, <1>2, MaxIs
<1>4. Holds(p, Target(p, ls, st[m]), i)
  <2>1. \A l \in (m + 1)..Len(st) : l \in 1..Len(st) /\ ~(l <= m)
    BY <1>1
  <2>2. \A l \in (m + 1)..Len(st) : st[l].kind # "call"
    BY <1>3, <2>1
  <2>3. QED
    BY <1>3, <2>2 DEF Reached
<1>5. EntryOK(p, ls, st, m) /\ st[m].kind = "call"
  BY <1>3 DEF StackOK
<1>6. st[m].at \in 1..Len(p) /\ ls[st[m].at].e.k = "call"
  BY <1>5 DEF EntryOK
<1>7. Calls(p[st[m].at]) /\ ls[st[m].at].e.f = p[st[m].at].e.f
  BY <1>1, <1>6 DEF LinesOK
<1>8. Close(p, Target(p, ls, st[m])) < st[m].at
  BY <1>1, <1>6, <1>7 DEF Structured, CalledAfter, Target
<1>9. i <= Close(p, Target(p, ls, st[m])) /\ Close(p, Target(p, ls, st[m])) \in Nat
  <2> DEFINE f == Target(p, ls, st[m])
  <2>1. Opening(p, f) /\ i <= Shut(p, f)
    BY <1>4 DEF Holds
  <2> HIDE DEF f
  <2>2. Shut(p, f) \in 1..Len(p) /\ Close(p, f) \in 1..Len(p) /\ Shut(p, f) <= Close(p, f)
    BY <2>1, ShutIs
  <2>3. QED
    BY <1>1, <2>1, <2>2 DEF f
<1>10. i < st[m].at
  BY <1>1, <1>6, <1>8, <1>9
<1>11. st[m].at <= st[j].at /\ st[j].at \in Nat
  <2>1. EntryOK(p, ls, st, j) /\ j <= m
    BY <1>2, <1>3 DEF StackOK
  <2>2. st[j].at \in 1..Len(p)
    BY <2>1 DEF EntryOK
  <2>3. CASE j = m
    BY <1>6, <2>3
  <2>4. CASE j # m
    <3>1. j < m
      BY <1>1, <2>1, <2>4
    <3>2. QED
      BY <1>6, <2>2, <3>1 DEF StackOK
  <2>5. QED
    BY <2>2, <2>3, <2>4
<1>12. QED
  BY <1>1, <1>6, <1>10, <1>11

-----------------------------------------------------------------------------
(* The slot. *)

LEMMA FitsAs ==
  ASSUME NEW p, NEW ls, NEW st, NEW k, NEW s, Fits(p, ls, st, s, k),
         NEW t, IsProcess(p, t), t.slot = s.slot, t.olds = s.olds
  PROVE  Fits(p, ls, st, t, k)
  BY DEF Fits

\* Entry k + 1 is no call that wants a value.
LEMMA FitsAbove ==
  ASSUME NEW p, NEW ls, NEW st, NEW k \in Nat, NEW s, Fits(p, ls, st, s, k), ~Wants(ls, st, k + 1)
  PROVE  Fits(p, ls, st, s, k + 1)
<1>1. \A j \in 1..(k + 1) : j \in 1..k \/ j = k + 1
  OBVIOUS
<1>2. SlotIs(ls, st, k + 1, s.slot)
  <2>1. CASE s.slot = NoVar /\ \A j \in 1..k : ~Wants(ls, st, j)
    BY <1>1, <2>1 DEF SlotIs
  <2>2. CASE \E j \in 1..k : /\ Wants(ls, st, j) /\ s.slot = ls[st[j].at].to
                             /\ \A m \in (j + 1)..k : ~Wants(ls, st, m)
    <3>1. PICK j \in 1..k : /\ Wants(ls, st, j) /\ s.slot = ls[st[j].at].to
                            /\ \A m \in (j + 1)..k : ~Wants(ls, st, m)
      BY <2>2
    <3>2. j \in 1..(k + 1) /\ \A m \in (j + 1)..(k + 1) : m \in (j + 1)..k \/ m = k + 1
      OBVIOUS
    <3>3. QED
      BY <3>1, <3>2 DEF SlotIs
  <2>3. QED
    BY <2>1, <2>2 DEF Fits, SlotIs
<1>3. \A j \in 1..(k + 1) : Wants(ls, st, j) => SlotIs(ls, st, j - 1, s.olds[st[j].at])
  BY <1>1 DEF Fits
<1>4. QED
  BY <1>2, <1>3 DEF Fits

\* Entry k + 1 is a call that wants a value: t has put the slot of s aside.
LEMMA FitsInto ==
  ASSUME NEW p, NEW ls, NEW st, NEW k \in Nat, NEW s, Fits(p, ls, st, s, k), Wants(ls, st, k + 1),
         NEW t, IsProcess(p, t), t.slot = ls[st[k + 1].at].to, t.olds[st[k + 1].at] = s.slot,
         \A j \in 1..k : Wants(ls, st, j) => t.olds[st[j].at] = s.olds[st[j].at]
  PROVE  Fits(p, ls, st, t, k + 1)
<1>1. \A j \in 1..(k + 1) : j \in 1..k \/ j = k + 1
  OBVIOUS
<1>2. SlotIs(ls, st, k + 1, t.slot)
  <2>1. k + 1 \in 1..(k + 1) /\ \A m : m \notin ((k + 1) + 1)..(k + 1)
    OBVIOUS
  <2>2. QED
    BY <2>1 DEF SlotIs
<1>3. \A j \in 1..(k + 1) : Wants(ls, st, j) => SlotIs(ls, st, j - 1, t.olds[st[j].at])
  <2>1. SlotIs(ls, st, (k + 1) - 1, t.olds[st[k + 1].at])
    <3>1. (k + 1) - 1 = k
      OBVIOUS
    <3>2. QED
      BY <3>1 DEF Fits
  <2>2. \A j \in 1..k : Wants(ls, st, j) => SlotIs(ls, st, j - 1, t.olds[st[j].at])
    BY DEF Fits
  <2>3. QED
    BY <1>1, <2>1, <2>2
<1>4. QED
  BY <1>2, <1>3 DEF Fits

\* The last entry is left, and t has the slot it had before it.
LEMMA FitsBack ==
  ASSUME NEW p, NEW ls, NEW st, NEW k \in Nat \ {0}, NEW s, Fits(p, ls, st, s, k), NEW t, IsProcess(p, t),
         t.olds = s.olds, t.slot = IF Wants(ls, st, k) THEN s.olds[st[k].at] ELSE s.slot
  PROVE  Fits(p, ls, st, t, k - 1)
<1>1. k - 1 \in Nat /\ k \in 1..k /\ \A j \in 1..(k - 1) : j \in 1..k
  OBVIOUS
<1>2. SlotIs(ls, st, k - 1, t.slot)
  <2>1. CASE Wants(ls, st, k)
    BY <1>1, <2>1 DEF Fits
  <2>2. CASE ~Wants(ls, st, k)
    <3>1. SlotIs(ls, st, k, t.slot)
      BY <2>2 DEF Fits
    <3>2. CASE t.slot = NoVar /\ \A j \in 1..k : ~Wants(ls, st, j)
      BY <1>1, <3>2 DEF SlotIs
    <3>3. CASE \E j \in 1..k : /\ Wants(ls, st, j) /\ t.slot = ls[st[j].at].to
                               /\ \A m \in (j + 1)..k : ~Wants(ls, st, m)
      <4>1. PICK j \in 1..k : /\ Wants(ls, st, j) /\ t.slot = ls[st[j].at].to
                              /\ \A m \in (j + 1)..k : ~Wants(ls, st, m)
        BY <3>3
      <4>2. j # k
        BY <2>2, <4>1
      <4>3. j \in 1..(k - 1) /\ \A m \in (j + 1)..(k - 1) : m \in (j + 1)..k
        BY <4>2
      <4>4. QED
        BY <4>1, <4>3 DEF SlotIs
    <3>4. QED
      BY <3>1, <3>2, <3>3 DEF SlotIs
  <2>3. QED
    BY <2>1, <2>2
<1>3. \A j \in 1..(k - 1) : Wants(ls, st, j) => SlotIs(ls, st, j - 1, t.olds[st[j].at])
  BY <1>1 DEF Fits
<1>4. QED
  BY <1>2, <1>3 DEF Fits

-----------------------------------------------------------------------------
(* What a step may do to the stack. *)

LEMMA SameSelf ==
  ASSUME NEW p, NEW i
  PROVE  Same(p, i, i)
  BY DEF Same

LEMMA Stays ==
  ASSUME NEW p, NEW ls, NEW st, NEW s, NEW i, ShellOK(p, ls, st, s, i),
         NEW j \in 1..(Len(p) + 1), Same(p, i, j),
         NEW t, IsProcess(p, t), t.slot = s.slot, t.olds = s.olds
  PROVE  ShellOK(p, ls, st, t, j)
  BY GoesOn, FitsAs DEF ShellOK

\* The stack is cut to below a process that was entered.
LEMMA Leaves ==
  ASSUME NEW p, NEW ls, NEW st, StackOK(p, ls, st),
         NEW k \in 1..Len(st), st[k].kind \in {"each", "try"},
         NEW j \in 1..(Len(p) + 1), Same(p, st[k].at, j),
         NEW t, IsProcess(p, t), t.slot = st[k].sh.slot, t.olds = st[k].sh.olds
  PROVE  ShellOK(p, ls, SubSeq(st, 1, k - 1), t, j)
<1> DEFINE u == SubSeq(st, 1, k - 1)
<1>1. Len(st) \in Nat /\ k - 1 \in 0..Len(st) /\ k \in 1..(Len(st) + 1) /\ k - 1 \in Nat /\ k - 1 \in 0..(k - 1)
  BY DEF StackOK, IsStack
<1>2. IsStack(u) /\ Len(u) = k - 1 /\ \A m \in 1..(k - 1) : u[m] = st[m]
  BY <1>1, StackCut DEF StackOK
<1>3. EntryOK(p, ls, st, k)
  BY DEF StackOK
<1>4. Reached(p, ls, st, st[k].at, k - 1) /\ Fits(p, ls, st, st[k].sh, k - 1)
  BY <1>3 DEF EntryOK
<1>5. Like(st, u, k - 1)
  <2>1. \A m \in 1..(k - 1) : m \in 1..Len(st) /\ EntryOK(p, ls, st, m)
    BY <1>1 DEF StackOK
  <2>2. QED
    BY <1>2, <2>1 DEF Like, EntryOK
<1> HIDE DEF u
<1>6. StackOK(p, ls, u)
  BY <1>1, <1>2, <1>5, LikeStack
<1>7. Reached(p, ls, u, j, k - 1)
  BY <1>1, <1>4, <1>5, LikeReached, GoesOn
<1>8. Fits(p, ls, u, t, k - 1)
  BY <1>1, <1>4, <1>5, LikeFits, FitsAs
<1>9. QED
  BY <1>2, <1>6, <1>7, <1>8 DEF ShellOK, u

\* A process is entered at b.
LEMMA Enters ==
  ASSUME NEW p, Structured(p), NEW ls, LinesOK(p, ls), NEW st, NEW s, NEW b, ShellOK(p, ls, st, s, b),
         Opening(p, b), p[b].op \in {"each", "try"},
         NEW e, IsEntry(e), e.kind = p[b].op, e.at = b, e.sh = s,
         NEW t, IsProcess(p, t), t.slot = s.slot, t.olds = s.olds
  PROVE  ShellOK(p, ls, Append(st, e), t, b + 1)
<1> DEFINE u == Append(st, e)
           k == Len(st)
<1>1. /\ StackOK(p, ls, st) /\ Reached(p, ls, st, b, k) /\ Fits(p, ls, st, s, k)
      /\ IsStack(st) /\ k \in Nat /\ b \in 1..Len(p) /\ k \in 0..k
  BY DEF ShellOK, StackOK, IsStack, Opening
<1>2. IsStack(u) /\ Len(u) = k + 1 /\ u[k + 1] = e /\ \A m \in 1..k : u[m] = st[m]
  BY <1>1, StackPush
<1>3. Like(st, u, k)
  BY <1>2 DEF Like, StackOK, EntryOK, ShellOK
<1>4. \A j \in 1..k : st[j].kind = "call" => b < st[j].at
  BY <1>1, AboveCalls
<1> HIDE DEF u, k
<1>5. Reached(p, ls, u, b, k) /\ Fits(p, ls, u, s, k)
  BY <1>1, <1>3, LikeReached, LikeFits
<1>6. Reached(p, ls, u, b + 1, k + 1)
  BY <1>1, <1>2, <1>5, EntersProcess
<1>7. Fits(p, ls, u, t, k + 1)
  <2>1. ~Wants(ls, u, k + 1)
    BY <1>2 DEF Wants
  <2>2. Fits(p, ls, u, s, k + 1)
    BY <1>1, <1>5, <2>1, FitsAbove
  <2>3. QED
    BY <2>2, FitsAs
<1>8. ASSUME NEW m \in 1..(k + 1) PROVE EntryOK(p, ls, u, m)
  <2>1. CASE m = k + 1
    <3>1. m - 1 = k
      BY <1>1, <2>1
    <3>2. QED
      BY <1>1, <1>2, <1>5, <2>1, <3>1 DEF EntryOK
  <2>2. CASE m # k + 1
    <3>1. m \in 1..k /\ m - 1 \in 0..k
      BY <1>1, <2>2
    <3>2. EntryOK(p, ls, st, m) /\ u[m] = st[m]
      BY <1>1, <1>2, <3>1 DEF StackOK, k
    <3>3. QED
      BY <1>1, <1>3, <3>1, <3>2, LikeReached, LikeFits DEF EntryOK
  <2>3. QED
    BY <2>1, <2>2
<1>9. ASSUME NEW j \in 1..(k + 1), NEW m \in 1..(k + 1), j < m, u[j].kind = "call" PROVE u[m].at < u[j].at
  <2>1. j \in 1..k /\ u[j] = st[j]
    BY <1>1, <1>2, <1>9
  <2>2. CASE m = k + 1
    BY <1>2, <1>4, <1>9, <2>1, <2>2
  <2>3. CASE m # k + 1
    <3>1. m \in 1..k /\ u[m] = st[m]
      BY <1>1, <1>2, <2>3
    <3>2. QED
      BY <1>1, <1>9, <2>1, <3>1 DEF StackOK, k
  <2>4. QED
    BY <2>2, <2>3
<1>10. StackOK(p, ls, u)
  BY <1>2, <1>8, <1>9 DEF StackOK
<1>11. QED
  BY <1>2, <1>6, <1>7, <1>10 DEF ShellOK, u

\* A loop over a command reads the next line.
LEMMA Rereads ==
  ASSUME NEW p, Structured(p), NEW ls, NEW st, NEW s, NEW i, ShellOK(p, ls, st, s, i),
         Len(st) > 0, st[Len(st)].kind = "each", NEW n,
         NEW u, u = Append(SubSeq(st, 1, Len(st) - 1), [st[Len(st)] EXCEPT !.n = n]),
         NEW t, IsProcess(p, t), t.slot = s.slot, t.olds = s.olds
  PROVE  ShellOK(p, ls, u, t, st[Len(st)].at + 1)
<1> DEFINE k == Len(st)
           v == SubSeq(st, 1, k - 1)
           e == [st[k] EXCEPT !.n = n]
<1>1. StackOK(p, ls, st) /\ Fits(p, ls, st, s, k) /\ IsStack(st) /\ k \in 1..(k + 1) /\ k \in Nat \ {0}
  BY DEF ShellOK, StackOK, IsStack
<1>2. IsStack(v) /\ Len(v) = k - 1 /\ \A m \in 1..(k - 1) : v[m] = st[m]
  BY <1>1, StackCut
<1>3. /\ IsStack(u) /\ Len(u) = (k - 1) + 1 /\ u[(k - 1) + 1] = e
      /\ \A m \in 1..(k - 1) : u[m] = v[m]
  BY <1>2, StackPush
<1>4. \A m \in 1..k : EntryOK(p, ls, st, m)
  BY <1>1 DEF StackOK
<1>5. IsEntry(e) /\ e.kind = st[k].kind /\ e.at = st[k].at /\ e.sh = st[k].sh
  <2>1. IsEntry(st[k])
    BY <1>1, <1>4 DEF EntryOK
  <2>2. QED
    BY <2>1 DEF IsEntry
<1> HIDE DEF v, e
<1>6. Len(u) = k /\ u[k] = e /\ \A m \in 1..k : m = k \/ m \in 1..(k - 1)
  BY <1>1, <1>3
<1>7. Like(st, u, k)
  BY <1>2, <1>3, <1>4, <1>5, <1>6 DEF Like, EntryOK
<1>8. StackOK(p, ls, u)
  <2>1. k \in 0..Len(st)
    BY <1>1
  <2>2. QED
    BY <1>1, <1>3, <1>6, <1>7, <2>1, LikeStack
<1>9. Fits(p, ls, u, t, k)
  BY <1>1, <1>7, LikeFits, FitsAs
<1>10. Reached(p, ls, u, st[k].at + 1, k)
  <2> DEFINE b == st[k].at
  <2>1. EntryOK(p, ls, u, k) /\ k \in 1..k
    BY <1>1, <1>6, <1>8 DEF StackOK
  <2>2. /\ u[k].at = b /\ u[k].kind = "each" /\ p[b].op = "each" /\ b \in 1..Len(p)
        /\ Reached(p, ls, u, b, k - 1)
    BY <1>5, <1>6, <2>1 DEF EntryOK
  <2>3. Opening(p, b) /\ k - 1 \in Nat /\ (k - 1) + 1 = k
    BY <1>1, <2>2, WordsApart DEF Opening
  <2> HIDE DEF b, k
  <2>4. Reached(p, ls, u, b + 1, (k - 1) + 1)
    BY <2>2, <2>3, EntersProcess
  <2>5. QED
    BY <2>3, <2>4 DEF b
<1>11. QED
  BY <1>6, <1>8, <1>9, <1>10 DEF ShellOK

\* The call at line i enters its function.
LEMMA CallEnters ==
  ASSUME NEW p, Structured(p), NEW ls, LinesOK(p, ls), NEW st, NEW s, NEW i, ShellOK(p, ls, st, s, i),
         i \in 1..Len(p), ls[i].e.k = "call",
         NEW e, IsEntry(e), e.kind = "call", e.at = i,
         NEW t, IsProcess(p, t),
         IF ls[i].to # NoVar
         THEN /\ t.slot = ls[i].to /\ t.olds[i] = s.slot
              /\ \A j \in 1..Len(p) : j # i => t.olds[j] = s.olds[j]
         ELSE t.slot = s.slot /\ t.olds = s.olds
  PROVE  /\ FnAt(p, ls[i].e.f) \in 1..Len(p)
         /\ ShellOK(p, ls, Append(st, e), t, FnAt(p, ls[i].e.f) + 1)
<1> DEFINE u == Append(st, e)
           k == Len(st)
           f == FnAt(p, ls[i].e.f)
<1>1. /\ StackOK(p, ls, st) /\ Reached(p, ls, st, i, k) /\ Fits(p, ls, st, s, k)
      /\ IsStack(st) /\ k \in Nat /\ k \in 0..k
      /\ Len(p) \in Nat /\ DOMAIN p = 1..Len(p)
  BY DEF ShellOK, StackOK, IsStack, Structured, Blocks, IsText
<1>2. IsStack(u) /\ Len(u) = k + 1 /\ u[k + 1] = e /\ \A m \in 1..k : u[m] = st[m]
  BY <1>1, StackPush
<1>3. \A m \in 1..k : EntryOK(p, ls, st, m)
  BY <1>1 DEF StackOK
<1>4. \A j \in 1..k : st[j].kind = "call" => i < st[j].at
  BY <1>1, AboveCalls
<1>5. f \in 1..Len(p) /\ p[f].op = "fn"
  <2>1. Calls(p[i]) /\ ls[i].e.f = p[i].e.f
    BY <1>1 DEF LinesOK
  <2>2. p[i].e.f \in FunctionsOf(p)
    BY <1>1, <2>1 DEF Structured, FunctionsOk
  <2>3. PICK b \in DOMAIN p : p[b].op = "fn" /\ p[b].e.f = p[i].e.f
    BY <2>2 DEF FunctionsOf
  <2>4. QED
    BY <1>1, <2>1, <2>3 DEF FnAt
<1> HIDE DEF u, k, f
<1>6. Like(st, u, k)
  BY <1>2, <1>3 DEF Like, EntryOK
<1>7. Reached(p, ls, u, i, k) /\ Fits(p, ls, u, s, k)
  BY <1>1, <1>6, LikeReached, LikeFits
<1>8. Reached(p, ls, u, f + 1, k + 1)
  <2>1. Target(p, ls, u[k + 1]) = f
    BY <1>2 DEF Target, f
  <2>2. QED
    BY <1>1, <1>2, <1>5, <2>1, EntersFn
<1>9. Fits(p, ls, u, t, k + 1)
  <2>1. CASE ls[i].to # NoVar
    <3>1. Wants(ls, u, k + 1) /\ u[k + 1].at = i
      BY <1>2, <2>1 DEF Wants
    <3>2. \A j \in 1..k : Wants(ls, u, j) => t.olds[u[j].at] = s.olds[u[j].at]
      <4> SUFFICES ASSUME NEW j \in 1..k, Wants(ls, u, j) PROVE t.olds[u[j].at] = s.olds[u[j].at]
        OBVIOUS
      <4>1. st[j].kind = "call" /\ u[j] = st[j] /\ st[j].at \in 1..Len(p)
        BY <1>2, <1>3 DEF Wants, EntryOK
      <4>2. i < st[j].at
        BY <1>4, <4>1
      <4>3. st[j].at # i
        BY <4>1, <4>2
      <4>4. QED
        BY <2>1, <4>1, <4>3
    <3>3. t.slot = ls[u[k + 1].at].to /\ t.olds[u[k + 1].at] = s.slot
      BY <2>1, <3>1
    <3>4. QED
      BY <1>1, <1>7, <3>1, <3>2, <3>3, FitsInto
  <2>2. CASE ls[i].to = NoVar
    <3>1. ~Wants(ls, u, k + 1)
      BY <1>2, <2>2 DEF Wants
    <3>2. Fits(p, ls, u, s, k + 1)
      BY <1>1, <1>7, <3>1, FitsAbove
    <3>3. t.slot = s.slot /\ t.olds = s.olds
      BY <2>2
    <3>4. QED
      BY <3>2, <3>3, FitsAs
  <2>3. QED
    BY <2>1, <2>2
<1>10. ASSUME NEW m \in 1..(k + 1) PROVE EntryOK(p, ls, u, m)
  <2>1. CASE m = k + 1
    <3>1. m - 1 = k
      BY <1>1, <2>1
    <3>2. QED
      BY <1>2, <1>7, <2>1, <3>1 DEF EntryOK
  <2>2. CASE m # k + 1
    <3>1. m \in 1..k /\ m - 1 \in 0..k
      BY <1>1, <2>2
    <3>2. EntryOK(p, ls, st, m) /\ u[m] = st[m]
      BY <1>2, <1>3, <3>1
    <3>3. QED
      BY <1>1, <1>6, <3>1, <3>2, LikeReached, LikeFits DEF EntryOK
  <2>3. QED
    BY <2>1, <2>2
<1>11. ASSUME NEW j \in 1..(k + 1), NEW m \in 1..(k + 1), j < m, u[j].kind = "call" PROVE u[m].at < u[j].at
  <2>1. j \in 1..k /\ u[j] = st[j]
    BY <1>1, <1>2, <1>11
  <2>2. CASE m = k + 1
    BY <1>2, <1>4, <1>11, <2>1, <2>2
  <2>3. CASE m # k + 1
    <3>1. m \in 1..k /\ u[m] = st[m]
      BY <1>1, <1>2, <2>3
    <3>2. QED
      BY <1>1, <1>11, <2>1, <3>1 DEF StackOK, k
  <2>4. QED
    BY <2>2, <2>3
<1>12. StackOK(p, ls, u)
  BY <1>2, <1>10, <1>11 DEF StackOK
<1>13. QED
  BY <1>2, <1>5, <1>8, <1>9, <1>12 DEF ShellOK, u, f

\* A call returns to its line.
LEMMA CallReturns ==
  ASSUME NEW p, NEW ls, NEW st, NEW s, NEW i, ShellOK(p, ls, st, s, i),
         Len(st) > 0, st[Len(st)].kind = "call",
         NEW t, IsProcess(p, t), t.olds = s.olds,
         t.slot = IF ls[st[Len(st)].at].to # NoVar THEN s.olds[st[Len(st)].at] ELSE s.slot
  PROVE  ShellOK(p, ls, SubSeq(st, 1, Len(st) - 1), t, st[Len(st)].at)
<1> DEFINE k == Len(st)
           u == SubSeq(st, 1, k - 1)
<1>1. StackOK(p, ls, st) /\ Fits(p, ls, st, s, k) /\ IsStack(st) /\ k \in 1..(k + 1) /\ k \in Nat \ {0}
  BY DEF ShellOK, StackOK, IsStack
<1>2. IsStack(u) /\ Len(u) = k - 1 /\ \A m \in 1..(k - 1) : u[m] = st[m]
  BY <1>1, StackCut
<1>3. \A m \in 1..k : EntryOK(p, ls, st, m)
  BY <1>1 DEF StackOK
<1>4. k - 1 \in Nat /\ k \in 1..k /\ k - 1 \in 0..(k - 1) /\ k - 1 \in 0..k /\ \A m \in 1..(k - 1) : m \in 1..k
  BY <1>1
<1>5. Like(st, u, k - 1)
  BY <1>2, <1>3, <1>4 DEF Like, EntryOK
<1>6. StackOK(p, ls, u)
  BY <1>1, <1>2, <1>4, <1>5, LikeStack
<1>7. Reached(p, ls, u, st[k].at, k - 1)
  <2>1. Reached(p, ls, st, st[k].at, k - 1)
    BY <1>3, <1>4 DEF EntryOK
  <2> HIDE DEF u, k
  <2>2. QED
    BY <1>4, <1>5, <2>1, LikeReached
<1>8. Fits(p, ls, u, t, k - 1)
  <2>1. t.slot = IF Wants(ls, st, k) THEN s.olds[st[k].at] ELSE s.slot
    BY DEF Wants
  <2> HIDE DEF u, k
  <2>2. Fits(p, ls, st, t, k - 1)
    BY <1>1, <2>1, FitsBack
  <2>3. QED
    BY <1>4, <1>5, <2>2, LikeFits
<1>9. QED
  BY <1>2, <1>6, <1>7, <1>8 DEF ShellOK

\* The slot in the terms of the property.
LEMMA SlotReaches ==
  ASSUME NEW st, IsStack(st), SlotIs(lines, st, Len(st), sh.slot), stack = st
  PROVE  ReturnsReachTheirCall
<1> DEFINE k == Len(st)
           W == {j \in DOMAIN stack : stack[j].kind = "call" /\ Into(stack[j].at)}
<1>1. k \in Nat /\ DOMAIN st = 1..k
  BY LenProperties DEF IsStack
<1>2. W = {j \in 1..k : Wants(lines, st, j)}
  BY <1>1 DEF Wants, Into
<1>3. ReturnsReachTheirCall <=> sh.slot = IF W = {} THEN NoVar ELSE lines[stack[Max(W)].at].to
  BY DEF ReturnsReachTheirCall
<1>4. CASE sh.slot = NoVar /\ \A j \in 1..k : ~Wants(lines, st, j)
  BY <1>2, <1>3, <1>4
<1>5. CASE \E j \in 1..k : /\ Wants(lines, st, j) /\ sh.slot = lines[st[j].at].to
                           /\ \A m \in (j + 1)..k : ~Wants(lines, st, m)
  <2>1. PICK j \in 1..k : /\ Wants(lines, st, j) /\ sh.slot = lines[st[j].at].to
                          /\ \A m \in (j + 1)..k : ~Wants(lines, st, m)
    BY <1>5
  <2>2. j \in W /\ W \in SUBSET (0..k)
    BY <1>1, <1>2, <2>1
  <2>3. \A m \in W : m \in 1..k /\ m \notin (j + 1)..k
    BY <1>2, <2>1
  <2>4. \A m \in W : m <= j
    BY <1>1, <2>3
  <2> HIDE DEF W, k
  <2>5. Max(W) \in W /\ j <= Max(W)
    BY <1>1, <2>2, MaxIs
  <2>6. PICK m \in W : m = Max(W)
    BY <2>5
  <2>7. Max(W) = j
    <3>1. m \in 0..k /\ j \in 0..k /\ m <= j /\ j <= m
      BY <2>2, <2>4, <2>5, <2>6
    <3>2. QED
      BY <1>1, <2>6, <3>1
  <2>8. QED
    BY <1>3, <2>1, <2>2, <2>7
<1>6. QED
  BY <1>4, <1>5 DEF SlotIs

-----------------------------------------------------------------------------
(* The steps of sh. *)

ShellHere == Structured(prog) /\ LinesOK(prog, lines) /\ ShellOK(prog, lines, stack, sh, spc)
ShellThere == ShellOK(prog, lines, stack', sh', spc')

LEMMA TextHere ==
  ASSUME ShellHere
  PROVE  /\ Len(prog) \in Nat /\ DOMAIN prog = 1..Len(prog) /\ spc \in 1..(Len(prog) + 1)
         /\ Len(stack) \in Nat /\ DOMAIN stack = 1..Len(stack) /\ IsProcess(prog, sh)
         /\ StackOK(prog, lines, stack) /\ Reached(prog, lines, stack, spc, Len(stack))
<1>1. IsStack(stack)
  BY DEF ShellHere, ShellOK, StackOK
<1>2. Len(stack) \in Nat /\ DOMAIN stack = 1..Len(stack)
  BY <1>1, LenProperties DEF IsStack
<1>3. QED
  BY <1>2 DEF ShellHere, Structured, Blocks, IsText, ShellOK, Reached, Fits

LEMMA SpcIs ==
  ASSUME ShellHere, ~ShellEnded
  PROVE  spc \in 1..Len(prog) /\ spc + 1 \in 1..(Len(prog) + 1)
<1>1. Len(prog) \in Nat /\ spc \in 1..(Len(prog) + 1)
  BY TextHere
<1>2. ~(spc > Len(prog))
  BY DEF ShellEnded
<1>3. QED
  BY <1>1, <1>2

LEMMA RunsIs ==
  ASSUME ShellHere, NEW op, op # "", Runs(op)
  PROVE  spc \in 1..Len(prog) /\ prog[spc].op = op
<1>1. spc \in 1..Len(prog)
  BY SpcIs DEF Runs
<1>2. lines[spc].op \in {"", prog[spc].op}
  BY <1>1, TextHere DEF ShellHere, LinesOK
<1>3. QED
  BY <1>1, <1>2 DEF Runs, Run

LEMMA WithIs ==
  ASSUME NEW p, NEW s, IsProcess(p, s), NEW v
  PROVE  /\ IsProcess(p, [s EXCEPT !.vars = v])
         /\ [s EXCEPT !.vars = v].slot = s.slot /\ [s EXCEPT !.vars = v].olds = s.olds
         /\ IsProcess(p, [s EXCEPT !.fns = v])
         /\ [s EXCEPT !.fns = v].slot = s.slot /\ [s EXCEPT !.fns = v].olds = s.olds
  BY DEF IsProcess

\* The stack stays, and so do the slot and what is put aside.
LEMMA StaysHere ==
  ASSUME ShellHere, UNCHANGED stack, \/ sh' = sh
                                     \/ \E v : sh' = With(v)
                                     \/ \E v : sh' = [sh EXCEPT !.fns = v],
         spc' \in 1..(Len(prog) + 1), Same(prog, spc, spc')
  PROVE  ShellThere
<1>1. IsProcess(prog, sh') /\ sh'.slot = sh.slot /\ sh'.olds = sh.olds
  <2>1. IsProcess(prog, sh)
    BY TextHere
  <2>2. CASE sh' = sh
    BY <2>1, <2>2
  <2>3. CASE \E v : sh' = With(v)
    <3>1. PICK v : sh' = [sh EXCEPT !.vars = v]
      BY <2>3 DEF With
    <3>2. QED
      BY <2>1, <3>1, WithIs
  <2>4. CASE \E v : sh' = [sh EXCEPT !.fns = v]
    <3>1. PICK v : sh' = [sh EXCEPT !.fns = v]
      BY <2>4
    <3>2. QED
      BY <2>1, <3>1, WithIs
  <2>5. QED
    BY <2>2, <2>3, <2>4
<1>2. ShellOK(prog, lines, stack, sh', spc')
  BY <1>1, Stays DEF ShellHere
<1>3. QED
  BY <1>2 DEF ShellThere

\* The last entry is one of a process, which is left.
LEMMA LeavesHere ==
  ASSUME ShellHere, Len(stack) > 0, InnerEntry.kind \in {"each", "try"},
         stack' = NoEntry, sh' = InnerEntry.sh,
         spc' \in 1..(Len(prog) + 1), Same(prog, InnerEntry.at, spc')
  PROVE  ShellThere
<1>1. Len(stack) \in 1..Len(stack) /\ InnerEntry = stack[Len(stack)]
      /\ NoEntry = SubSeq(stack, 1, Len(stack) - 1) /\ StackOK(prog, lines, stack)
  BY TextHere DEF InnerEntry, NoEntry, Under
<1>2. EntryOK(prog, lines, stack, Len(stack))
  BY <1>1 DEF StackOK
<1>3. IsProcess(prog, sh')
  BY <1>1, <1>2 DEF EntryOK, Fits
<1>4. ShellOK(prog, lines, SubSeq(stack, 1, Len(stack) - 1), sh', spc')
  BY <1>1, <1>3, Leaves
<1>5. QED
  BY <1>1, <1>4 DEF ShellThere

\* What is printed does not matter here.
LEMMA LeavesCall ==
  ASSUME ShellHere, Len(stack) > 0, InnerEntry.kind = "call", NEW s, LeaveWith(s),
         IsProcess(prog, s), s.slot = sh.slot, s.olds = sh.olds
  PROVE  ShellThere
<1> DEFINE i == InnerEntry.at
<1>1. /\ Len(stack) \in 1..Len(stack) /\ InnerEntry = stack[Len(stack)] /\ i = stack[Len(stack)].at
      /\ NoEntry = SubSeq(stack, 1, Len(stack) - 1) /\ StackOK(prog, lines, stack)
  BY TextHere DEF InnerEntry, NoEntry, Under
<1>2. stack' = NoEntry /\ spc' = i /\ sh' = Restored(s, i)
  BY DEF LeaveWith
<1>3. IsProcess(prog, sh') /\ sh'.olds = s.olds /\ sh'.slot = IF lines[i].to # NoVar THEN s.olds[i] ELSE s.slot
  BY <1>2 DEF Restored, Into, IsProcess
<1> HIDE DEF i
<1>4. ShellOK(prog, lines, SubSeq(stack, 1, Len(stack) - 1), sh', stack[Len(stack)].at)
  BY <1>1, <1>3, CallReturns DEF ShellHere
<1>5. QED
  BY <1>1, <1>2, <1>4 DEF ShellThere

\* A failure goes to the catch of the outermost try, if there is one.
LEMMA FailsTo ==
  ASSUME ShellHere, NEW step, Failing(step), ~(step /\ UNCHANGED stack)
  PROVE  ShellThere
<1> DEFINE tries == {k \in DOMAIN stack : stack[k].kind = "try"}
           m == Min(tries)
           b == stack[m].at
<1>1. tries # {} /\ tries \in SUBSET Nat /\ tries \subseteq 1..Len(stack)
  BY TextHere DEF Failing
<1>2. /\ spc' = Otherwise(prog, b) /\ stack' = SubSeq(stack, 1, m - 1)
      /\ sh' = [stack[m].sh EXCEPT !.vars[lines[Otherwise(prog, b) - 1].to] = 1]
  BY <1>1 DEF Failing, Under, To
<1>3. m \in tries
  <2> HIDE DEF tries
  <2>1. QED
    BY <1>1, MinIs
<1>4. m \in 1..Len(stack) /\ stack[m].kind = "try"
  BY <1>1, <1>3
<1> HIDE DEF m, b
<1>5. EntryOK(prog, lines, stack, m) /\ StackOK(prog, lines, stack)
  BY <1>4, TextHere DEF StackOK
<1>6. b \in 1..Len(prog) /\ prog[b].op = "try" /\ IsProcess(prog, stack[m].sh)
  BY <1>4, <1>5 DEF EntryOK, Fits, b
<1>7. Opening(prog, b)
  BY <1>6, WordsApart DEF Opening
<1> DEFINE j == Shut(prog, b)
<1>8. j \in 1..Len(prog) /\ prog[j].op = "else" /\ Block(prog, j) = b /\ b < j
  BY <1>6, <1>7, TryIs DEF ShellHere
<1>9. Otherwise(prog, b) = j + 1 /\ \A c : c # b => (Holds(prog, c, j + 1) <=> Holds(prog, c, b))
  BY <1>8, ElseIs, HeldElse DEF ShellHere
<1>10. ~Holds(prog, b, b) /\ ~Holds(prog, b, j + 1)
  BY <1>6, <1>8 DEF Holds
<1>11. Same(prog, b, j + 1) /\ j + 1 \in 1..(Len(prog) + 1)
  BY <1>8, <1>9, <1>10, TextHere DEF Same
<1>12. IsProcess(prog, sh') /\ sh'.slot = stack[m].sh.slot /\ sh'.olds = stack[m].sh.olds
  BY <1>2, <1>6 DEF IsProcess
<1> HIDE DEF j
<1>13. ShellOK(prog, lines, SubSeq(stack, 1, m - 1), sh', j + 1)
  BY <1>4, <1>5, <1>11, <1>12, Leaves DEF b
<1>14. QED
  BY <1>2, <1>9, <1>13 DEF ShellThere

-----------------------------------------------------------------------------
(* Where sh goes within a block. *)

\* Statement i is at the level of block b, which sh does not enter.
LEMMA BlockGoes ==
  ASSUME NEW p, Structured(p), NEW b, Opening(p, b), p[b].op \notin {"fn", "each", "try"},
         NEW i, \A c : c # b => (Holds(p, c, i) <=> Holds(p, c, b))
  PROVE  Same(p, i, b) /\ Same(p, i, b + 1) /\ Same(p, i, Close(p, b) + 1)
<1>1. /\ \A c : c # b => (Holds(p, c, b + 1) <=> Holds(p, c, b))
      /\ Same(p, b, Close(p, b) + 1)
  BY HeldFirst, HeldLast
<1>2. \A c : c # b => /\ Holds(p, c, i) <=> Holds(p, c, b + 1)
                      /\ Holds(p, c, i) <=> Holds(p, c, Close(p, b) + 1)
  BY <1>1 DEF Same
<1>3. QED
  BY <1>2, SameBlock

\* An if whose condition fails goes on at its level.
LEMMA IfGoes ==
  ASSUME NEW p, Structured(p), NEW b, Opening(p, b), p[b].op = "if"
  PROVE  Same(p, b, Otherwise(p, b)) /\ Otherwise(p, b) \in 1..(Len(p) + 1)
<1>1. /\ Len(p) \in Nat /\ b \in 1..Len(p) /\ Close(p, b) \in 1..Len(p) /\ b < Close(p, b)
  BY CloseAfter DEF Structured
<1>2. CASE ElseOf(p, b) = {}
  <2>1. Otherwise(p, b) = Close(p, b)
    BY <1>2 DEF Otherwise
  <2>2. \A c : c # b => (Holds(p, c, b) <=> Holds(p, c, Close(p, b)))
    BY HeldLast
  <2>3. Same(p, b, Close(p, b))
    BY <2>2, SameBlock
  <2>4. QED
    BY <1>1, <2>1, <2>3
<1>3. CASE ElseOf(p, b) # {}
  <2>1. PICK j \in (b + 1)..Close(p, b) : p[j].op = "else" /\ Block(p, j) = b
    BY <1>3 DEF ElseOf
  <2>2. j \in 1..Len(p)
    BY <1>1, <2>1
  <2>3. Otherwise(p, b) = j + 1 /\ \A c : c # b => (Holds(p, c, b) <=> Holds(p, c, j + 1))
    BY <2>1, <2>2, ElseIs, HeldElse
  <2>4. Same(p, b, j + 1)
    BY <2>3, SameBlock
  <2>5. QED
    BY <1>1, <2>2, <2>3, <2>4
<1>4. QED
  BY <1>2, <1>3

\* The end of a block is at its level.
LEMMA AtEnd ==
  ASSUME NEW p, Structured(p), NEW i \in 1..Len(p), p[i].op = "end", NEW b, b = Opener(p, i)
  PROVE  /\ Opening(p, b) /\ Close(p, b) = i /\ b \in 1..Len(p) /\ b < i
         /\ \A c : c # b => (Holds(p, c, i) <=> Holds(p, c, b))
         /\ ~Holds(p, b, i) => Same(p, i, i + 1)
<1>1. Opening(p, b) /\ Close(p, b) = i /\ b < i
  BY EndIs DEF Structured
<1>2. /\ \A c : c # b => (Holds(p, c, i) <=> Holds(p, c, b))
      /\ Same(p, b, i + 1)
  BY <1>1, HeldLast
<1>3. ~Holds(p, b, b)
  BY <1>1 DEF Holds, Opening
<1>4. QED
  BY <1>1, <1>2, <1>3 DEF Same, Opening

LEMMA NextHere ==
  ASSUME ShellHere, NEW op, op \notin {"", "fn", "each", "try", "end", "else"}, Runs(op)
  PROVE  Same(prog, spc, spc + 1) /\ spc + 1 \in 1..(Len(prog) + 1)
<1>1. spc \in 1..Len(prog) /\ prog[spc].op = op /\ Len(prog) \in Nat
  BY RunsIs, TextHere
<1>2. Same(prog, spc, spc + 1)
  BY <1>1, HeldNext DEF ShellHere
<1>3. spc + 1 \in 1..(Len(prog) + 1)
  BY SpcIs DEF Runs
<1>4. QED
  BY <1>2, <1>3

LEMMA BlockHere ==
  ASSUME ShellHere, NEW b, Opening(prog, b)
  PROVE  /\ b \in 1..(Len(prog) + 1) /\ b + 1 \in 1..(Len(prog) + 1)
         /\ Close(prog, b) \in 1..Len(prog) /\ Close(prog, b) + 1 \in 1..(Len(prog) + 1)
  BY CloseAfter DEF ShellHere, Structured

\* The innermost entry is that of the process entered at b.
LEMMA InnerIs ==
  ASSUME ShellHere, NEW b, Holds(prog, b, spc), prog[b].op \in {"each", "try"},
         \A c : c # b => (Holds(prog, c, spc) <=> Holds(prog, c, b))
  PROVE  /\ Len(stack) > 0 /\ InnerEntry = stack[Len(stack)]
         /\ InnerEntry.kind = prog[b].op /\ InnerEntry.at = b
<1>1. Reached(prog, lines, stack, spc, Len(stack))
  BY TextHere
<1>2. Len(stack) > 0 /\ EnteredAt(prog, lines, stack[Len(stack)], b)
  BY <1>1, InnermostIs
<1>3. QED
  BY <1>2 DEF EnteredAt, InnerEntry

\* The loop at b over a command goes on, or ends.
LEMMA NextReadHere ==
  ASSUME ShellHere, NEW b, Opening(prog, b), prog[b].op = "each", NextRead(b), Holds(prog, b, spc),
         \A c : c # b => (Holds(prog, c, spc) <=> Holds(prog, c, b))
  PROVE  ShellThere
<1>1. /\ Len(stack) > 0 /\ InnerEntry = stack[Len(stack)]
      /\ InnerEntry.kind = "each" /\ InnerEntry.at = b
  BY InnerIs
<1>2. Close(prog, b) + 1 \in 1..(Len(prog) + 1) /\ Same(prog, b, Close(prog, b) + 1)
  BY BlockHere, HeldLast DEF ShellHere
<1>3. CASE InnerEntry.n < lines[b].e.n
  <2> DEFINE v == [sh.vars EXCEPT ![lines[b].to] = InnerEntry.n + 1]
             u == Append(SubSeq(stack, 1, Len(stack) - 1), [stack[Len(stack)] EXCEPT !.n = InnerEntry.n + 1])
  <2>1. spc' = b + 1 /\ sh' = [sh EXCEPT !.vars = v] /\ stack' = u
    BY <1>1, <1>3 DEF NextRead, To, With, NoEntry, Under
  <2>2. IsProcess(prog, sh') /\ sh'.slot = sh.slot /\ sh'.olds = sh.olds
    <3>1. IsProcess(prog, sh)
      BY TextHere
    <3> HIDE DEF v
    <3>2. QED
      BY <2>1, <3>1, WithIs
  <2>3. ShellOK(prog, lines, u, sh', stack[Len(stack)].at + 1)
    <3> DEFINE n == InnerEntry.n + 1
    <3>1. u = Append(SubSeq(stack, 1, Len(stack) - 1), [stack[Len(stack)] EXCEPT !.n = n])
      OBVIOUS
    <3> HIDE DEF u, n
    <3>2. QED
      BY <1>1, <2>2, <3>1, Rereads DEF ShellHere
  <2>4. QED
    BY <1>1, <2>1, <2>3 DEF ShellThere
<1>4. CASE ~(InnerEntry.n < lines[b].e.n)
  <2>1. spc' = Close(prog, b) + 1 /\ stack' = NoEntry /\ sh' = InnerEntry.sh
    BY <1>4 DEF NextRead, To
  <2>2. QED
    BY <1>1, <1>2, <2>1, LeavesHere
<1>5. QED
  BY <1>3, <1>4

-----------------------------------------------------------------------------
(* One lemma per action. *)

LEMMA AssignKept ==
  ASSUME ShellHere, ShellAssign
  PROVE  ShellThere
<1>1. Same(prog, spc, spc + 1) /\ spc + 1 \in 1..(Len(prog) + 1)
  BY NextHere DEF ShellAssign
<1>2. UNCHANGED stack /\ spc' = spc + 1 /\ \E v : sh' = With(v)
  BY DEF ShellAssign, To
<1>3. QED
  BY <1>1, <1>2, StaysHere

LEMMA PrintKept ==
  ASSUME ShellHere, ShellPrint
  PROVE  ShellThere
<1>1. Same(prog, spc, spc + 1) /\ spc + 1 \in 1..(Len(prog) + 1)
  BY NextHere DEF ShellPrint
<1>2. UNCHANGED stack /\ spc' = spc + 1 /\ \E v : sh' = With(v)
  BY DEF ShellPrint, To
<1>3. QED
  BY <1>1, <1>2, StaysHere

LEMMA PassKept ==
  ASSUME ShellHere, ShellPass
  PROVE  ShellThere
<1>1. UNCHANGED <<sh, stack>> /\ Structured(prog)
  BY DEF ShellPass, ShellHere
<1>2. CASE Runs("call") /\ To(spc + 1)
  <2>1. Same(prog, spc, spc + 1) /\ spc + 1 \in 1..(Len(prog) + 1) /\ spc' = spc + 1
    BY <1>2, NextHere DEF To
  <2>2. QED
    BY <1>1, <2>1, StaysHere
<1>3. CASE Runs("else") /\ prog[Block(prog, spc)].op = "if" /\ To(Close(prog, Block(prog, spc)) + 1)
  <2> DEFINE b == Block(prog, spc)
  <2>1. spc \in 1..Len(prog) /\ prog[spc].op = "else"
    BY <1>3, RunsIs
  <2>2. Opening(prog, b) /\ prog[b].op = "if" /\ \A c : c # b => (Holds(prog, c, spc) <=> Holds(prog, c, b))
    BY <1>1, <1>3, <2>1, ElseIs, HeldElse
  <2>3. Same(prog, spc, Close(prog, b) + 1) /\ Close(prog, b) + 1 \in 1..(Len(prog) + 1)
    BY <1>1, <2>2, BlockGoes, BlockHere
  <2>4. spc' = Close(prog, b) + 1
    BY <1>3 DEF To
  <2>5. QED
    BY <1>1, <2>3, <2>4, StaysHere
<1>4. CASE Runs("end") /\ prog[Opener(prog, spc)].op \in {"if", "try"} /\ To(spc + 1)
  <2> DEFINE b == Opener(prog, spc)
  <2>1. spc \in 1..Len(prog) /\ prog[spc].op = "end" /\ Len(prog) \in Nat
    BY <1>4, RunsIs, TextHere
  <2>2. Opening(prog, b) /\ Close(prog, b) = spc /\ (~Holds(prog, b, spc) => Same(prog, spc, spc + 1))
    BY <1>1, <2>1, AtEnd
  <2>3. ~Holds(prog, b, spc)
    <3>1. CASE prog[b].op = "if"
      BY <3>1 DEF Holds
    <3>2. CASE prog[b].op = "try"
      <4>1. Shut(prog, b) \in 1..Len(prog) /\ Shut(prog, b) < spc
        BY <1>1, <2>2, <3>2, TryIs
      <4>2. QED
        BY <2>1, <4>1 DEF Holds
    <3>3. QED
      BY <1>4, <3>1, <3>2
  <2>4. spc' = spc + 1 /\ spc + 1 \in 1..(Len(prog) + 1)
    BY <1>4, <2>1 DEF To
  <2>5. QED
    BY <1>1, <2>2, <2>3, <2>4, StaysHere
<1>5. QED
  BY <1>2, <1>3, <1>4 DEF ShellPass

LEMMA FnKept ==
  ASSUME ShellHere, ShellFn
  PROVE  ShellThere
<1>1. spc \in 1..Len(prog) /\ prog[spc].op = "fn" /\ Structured(prog)
  BY RunsIs DEF ShellFn, ShellHere
<1>2. Opening(prog, spc)
  BY <1>1, WordsApart DEF Opening
<1>3. Same(prog, spc, Close(prog, spc) + 1) /\ Close(prog, spc) + 1 \in 1..(Len(prog) + 1)
  BY <1>1, <1>2, HeldLast, BlockHere
<1>4. UNCHANGED stack /\ spc' = Close(prog, spc) + 1 /\ \E v : sh' = [sh EXCEPT !.fns = v]
  BY DEF ShellFn, To
<1>5. QED
  BY <1>3, <1>4, StaysHere

LEMMA TestKept ==
  ASSUME ShellHere, ShellTest
  PROVE  ShellThere
<1>1. spc \in 1..Len(prog) /\ prog[spc].op \in {"if", "while"} /\ Run.op = prog[spc].op /\ Structured(prog)
  BY RunsIs DEF ShellTest, ShellHere, Runs
<1>2. Opening(prog, spc) /\ Same(prog, spc, spc)
  BY <1>1, SameSelf DEF Opening, Openers
<1>3. /\ Same(prog, spc, spc + 1) /\ Same(prog, spc, Close(prog, spc) + 1)
      /\ spc + 1 \in 1..(Len(prog) + 1) /\ Close(prog, spc) + 1 \in 1..(Len(prog) + 1)
  BY <1>1, <1>2, BlockGoes, BlockHere
<1>4. Run.op = "if" => Same(prog, spc, Otherwise(prog, spc)) /\ Otherwise(prog, spc) \in 1..(Len(prog) + 1)
  BY <1>1, <1>2, IfGoes
<1>5. /\ UNCHANGED <<sh, stack>>
      /\ spc' = IF Result(Run.e) = 1 THEN spc + 1
                ELSE IF Run.op = "if" THEN Otherwise(prog, spc) ELSE Close(prog, spc) + 1
  BY DEF ShellTest, To
<1>6. Same(prog, spc, spc') /\ spc' \in 1..(Len(prog) + 1)
  BY <1>3, <1>4, <1>5
<1>7. QED
  BY <1>5, <1>6, StaysHere

\* The while of a for, from wherever in the loop it is reached.
LEMMA TestForKept ==
  ASSUME ShellHere, NEW b, Opening(prog, b), prog[b].op = "for", NEW v, TestFor(b, v), UNCHANGED stack,
         \A c : c # b => (Holds(prog, c, spc) <=> Holds(prog, c, b))
  PROVE  ShellThere
<1>1. /\ Same(prog, spc, b + 1) /\ Same(prog, spc, Close(prog, b) + 1)
      /\ b + 1 \in 1..(Len(prog) + 1) /\ Close(prog, b) + 1 \in 1..(Len(prog) + 1)
  BY BlockGoes, BlockHere DEF ShellHere
<1>2. spc' \in {b + 1, Close(prog, b) + 1} /\ \E w : sh' = With(w)
  BY DEF TestFor, To
<1>3. QED
  BY <1>1, <1>2, StaysHere

LEMMA ForKept ==
  ASSUME ShellHere, ShellFor
  PROVE  ShellThere
<1>1. spc \in 1..Len(prog) /\ prog[spc].op = "for"
  BY RunsIs DEF ShellFor
<1>2. Opening(prog, spc)
  BY <1>1 DEF Opening, Openers
<1>3. UNCHANGED stack /\ \E v : TestFor(spc, v)
  BY DEF ShellFor
<1>4. QED
  BY <1>1, <1>2, <1>3, TestForKept

LEMMA EachKept ==
  ASSUME ShellHere, ShellEach
  PROVE  ShellThere
<1>1. spc \in 1..Len(prog) /\ prog[spc].op = "each" /\ Structured(prog)
  BY RunsIs DEF ShellEach, ShellHere
<1>2. Opening(prog, spc)
  BY <1>1 DEF Opening, Openers
<1>3. CASE Run.e.n = 0
  <2>1. Same(prog, spc, Close(prog, spc) + 1) /\ Close(prog, spc) + 1 \in 1..(Len(prog) + 1)
    BY <1>1, <1>2, HeldLast, BlockHere
  <2>2. UNCHANGED <<sh, stack>> /\ spc' = Close(prog, spc) + 1
    BY <1>3 DEF ShellEach, To
  <2>3. QED
    BY <2>1, <2>2, StaysHere
<1>4. CASE Run.e.n # 0
  <2> DEFINE e == Entry("each", 1)
             v == [sh.vars EXCEPT ![Run.to] = 1]
  <2>1. spc' = spc + 1 /\ stack' = Append(stack, e) /\ sh' = [sh EXCEPT !.vars = v]
    BY <1>4 DEF ShellEach, To, With
  <2>2. IsEntry(e) /\ e.kind = "each" /\ e.at = spc /\ e.sh = sh
    BY DEF Entry, IsEntry
  <2> HIDE DEF e, v
  <2>3. IsProcess(prog, sh') /\ sh'.slot = sh.slot /\ sh'.olds = sh.olds
    BY <2>1, TextHere, WithIs
  <2>4. ShellOK(prog, lines, Append(stack, e), sh', spc + 1)
    BY <1>1, <1>2, <2>2, <2>3, Enters DEF ShellHere
  <2>5. QED
    BY <2>1, <2>4 DEF ShellThere
<1>5. QED
  BY <1>3, <1>4

LEMMA DoneKept ==
  ASSUME ShellHere, ShellDone
  PROVE  ShellThere
<1> DEFINE b == Opener(prog, spc)
<1>1. spc \in 1..Len(prog) /\ prog[spc].op = "end" /\ Structured(prog) /\ prog[b].op \in Loops
  BY RunsIs DEF ShellDone, ShellHere
<1>2. /\ Opening(prog, b) /\ Close(prog, b) = spc /\ b < spc
      /\ \A c : c # b => (Holds(prog, c, spc) <=> Holds(prog, c, b))
  BY <1>1, AtEnd
<1>3. CASE prog[b].op = "for"
  <2>1. (\E v : TestFor(b, v)) /\ UNCHANGED stack
    BY <1>3 DEF ShellDone
  <2>2. QED
    BY <1>2, <1>3, <2>1, TestForKept
<1>4. CASE prog[b].op = "while"
  <2>1. UNCHANGED <<sh, stack>> /\ spc' = b
    BY <1>4 DEF ShellDone, To
  <2>2. Same(prog, spc, b) /\ b \in 1..(Len(prog) + 1)
    BY <1>1, <1>2, <1>4, BlockGoes, BlockHere
  <2>3. QED
    BY <2>1, <2>2, StaysHere
<1>5. CASE prog[b].op = "each"
  <2>1. NextRead(b)
    BY <1>5 DEF ShellDone
  <2>2. Holds(prog, b, spc)
    <3>1. spc <= Close(prog, b)
      BY <1>1, <1>2
    <3>2. QED
      BY <1>2, <1>5, <3>1 DEF Holds, Shut
  <2>3. QED
    BY <1>2, <1>5, <2>1, <2>2, NextReadHere
<1>6. QED
  BY <1>1, <1>3, <1>4, <1>5 DEF Loops

LEMMA ContinueKept ==
  ASSUME ShellHere, ShellContinue
  PROVE  ShellThere
<1> DEFINE b == LoopAround(prog, spc)
<1>1. spc \in 1..Len(prog) /\ prog[spc].op = "continue" /\ Structured(prog)
  BY RunsIs DEF ShellContinue, ShellHere
<1>2. /\ Opening(prog, b) /\ prog[b].op \in Loops /\ b < spc /\ spc < Close(prog, b)
      /\ \A c : c # b => (Holds(prog, c, spc) <=> Holds(prog, c, b))
  BY <1>1, LoopIs
<1>3. CASE prog[b].op = "for"
  <2>1. (\E v : TestFor(b, v)) /\ UNCHANGED stack
    BY <1>3 DEF ShellContinue
  <2>2. QED
    BY <1>2, <1>3, <2>1, TestForKept
<1>4. CASE prog[b].op = "while"
  <2>1. UNCHANGED <<sh, stack>> /\ spc' = b
    BY <1>4 DEF ShellContinue, To
  <2>2. Same(prog, spc, b) /\ b \in 1..(Len(prog) + 1)
    BY <1>1, <1>2, <1>4, BlockGoes, BlockHere
  <2>3. QED
    BY <2>1, <2>2, StaysHere
<1>5. CASE prog[b].op = "each"
  <2>1. NextRead(b)
    BY <1>5 DEF ShellContinue
  <2>2. Holds(prog, b, spc)
    <3>1. spc <= Close(prog, b)
      BY <1>1, <1>2, BlockHere
    <3>2. QED
      BY <1>2, <1>5, <3>1 DEF Holds, Shut
  <2>3. QED
    BY <1>2, <1>5, <2>1, <2>2, NextReadHere
<1>6. QED
  BY <1>2, <1>3, <1>4, <1>5 DEF Loops

LEMMA BreakKept ==
  ASSUME ShellHere, ShellBreak
  PROVE  ShellThere
<1> DEFINE b == LoopAround(prog, spc)
<1>1. spc \in 1..Len(prog) /\ prog[spc].op = "break" /\ Structured(prog)
  BY RunsIs DEF ShellBreak, ShellHere
<1>2. /\ Opening(prog, b) /\ prog[b].op \in Loops /\ b < spc /\ spc < Close(prog, b)
      /\ \A c : c # b => (Holds(prog, c, spc) <=> Holds(prog, c, b))
  BY <1>1, LoopIs
<1>3. spc' = Close(prog, b) + 1 /\ Close(prog, b) + 1 \in 1..(Len(prog) + 1)
  BY <1>2, BlockHere DEF ShellBreak, To
<1>4. CASE prog[b].op # "each"
  <2>1. UNCHANGED <<sh, stack>>
    BY <1>4 DEF ShellBreak
  <2>2. Same(prog, spc, Close(prog, b) + 1)
    BY <1>1, <1>2, <1>4, BlockGoes DEF Loops
  <2>3. QED
    BY <1>3, <2>1, <2>2, StaysHere
<1>5. CASE prog[b].op = "each"
  <2>1. stack' = NoEntry /\ sh' = InnerEntry.sh
    BY <1>5 DEF ShellBreak
  <2>2. Holds(prog, b, spc)
    <3>1. spc <= Close(prog, b)
      BY <1>1, <1>2, BlockHere
    <3>2. QED
      BY <1>2, <1>5, <3>1 DEF Holds, Shut
  <2>3. Len(stack) > 0 /\ InnerEntry.kind = "each" /\ InnerEntry.at = b
    BY <1>2, <1>5, <2>2, InnerIs
  <2>4. Same(prog, b, Close(prog, b) + 1)
    BY <1>1, <1>2, HeldLast
  <2>5. QED
    BY <1>3, <2>1, <2>3, <2>4, LeavesHere
<1>6. QED
  BY <1>4, <1>5

LEMMA TryKept ==
  ASSUME ShellHere, ShellTry
  PROVE  ShellThere
<1>1. spc \in 1..Len(prog) /\ prog[spc].op = "try" /\ Structured(prog)
  BY RunsIs DEF ShellTry, ShellHere
<1>2. Opening(prog, spc)
  BY <1>1 DEF Opening, Openers
<1> DEFINE e == Entry("try", 0)
<1>3. spc' = spc + 1 /\ stack' = Append(stack, e) /\ sh' = sh
  BY DEF ShellTry, To
<1>4. IsEntry(e) /\ e.kind = "try" /\ e.at = spc /\ e.sh = sh
  BY DEF Entry, IsEntry
<1> HIDE DEF e
<1>5. ShellOK(prog, lines, Append(stack, e), sh', spc + 1)
  BY <1>1, <1>2, <1>3, <1>4, TextHere, Enters DEF ShellHere
<1>6. QED
  BY <1>3, <1>5 DEF ShellThere

LEMMA TriedKept ==
  ASSUME ShellHere, ShellTried
  PROVE  ShellThere
<1> DEFINE b == Block(prog, spc)
<1>1. spc \in 1..Len(prog) /\ prog[spc].op = "else" /\ Structured(prog) /\ prog[b].op = "try"
  BY RunsIs DEF ShellTried, ShellHere
<1>2. /\ Opening(prog, b) /\ b < spc /\ Shut(prog, b) = spc
      /\ \A c : c # b => (Holds(prog, c, spc) <=> Holds(prog, c, b))
  BY <1>1, ElseIs, HeldElse
<1>3. Holds(prog, b, spc)
  BY <1>1, <1>2 DEF Holds
<1>4. Len(stack) > 0 /\ InnerEntry.kind = "try" /\ InnerEntry.at = b
  BY <1>1, <1>2, <1>3, InnerIs
<1>5. Same(prog, b, Close(prog, b) + 1) /\ Close(prog, b) + 1 \in 1..(Len(prog) + 1)
  BY <1>1, <1>2, HeldLast, BlockHere
<1>6. spc' = Close(prog, b) + 1 /\ stack' = NoEntry /\ sh' = InnerEntry.sh
  BY DEF ShellTried, To
<1>7. QED
  BY <1>4, <1>5, <1>6, LeavesHere

LEMMA FailKept ==
  ASSUME ShellHere, ShellFail
  PROVE  ShellThere
<1>1. Same(prog, spc, spc + 1) /\ spc + 1 \in 1..(Len(prog) + 1)
  BY NextHere DEF ShellFail
<1> DEFINE step == To(spc + 1) /\ UNCHANGED sh
<1>2. CASE step /\ UNCHANGED stack
  BY <1>1, <1>2, StaysHere DEF To
<1>3. CASE ~(step /\ UNCHANGED stack)
  BY <1>3, FailsTo DEF ShellFail
<1>4. QED
  BY <1>2, <1>3

LEMMA EndFnKept ==
  ASSUME ShellHere, ShellEndFn
  PROVE  ShellThere
<1> DEFINE b == Opener(prog, spc)
<1>1. spc \in 1..Len(prog) /\ prog[spc].op = "end" /\ Structured(prog) /\ prog[b].op = "fn"
  BY RunsIs DEF ShellEndFn, ShellHere
<1>2. /\ Opening(prog, b) /\ Close(prog, b) = spc /\ b < spc
      /\ \A c : c # b => (Holds(prog, c, spc) <=> Holds(prog, c, b))
  BY <1>1, AtEnd
<1>3. Holds(prog, b, spc)
  BY <1>1, <1>2 DEF Holds, Shut
<1>4. Reached(prog, lines, stack, spc, Len(stack)) /\ IsProcess(prog, sh)
  BY TextHere
<1>5. Len(stack) > 0 /\ EnteredAt(prog, lines, stack[Len(stack)], b)
  BY <1>2, <1>3, <1>4, InnermostIs
<1>6. InnerEntry.kind = "call"
  BY <1>1, <1>5 DEF EnteredAt, InnerEntry
<1>7. LeaveWith(sh)
  BY DEF ShellEndFn
<1>8. QED
  BY <1>4, <1>5, <1>6, <1>7, LeavesCall

LEMMA ReturnKept ==
  ASSUME ShellHere, ShellReturn
  PROVE  ShellThere
<1>1. spc \in 1..Len(prog) /\ prog[spc].op = "return" /\ Structured(prog)
  BY RunsIs DEF ShellReturn, ShellHere
<1>2. PICK f : prog[f].op = "fn" /\ \A b : Holds(prog, b, spc) <=> b = f
  BY <1>1, ReturnIs
<1>3. Reached(prog, lines, stack, spc, Len(stack)) /\ IsProcess(prog, sh)
  BY TextHere
<1>4. Len(stack) > 0 /\ EnteredAt(prog, lines, stack[Len(stack)], f)
  BY <1>2, <1>3, InnermostIs
<1>5. InnerEntry.kind = "call"
  BY <1>2, <1>4 DEF EnteredAt, InnerEntry
<1>6. \E v : LeaveWith([sh EXCEPT !.vars = v])
  BY DEF ShellReturn, ReturnValueOf, With
<1>7. PICK v : LeaveWith([sh EXCEPT !.vars = v])
  BY <1>6
<1>8. /\ IsProcess(prog, [sh EXCEPT !.vars = v])
      /\ [sh EXCEPT !.vars = v].slot = sh.slot /\ [sh EXCEPT !.vars = v].olds = sh.olds
  BY <1>3, WithIs
<1> DEFINE s == [sh EXCEPT !.vars = v]
<1>9. LeaveWith(s) /\ IsProcess(prog, s) /\ s.slot = sh.slot /\ s.olds = sh.olds
  BY <1>7, <1>8
<1> HIDE DEF s
<1>10. QED
  BY <1>4, <1>5, <1>9, LeavesCall

\* A process that has put something else aside for a call not under way.
LEMMA FitsStill ==
  ASSUME NEW p, NEW ls, NEW st, NEW k, NEW s, Fits(p, ls, st, s, k),
         NEW i, \A j \in 1..k : st[j].kind = "call" => st[j].at \in 1..Len(p) /\ st[j].at # i,
         NEW t, IsProcess(p, t), t.slot = s.slot,
         \A j \in 1..Len(p) : j # i => t.olds[j] = s.olds[j]
  PROVE  Fits(p, ls, st, t, k)
<1>1. \A j \in 1..k : Wants(ls, st, j) => t.olds[st[j].at] = s.olds[st[j].at]
  BY DEF Wants
<1>2. QED
  BY <1>1 DEF Fits

LEMMA CallKept ==
  ASSUME ShellHere, ShellCall
  PROVE  ShellThere
<1> DEFINE i == spc
           f == FnAt(prog, Run.e.f)
           begun == IF Into(spc) THEN SlotInto(spc) ELSE sh
           step == sh' = Restored(begun, spc) /\ back' = TRUE /\ UNCHANGED spc
<1>1. Len(prog) \in Nat /\ DOMAIN prog = 1..Len(prog) /\ IsProcess(prog, sh) /\ i \in 1..Len(prog)
      /\ lines[i].e.k = "call" /\ f = FnAt(prog, lines[i].e.f)
  <2>1. Len(prog) \in Nat /\ DOMAIN prog = 1..Len(prog) /\ IsProcess(prog, sh) /\ spc \in 1..(Len(prog) + 1)
    BY TextHere
  <2>2. ~(spc > Len(prog)) /\ lines[i].e.k = "call"
    BY DEF ShellCall, MustCall, ShellEnded, Run
  <2>3. QED
    BY <2>1, <2>2 DEF Run
<1>2. /\ IsProcess(prog, begun)
      /\ IF lines[i].to # NoVar
         THEN /\ begun.slot = lines[i].to /\ begun.olds[i] = sh.slot
              /\ \A j \in 1..Len(prog) : j # i => begun.olds[j] = sh.olds[j]
         ELSE begun.slot = sh.slot /\ begun.olds = sh.olds
  BY <1>1 DEF IsProcess, SlotInto, Into
<1>3. CASE Run.e.f \in sh.fns
  <2> DEFINE arg == IF Run.e.v = NoVar THEN Run.e.n ELSE begun.vars[Run.e.v]
             e == Entry("call", 0)
  <2>1. sh' = [begun EXCEPT !.vars[lines[f].to] = arg] /\ stack' = Append(stack, e) /\ spc' = f + 1
    BY <1>3 DEF ShellCall, To
  <2>2. IsEntry(e) /\ e.kind = "call" /\ e.at = i
    BY DEF Entry, IsEntry
  <2> HIDE DEF arg, e, begun
  <2>3. IsProcess(prog, sh') /\ sh'.slot = begun.slot /\ sh'.olds = begun.olds
    BY <1>2, <2>1 DEF IsProcess
  <2>4. IF lines[i].to # NoVar
        THEN /\ sh'.slot = lines[i].to /\ sh'.olds[i] = sh.slot
             /\ \A j \in 1..Len(prog) : j # i => sh'.olds[j] = sh.olds[j]
        ELSE sh'.slot = sh.slot /\ sh'.olds = sh.olds
    BY <1>2, <2>3
  <2>5. ShellOK(prog, lines, Append(stack, e), sh', FnAt(prog, lines[i].e.f) + 1)
    BY <1>1, <2>2, <2>3, <2>4, CallEnters DEF ShellHere
  <2>6. QED
    BY <1>1, <2>1, <2>5 DEF ShellThere
<1>4. CASE Run.e.f \notin sh.fns
  <2>1. Failing(step)
    BY <1>4 DEF ShellCall
  <2>2. CASE ~(step /\ UNCHANGED stack)
    <3> HIDE DEF step
    <3>1. QED
      BY <2>1, <2>2, FailsTo
  <2>3. CASE step /\ UNCHANGED stack
    <3>1. sh' = Restored(begun, i) /\ spc' = i /\ UNCHANGED stack
      BY <2>3
    <3> HIDE DEF begun, step
    <3>2. IsProcess(prog, sh') /\ sh'.slot = sh.slot /\ \A j \in 1..Len(prog) : j # i => sh'.olds[j] = sh.olds[j]
      BY <1>1, <1>2, <3>1 DEF Restored, Into, IsProcess
    <3>3. /\ StackOK(prog, lines, stack) /\ Reached(prog, lines, stack, i, Len(stack))
          /\ Fits(prog, lines, stack, sh, Len(stack)) /\ Structured(prog) /\ LinesOK(prog, lines)
      BY DEF ShellHere, ShellOK
    <3>4. \A j \in 1..Len(stack) : stack[j].kind = "call" => stack[j].at \in 1..Len(prog) /\ stack[j].at # i
      <4> SUFFICES ASSUME NEW j \in 1..Len(stack), stack[j].kind = "call"
                   PROVE  stack[j].at \in 1..Len(prog) /\ stack[j].at # i
        OBVIOUS
      <4>1. EntryOK(prog, lines, stack, j)
        BY <3>3 DEF StackOK
      <4>2. stack[j].at \in 1..Len(prog) /\ i < stack[j].at
        BY <3>3, <4>1, AboveCalls DEF EntryOK
      <4>3. QED
        BY <1>1, <4>2
    <3>5. Fits(prog, lines, stack, sh', Len(stack))
      BY <3>2, <3>3, <3>4, FitsStill
    <3>6. QED
      BY <3>1, <3>3, <3>5 DEF ShellThere, ShellOK
  <2>4. QED
    BY <2>2, <2>3
<1>5. QED
  BY <1>3, <1>4

LEMMA StepKept ==
  ASSUME ShellHere, ShellStep
  PROVE  ShellThere
  BY CallKept, AssignKept, PrintKept, ReturnKept, PassKept, FnKept, TestKept, ForKept, EachKept,
     DoneKept, ContinueKept, BreakKept, TryKept, TriedKept, FailKept, EndFnKept DEF ShellStep

-----------------------------------------------------------------------------
(* The lines the generator writes. *)

LEMMA ExprRHSIs ==
  ASSUME NEW e
  PROVE  ExprRHS(e).k = "call" => e.k = "call" /\ ExprRHS(e).f = e.f
  BY DEF ExprRHS, Number, Sh

LEMMA EmitKept ==
  ASSUME LinesOK(prog, lines), NEW to, NEW e, Emit(to, e),
         e.k = "call" => Calls(Cur) /\ e.f = Cur.e.f
  PROVE  LinesOK(prog, lines')
<1> DEFINE l == Line(Cur.op, to, e)
<1>1. lines' = [lines EXCEPT ![at] = l] /\ l.op = prog[at].op /\ l.e = e /\ Cur = prog[at]
  BY DEF Emit, Line, Cur
<1> HIDE DEF l
<1>2. /\ lines = [i \in DOMAIN prog |-> lines[i]]
      /\ \A i \in DOMAIN prog : /\ lines[i].op \in {"", prog[i].op}
                                /\ lines[i].e.k = "call" => Calls(prog[i]) /\ lines[i].e.f = prog[i].e.f
  BY DEF LinesOK
<1>3. /\ lines' = [i \in DOMAIN prog |-> lines'[i]]
      /\ \A i \in DOMAIN prog : lines'[i] = IF i = at THEN l ELSE lines[i]
  BY <1>1, <1>2
<1>4. QED
  BY <1>1, <1>2, <1>3 DEF LinesOK

LEMMA GenKept ==
  ASSUME LinesOK(prog, lines), GenStep
  PROVE  LinesOK(prog, lines')
<1>1. /\ (\A n : Number(n).k = "lit") /\ (\A v, n, f : Sh("less", v, n, f).k = "less")
      /\ \A e : Condition(e).k \in {"lit", "less"}
      /\ \A x : Plus(x).k = "plus"
  BY DEF Number, Sh, Condition, Plus, Exp
<1>2. \A op : GenReady(op) => Cur.op = op
  BY DEF GenReady
<1>3. Calls(Cur) <=> Cur.op # "fn" /\ Cur.e.k = "call"
  BY DEF Calls
<1>4. \E to, e : Emit(to, e) /\ (e.k = "call" => Calls(Cur) /\ e.f = Cur.e.f)
  <2>1. CASE GenLetDecl
    <3>1. Emit(ResolveVarName(Cur.x), ExprRHS(Cur.e)) /\ Cur.op = "let"
      BY <1>2, <2>1 DEF GenLetDecl
    <3>2. QED
      BY <1>3, <3>1, ExprRHSIs
  <2>2. CASE GenAssignment
    <3>1. Emit(ResolveVarName(Cur.x), ExprRHS(Cur.e)) /\ Cur.op = "set"
      BY <1>2, <2>2 DEF GenAssignment
    <3>2. QED
      BY <1>3, <3>1, ExprRHSIs
  <2>3. CASE GenExprStmt
    <3>1. Emit(NoVar, ExprRHS(Cur.e)) /\ Cur.op \in {"log", "call"}
      BY <1>2, <2>3 DEF GenExprStmt
    <3>2. QED
      BY <1>3, <3>1, ExprRHSIs
  <2>4. CASE GenReturn
    <3>1. Emit(ReturnValue(at), ExprRHS(Cur.e)) /\ Cur.op = "return"
      BY <1>2, <2>4 DEF GenReturn
    <3>2. QED
      BY <1>3, <3>1, ExprRHSIs
  <2>5. CASE GenWord \/ GenElse \/ GenTry \/ GenEnd
    <3>1. Emit(NoVar, Number(0))
      BY <2>5 DEF GenWord, GenElse, GenTry, GenEnd, EmitWord
    <3>2. QED
      BY <1>1, <3>1
  <2>6. CASE GenIf \/ GenWhile
    <3>1. Emit(NoVar, Condition(Cur.e))
      BY <2>6 DEF GenIf, GenWhile
    <3>2. QED
      BY <1>1, <3>1
  <2>7. CASE GenCStyleFor
    <3>1. \E v, n, f, m : Emit(v, Sh("less", v, n, f)) \/ Emit(v, Number(m))
      BY <2>7 DEF GenCStyleFor
    <3>2. QED
      BY <1>1, <3>1
  <2>8. CASE GenUpdate
    <3> DEFINE x == prog[Opener(prog, at)].x
    <3>1. \E v : Emit(v, ExprRHS(Plus(x)))
      BY <2>8 DEF GenUpdate
    <3>2. ExprRHS(Plus(x)).k # "call"
      BY <1>1, ExprRHSIs
    <3> HIDE DEF x
    <3>3. QED
      BY <3>1, <3>2
  <2>9. CASE GenForShell \/ GenCatch \/ GenFnDecl
    <3>1. \E v, n : Emit(v, Number(n))
      BY <2>9 DEF GenForShell, GenCatch, GenFnDecl
    <3>2. QED
      BY <1>1, <3>1
  <2>10. QED
    BY <2>1, <2>2, <2>3, <2>4, <2>5, <2>6, <2>7, <2>8, <2>9 DEF GenStep
<1>5. QED
  BY <1>4, EmitKept

-----------------------------------------------------------------------------
(* The theorem. *)

\* Before the script runs.
Fresh == stack = <<>> /\ spc = 1 /\ IsProcess(prog, sh) /\ sh.slot = NoVar

LEMMA FreshIs ==
  ASSUME NEW p, IsText(p), NEW ls, NEW st, st = <<>>, NEW s, IsProcess(p, s), s.slot = NoVar
  PROVE  ShellOK(p, ls, st, s, 1)
<1>1. Len(st) = 0 /\ IsStack(st)
  <2>1. st \in Seq({}) /\ Len(st) = 0
    OBVIOUS
  <2>2. QED
    BY <2>1, StackShape
<1>2. \A b : ~Holds(p, b, 1)
  BY DEF Holds, Opening
<1>3. \A j : j \notin 1..0
  OBVIOUS
<1>4. 1 \in 1..(Len(p) + 1)
  BY DEF IsText
<1>5. Reached(p, ls, st, 1, 0) /\ Fits(p, ls, st, s, 0)
  BY <1>2, <1>3, <1>4 DEF Reached, Fits, SlotIs
<1>6. StackOK(p, ls, st)
  BY <1>1, <1>3 DEF StackOK
<1>7. QED
  BY <1>1, <1>5, <1>6 DEF ShellOK

\* The script runs when all of it is written, and keeps its slots as ShellOK
\* says.
SlotsKept ==
  /\ prog \in Programs
  /\ Structured(prog) =>
       /\ at \in 1..(Len(prog) + 1) /\ LinesOK(prog, lines)
       /\ ~Generated => Fresh
       /\ ShellOK(prog, lines, stack, sh, spc)

LEMMA TextIs ==
  ASSUME NEW p \in Programs
  PROVE  IsText(p)
<1> DEFINE S == [op : STRING, x : STRING, e : [k : STRING, x : STRING, n : Nat, f : STRING]]
<1>1. p \in Seq(S)
  BY ProgramsAssumption
<1> HIDE DEF S
<1>2. QED
  BY <1>1, LenProperties DEF IsText

LEMMA FreshFits ==
  ASSUME prog \in Programs, Fresh
  PROVE  ShellOK(prog, lines, stack, sh, spc)
  BY TextIs, FreshIs DEF Fresh

LEMMA SlotsInit ==
  ASSUME Init
  PROVE  SlotsKept
<1>1. /\ prog \in Programs /\ at = 1 /\ lines = [i \in DOMAIN prog |-> NoLine]
      /\ spc = 1 /\ stack = <<>>
      /\ sh = [vars |-> [v \in ShellVars(prog) |-> Empty], fns |-> {}, slot |-> NoVar,
                olds |-> [i \in DOMAIN prog |-> NoVar]]
  BY DEF Init, GenInit, ShellInit
<1>2. LinesOK(prog, lines)
  <2>1. NoLine.op = "" /\ NoLine.e.k = "lit"
    BY DEF NoLine, Line, Number, Sh
  <2>2. QED
    BY <1>1, <2>1 DEF LinesOK
<1>3. Fresh
  BY <1>1 DEF Fresh, IsProcess
<1>4. ShellOK(prog, lines, stack, sh, spc)
  BY <1>1, <1>3, FreshFits
<1>5. at \in 1..(Len(prog) + 1)
  BY <1>1, TextIs DEF IsText
<1>6. QED
  BY <1>1, <1>2, <1>3, <1>4, <1>5 DEF SlotsKept

\* The generator goes on to a statement, or ends.
LEMMA AtKept ==
  ASSUME Structured(prog), at \in 1..(Len(prog) + 1), GenStep
  PROVE  at \in 1..Len(prog) /\ at' \in 1..(Len(prog) + 1)
<1>1. Len(prog) \in Nat /\ Blocks(prog)
  BY DEF Structured, Blocks, IsText
<1>2. at <= Len(prog)
  BY DEF GenStep, GenLetDecl, GenAssignment, GenExprStmt, GenReturn, GenWord, GenIf, GenElse,
     GenWhile, GenCStyleFor, GenUpdate, GenForShell, GenTry, GenCatch, GenFnDecl, GenEnd, GenReady
<1>3. at \in 1..Len(prog) /\ at + 1 \in 1..(Len(prog) + 1)
  BY <1>1, <1>2
<1>4. CASE GenIf
  <2>1. prog[at].op = "if" /\ at' \in {at + 1, Otherwise(prog, at)}
    BY <1>4 DEF GenIf, GenReady, Cur, FoldedIf
  <2>2. Opening(prog, at)
    BY <1>3, <2>1 DEF Opening, Openers
  <2>3. QED
    BY <1>3, <2>1, <2>2, IfGoes
<1>5. CASE GenElse
  <2> DEFINE b == Block(prog, at)
  <2>1. prog[at].op = "else" /\ at' \in {at + 1, Close(prog, b)}
    BY <1>5 DEF GenElse, GenReady, Cur
  <2>2. Opening(prog, b)
    BY <1>3, <2>1, ElseIs
  <2>3. Close(prog, b) \in 1..Len(prog)
    BY <1>1, <2>2, CloseAfter
  <2>4. QED
    BY <1>1, <1>3, <2>1, <2>3
<1>6. CASE ~GenIf /\ ~GenElse
  <2>1. at' = at + 1
    BY <1>6 DEF GenStep, GenLetDecl, GenAssignment, GenExprStmt, GenReturn, GenWord,
       GenWhile, GenCStyleFor, GenUpdate, GenForShell, GenTry, GenCatch, GenFnDecl, GenEnd
  <2>2. QED
    BY <1>3, <2>1
<1>7. QED
  BY <1>3, <1>4, <1>5, <1>6

LEMMA SlotsNext ==
  ASSUME SlotsKept, [Next]_vars
  PROVE  SlotsKept'
<1>1. CASE Generate
  <2>1. GenStep /\ UNCHANGED <<prog, spc, sh, stack>> /\ prog \in Programs
    BY <1>1 DEF Generate, shellVars, SlotsKept
  <2>2. SUFFICES ASSUME Structured(prog) PROVE SlotsKept'
    BY <2>1 DEF SlotsKept
  <2>3. at \in 1..(Len(prog) + 1) /\ LinesOK(prog, lines) /\ (~Generated => Fresh)
    BY <2>2 DEF SlotsKept
  <2>4. at \in 1..Len(prog) /\ at' \in 1..(Len(prog') + 1)
    BY <2>1, <2>2, <2>3, AtKept
  <2>5. ~Generated
    <3>1. Len(prog) \in Nat
      BY <2>2 DEF Structured, Blocks, IsText
    <3>2. ~(at > Len(prog))
      BY <2>4, <3>1
    <3>3. QED
      BY <3>2 DEF Generated
  <2>6. LinesOK(prog', lines') /\ Fresh'
    BY <2>1, <2>3, <2>5, GenKept DEF Fresh
  <2>7. ShellOK(prog', lines', stack', sh', spc')
    BY <2>1, <2>6, TextIs, FreshIs DEF Fresh
  <2>8. QED
    BY <2>1, <2>4, <2>6, <2>7 DEF SlotsKept
<1>2. CASE RunScript
  <2>1. Generated /\ ShellStep /\ UNCHANGED <<prog, at, lines>>
    BY <1>2 DEF RunScript, genVars
  <2>2. SUFFICES ASSUME Structured(prog) PROVE SlotsKept'
    BY <2>1 DEF SlotsKept
  <2>3. Generated' /\ prog' \in Programs /\ LinesOK(prog', lines') /\ at' \in 1..(Len(prog') + 1)
    BY <2>1, <2>2 DEF SlotsKept, Generated
  <2>4. ShellOK(prog', lines', stack', sh', spc')
    BY <2>1, <2>2, StepKept DEF SlotsKept, ShellHere, ShellThere
  <2>5. QED
    BY <2>3, <2>4 DEF SlotsKept
<1>3. CASE RunSource \/ UNCHANGED vars
  <2>1. UNCHANGED <<prog, at, lines, spc, sh, stack>>
    BY <1>3 DEF RunSource, vars, genVars, shellVars
  <2>2. QED
    BY <2>1 DEF SlotsKept, Generated, Fresh
<1>4. QED
  BY <1>1, <1>2, <1>3 DEF Next

LEMMA SlotsReach ==
  ASSUME SlotsKept, IsProgram(prog), NoReturnInside(prog), CalledAfter(prog)
  PROVE  ReturnsReachTheirCall
<1>1. Structured(prog)
  BY TextIs DEF SlotsKept, IsProgram, Structured, Blocks
<1>2. IsStack(stack) /\ SlotIs(lines, stack, Len(stack), sh.slot)
  BY <1>1 DEF SlotsKept, ShellOK, StackOK, Fits
<1>3. QED
  BY <1>2, SlotReaches

\* In the script of every program that JavaScript accepts, in which no
\* function returns from within a process and each is called after its end,
\* the return slot (emitCommandIntoVar, genReturn) names the target of the
\* innermost call that wants a value, and nothing outside such calls: through
\* nested calls, loops, processes that are left with what they put aside, and
\* failures that unwind to a try.
THEOREM ScriptReturnsReachTheirCall ==
  Spec => [](IsProgram(prog) /\ NoReturnInside(prog) /\ CalledAfter(prog) => ReturnsReachTheirCall)
<1>1. Init => SlotsKept
  BY SlotsInit
<1>2. SlotsKept /\ [Next]_vars => SlotsKept'
  BY SlotsNext
<1>3. SlotsKept => (IsProgram(prog) /\ NoReturnInside(prog) /\ CalledAfter(prog) => ReturnsReachTheirCall)
  BY SlotsReach
<1>4. QED
  BY <1>1, <1>2, <1>3, PTL DEF Spec

=============================================================================
