----------------------------- MODULE ProofBasics ----------------------------
(***************************************************************************)
(* Induction and recursion over the natural numbers, stated with sets and  *)
(* functions instead of operators, so that the provers can instantiate     *)
(* them; they rest on the well-foundedness of < on Nat.  And what inserting *)
(* in and removing from a sequence does.                                   *)
(***************************************************************************)
EXTENDS Integers, Sequences, SequencesExt, SequenceTheorems, WellFoundedInduction, TLAPS

\* A nonempty set of natural numbers has a least element.
LEMMA LeastNumber ==
  ASSUME NEW S \in SUBSET Nat, S # {}
  PROVE  \E m \in S : \A k \in S : m <= k
  <1>1. IsWellFoundedOn(OpToRel(<, Nat), Nat)
    BY NatLessThanWellFounded
  <1>2. PICK m \in S : \A y \in S : ~ (<<y, m>> \in OpToRel(<, Nat))
    BY <1>1, WFMin
  <1>3. \A y \in S : ~(y < m)
    BY <1>2 DEF OpToRel
  <1> QED
    BY <1>3

\* Induction over an initial segment of the natural numbers.
LEMMA SegmentInduction ==
  ASSUME NEW n \in Nat, NEW S, 0 \in S, \A i \in 1..n : i - 1 \in S => i \in S
  PROVE  \A i \in 0..n : i \in S
  <1> DEFINE Bad == {i \in 0..n : i \notin S}
  <1> SUFFICES ASSUME Bad # {} PROVE FALSE
    OBVIOUS
  <1>1. Bad \in SUBSET Nat
    OBVIOUS
  <1>2. PICK m \in Bad : \A k \in Bad : m <= k
    <2> HIDE DEF Bad
    <2> QED
      BY <1>1, LeastNumber
  <1>3. m \in 0..n /\ m \notin S
    OBVIOUS
  <1>4. m \in 1..n /\ m - 1 \in 0..n
    BY <1>3
  <1>5. m - 1 \notin Bad
    BY <1>2, <1>4
  <1> QED
    BY <1>3, <1>4, <1>5

\* f has the first value x0, and step[i] makes its i-th value from the one before.
Iterates(f, x0, n, step) ==
  f[0] = x0 /\ \A i \in 1..n : f[i] = step[i][f[i - 1]]

\* Primitive recursion: a first value and a step function for each number have
\* a sequence of values on every initial segment.
LEMMA Recursion ==
  ASSUME NEW X, NEW x0 \in X, NEW n \in Nat, NEW step \in [1..n -> [X -> X]]
  PROVE  \E f \in [0..n -> X] : Iterates(f, x0, n, step)
  <1> DEFINE S == {m \in 0..n : \E f \in [0..m -> X] :
                     f[0] = x0 /\ \A i \in 1..m : f[i] = step[i][f[i - 1]]}
  <1>1. 0 \in S
    <2> DEFINE f == [i \in 0..0 |-> x0]
    <2>1. f \in [0..0 -> X] /\ f[0] = x0 /\ \A i \in 1..0 : f[i] = step[i][f[i - 1]]
      OBVIOUS
    <2>2. 0 \in 0..n
      OBVIOUS
    <2> HIDE DEF f
    <2> QED
      BY <2>1, <2>2
  <1>2. ASSUME NEW m \in 1..n, m - 1 \in S PROVE m \in S
    <2>1. PICK g \in [0..(m - 1) -> X] :
            g[0] = x0 /\ \A i \in 1..(m - 1) : g[i] = step[i][g[i - 1]]
      BY <1>2
    <2> DEFINE y == step[m][g[m - 1]]
               f == [i \in 0..m |-> IF i = m THEN y ELSE g[i]]
    <2>2. y \in X
      <3>1. g[m - 1] \in X
        OBVIOUS
      <3> QED
        BY <3>1
    <2>3. f \in [0..m -> X]
      <3> HIDE DEF y
      <3>1. \A i \in 0..m : i # m => i \in 0..(m - 1)
        OBVIOUS
      <3> QED
        BY <2>2, <3>1
    <2>4. f[0] = x0
      BY <2>1
    <2>5. ASSUME NEW i \in 1..m PROVE f[i] = step[i][f[i - 1]]
      <3>1. i \in 0..m /\ i - 1 \in 0..m /\ i - 1 # m
        OBVIOUS
      <3>2. f[i - 1] = g[i - 1]
        BY <3>1
      <3>3. CASE i = m
        <4>1. f[i] = y
          BY <3>1, <3>3
        <4> QED
          BY <3>2, <3>3, <4>1
      <3>4. CASE i # m
        <4>1. i \in 1..(m - 1) /\ f[i] = g[i]
          BY <3>1, <3>4
        <4>2. g[i] = step[i][g[i - 1]]
          BY <2>1, <4>1
        <4> QED
          BY <3>2, <4>1, <4>2
      <3> QED
        BY <3>3, <3>4
    <2> HIDE DEF f
    <2>6. m \in 0..n
      OBVIOUS
    <2> QED
      BY <2>3, <2>4, <2>5, <2>6
  <1>3. n \in S
    <2> HIDE DEF S
    <2>1. \A i \in 0..n : i \in S
      BY <1>1, <1>2, SegmentInduction
    <2> QED
      BY <2>1
  <1> QED
    BY <1>3 DEF Iterates

\* The same for a loop whose k-th round leads from a value in G[k - 1] to one
\* in G[k].
LEMMA StagedRecursion ==
  ASSUME NEW n \in Nat, NEW G, NEW x0 \in G[0], NEW step,
         \A k \in 1..n : \A x \in G[k - 1] : step[k][x] \in G[k]
  PROVE  \E f : Iterates(f, x0, n, step) /\ \A k \in 0..n : f[k] \in G[k]
  <1> DEFINE X == UNION {G[k] : k \in 0..n}
             safe == [k \in 1..n |-> [x \in X |-> IF x \in G[k - 1] THEN step[k][x] ELSE x0]]
  <1>1. x0 \in X
    <2>1. 0 \in 0..n
      OBVIOUS
    <2> QED
      BY <2>1
  <1>2. \A k \in 1..n, x \in X : (IF x \in G[k - 1] THEN step[k][x] ELSE x0) \in X
    <2> SUFFICES ASSUME NEW k \in 1..n, NEW x \in X
                 PROVE  (IF x \in G[k - 1] THEN step[k][x] ELSE x0) \in X
      OBVIOUS
    <2>1. k \in 0..n
      OBVIOUS
    <2>2. CASE x \in G[k - 1]
      BY <2>1, <2>2
    <2> QED
      BY <1>1, <2>2
  <1>3. safe \in [1..n -> [X -> X]]
    <2> HIDE DEF X
    <2> QED
      BY <1>2
  <1>4. PICK f \in [0..n -> X] : Iterates(f, x0, n, safe)
    <2> HIDE DEF X, safe
    <2> QED
      BY <1>1, <1>3, Recursion
  <1> DEFINE S == {k \in 0..n : f[k] \in G[k]}
  <1>5. f[0] = x0 /\ 0 \in S
    BY <1>4 DEF Iterates
  <1>6. ASSUME NEW k \in 1..n, f[k - 1] \in G[k - 1] PROVE f[k] = step[k][f[k - 1]]
    <2>1. k - 1 \in 0..n /\ f[k - 1] \in X
      <3> HIDE DEF X
      <3> QED
        OBVIOUS
    <2>2. f[k] = safe[k][f[k - 1]]
      BY <1>4 DEF Iterates
    <2> HIDE DEF X
    <2> QED
      BY <1>6, <2>1, <2>2
  <1>7. ASSUME NEW k \in 1..n, k - 1 \in S PROVE k \in S
    <2>1. f[k - 1] \in G[k - 1] /\ k \in 0..n
      BY <1>7
    <2> QED
      BY <1>6, <2>1
  <1>8. \A k \in 0..n : k \in S
    <2> HIDE DEF S
    <2> QED
      BY <1>5, <1>7, SegmentInduction
  <1>9. ASSUME NEW k \in 1..n PROVE f[k] = step[k][f[k - 1]]
    <2>1. k - 1 \in 0..n
      OBVIOUS
    <2> QED
      BY <1>6, <1>8, <2>1
  <1> QED
    BY <1>5, <1>8, <1>9 DEF Iterates

\* r is s without its element i.
Without(s, i, r) ==
  /\ \A k \in DOMAIN r : \E j \in DOMAIN s : /\ j # i /\ r[k] = s[j]
                                             /\ j = IF k < i THEN k ELSE k + 1
  /\ \A j \in DOMAIN s : j # i => \E k \in DOMAIN r : r[k] = s[j]

\* RemoveAt leaves out one element of a sequence.
LEMMA RemoveAtFacts ==
  ASSUME NEW T, NEW s \in Seq(T), NEW i \in 1..Len(s)
  PROVE  /\ RemoveAt(s, i) \in Seq(T) /\ Len(RemoveAt(s, i)) = Len(s) - 1
         /\ Without(s, i, RemoveAt(s, i))
<1> DEFINE n == Len(s)
           a == SubSeq(s, 1, i - 1)
           b == SubSeq(s, i + 1, n)
<1>1. n \in Nat /\ i \in Nat /\ 1 <= i /\ i <= n
  OBVIOUS
<1>2. a \in Seq(T) /\ Len(a) = i - 1 /\ \A k \in 1..(i - 1) : a[k] = s[k]
  BY <1>1
<1>3. b \in Seq(T) /\ Len(b) = n - i /\ \A k \in 1..(n - i) : b[k] = s[k + i]
  BY <1>1
<1> HIDE DEF a, b
<1> DEFINE r == a \o b
<1>4. r \in Seq(T) /\ Len(r) = n - 1
  <2>1. r \in Seq(T) /\ Len(r) = Len(a) + Len(b)
    BY <1>2, <1>3, ConcatProperties
  <2> HIDE DEF r
  <2> QED BY <1>1, <1>2, <1>3, <2>1
<1>5. \A k \in 1..(n - 1) : r[k] = IF k < i THEN s[k] ELSE s[k + 1]
  <2> SUFFICES ASSUME NEW k \in 1..(n - 1) PROVE r[k] = IF k < i THEN s[k] ELSE s[k + 1]
    OBVIOUS
  <2>1. CASE k < i
    BY <1>1, <1>2, <1>3, <2>1
  <2>2. CASE ~(k < i)
    <3>1. r[k] = b[k - (i - 1)]
      BY <1>1, <1>2, <1>3, <2>2
    <3>2. k - (i - 1) \in 1..(n - i)
      BY <1>1, <2>2
    <3>3. b[k - (i - 1)] = s[(k - (i - 1)) + i]
      BY <1>3, <3>2
    <3>4. (k - (i - 1)) + i = k + 1
      BY <1>1
    <3> QED BY <2>2, <3>1, <3>3, <3>4
  <2> QED BY <2>1, <2>2
<1>6. RemoveAt(s, i) = r /\ DOMAIN r = 1..(n - 1)
  <2>1. RemoveAt(s, i) = r
    BY DEF RemoveAt, a, b
  <2> HIDE DEF r, n
  <2> QED BY <1>4, <2>1
<1> HIDE DEF r, n
<1>7. \A k \in 1..(n - 1) : \E j \in 1..n : j # i /\ r[k] = s[j] /\ j = IF k < i THEN k ELSE k + 1
  <2> SUFFICES ASSUME NEW k \in 1..(n - 1)
               PROVE  \E j \in 1..n : j # i /\ r[k] = s[j] /\ j = IF k < i THEN k ELSE k + 1
    OBVIOUS
  <2> DEFINE j == IF k < i THEN k ELSE k + 1
  <2>1. j \in 1..n /\ j # i
    BY <1>1
  <2>2. r[k] = s[j]
    BY <1>5
  <2> HIDE DEF j
  <2>3. j = IF k < i THEN k ELSE k + 1
    BY DEF j
  <2> QED BY <2>1, <2>2, <2>3
<1>8. \A j \in 1..n : j # i => \E k \in 1..(n - 1) : r[k] = s[j]
  <2> SUFFICES ASSUME NEW j \in 1..n, j # i PROVE \E k \in 1..(n - 1) : r[k] = s[j]
    OBVIOUS
  <2> DEFINE k == IF j < i THEN j ELSE j - 1
  <2>1. k \in 1..(n - 1) /\ j = IF k < i THEN k ELSE k + 1
    BY <1>1
  <2> HIDE DEF k
  <2> QED BY <1>5, <2>1
<1>9. DOMAIN s = 1..n
  BY DEF n
<1>10. Len(RemoveAt(s, i)) = Len(s) - 1
  BY <1>4, <1>6 DEF n
<1> QED BY <1>4, <1>6, <1>7, <1>8, <1>9, <1>10 DEF Without

\* r is s with x as its element i.
With(s, i, x, r) ==
  /\ i \in DOMAIN r /\ r[i] = x
  /\ \A k \in DOMAIN r : k # i => \E j \in DOMAIN s : /\ r[k] = s[j]
                                                    /\ j = IF k < i THEN k ELSE k - 1
  /\ \A j \in DOMAIN s : \E k \in DOMAIN r : k # i /\ r[k] = s[j]

\* InsertAt puts one element more in a sequence.
LEMMA InsertAtFacts ==
  ASSUME NEW T, NEW s \in Seq(T), NEW x \in T, NEW i \in 1..(Len(s) + 1)
  PROVE  /\ InsertAt(s, i, x) \in Seq(T)
         /\ With(s, i, x, InsertAt(s, i, x))
<1> DEFINE n == Len(s)
           a == SubSeq(s, 1, i - 1)
           b == SubSeq(s, i, n)
           c == a \o <<x>>
           r == c \o b
<1>1. n \in Nat /\ i \in Nat /\ 1 <= i /\ i <= n + 1
  OBVIOUS
<1>2. a \in Seq(T) /\ Len(a) = i - 1 /\ \A k \in 1..(i - 1) : a[k] = s[k]
  BY <1>1
<1>3. b \in Seq(T) /\ Len(b) = n - i + 1 /\ \A k \in 1..(n - i + 1) : b[k] = s[k + i - 1]
  BY <1>1
<1>4. InsertAt(s, i, x) = r
  BY DEF InsertAt
<1> HIDE DEF a, b
<1>5. /\ c \in Seq(T) /\ Len(c) = i /\ c[i] = x
      /\ \A k \in 1..(i - 1) : c[k] = s[k]
  BY <1>1, <1>2
<1> HIDE DEF c
<1>6. r \in Seq(T) /\ Len(r) = n + 1
  BY <1>1, <1>3, <1>5
<1>7. \A k \in 1..i : r[k] = c[k]
  BY <1>1, <1>3, <1>5
<1>8. ASSUME NEW k \in (i + 1)..(n + 1) PROVE r[k] = s[k - 1]
  <2>1. r[k] = b[k - i]
    BY <1>1, <1>3, <1>5
  <2>2. k - i \in 1..(n - i + 1) /\ (k - i) + i - 1 = k - 1
    BY <1>1
  <2> QED BY <1>3, <2>1, <2>2
<1>9. DOMAIN r = 1..(n + 1) /\ DOMAIN s = 1..n
  BY <1>6
<1> HIDE DEF r, n
<1>10. i \in DOMAIN r /\ r[i] = x
  BY <1>1, <1>5, <1>7, <1>9
<1>11. ASSUME NEW k \in 1..(n + 1), k # i
       PROVE  \E j \in 1..n : r[k] = s[j] /\ j = IF k < i THEN k ELSE k - 1
  <2> DEFINE j == IF k < i THEN k ELSE k - 1
  <2>1. j \in 1..n
    BY <1>1, <1>11
  <2>2. CASE k < i
    BY <1>1, <1>5, <1>7, <2>1, <2>2
  <2>3. CASE k > i
    <3>1. k \in (i + 1)..(n + 1) /\ j = k - 1
      BY <1>1, <2>3
    <3> QED BY <1>8, <2>1, <3>1
  <2> QED BY <1>1, <1>11, <2>2, <2>3
<1>12. ASSUME NEW j \in 1..n PROVE \E k \in 1..(n + 1) : k # i /\ r[k] = s[j]
  <2>1. CASE j < i
    BY <1>1, <1>5, <1>7, <2>1
  <2>2. CASE j >= i
    <3>1. j + 1 \in (i + 1)..(n + 1) /\ j + 1 \in 1..(n + 1) /\ j + 1 # i /\ (j + 1) - 1 = j
      BY <1>1, <2>2
    <3> QED BY <1>8, <3>1
  <2> QED BY <1>1, <2>1, <2>2
<1> QED BY <1>4, <1>6, <1>9, <1>10, <1>11, <1>12 DEF With
=============================================================================
