------------------------- MODULE ChainLedgerProofs -------------------------
(***************************************************************************)
(* What the blocks and the pending transactions make of the balances:      *)
(* proofs about the folds of ChainDatabase and the invariants that depend  *)
(* on them, on top of the chain invariant of ChainDatabaseProofs.          *)
(***************************************************************************)
EXTENDS ChainDatabaseProofs, ProofBasics, FiniteSetTheorems

(***************************************************************************)
(* The folds.                                                              *)
(***************************************************************************)

\* f has the value x0 at Base, and step[b] makes its value at b from the one at
\* the predecessor of b.
Descends(f, x0, step) ==
  f[Base] = x0 /\ \A b \in Blocks : f[b] = step[b][f[Prev[b]]]

\* Recursion along the predecessors of a block: a value at Base and a step for
\* every block determine a value for every block.
LEMMA TreeRecursion ==
  ASSUME NEW X, NEW x0 \in X, NEW step \in [Blocks -> [X -> X]]
  PROVE  \E f \in [Ids -> X] : Descends(f, x0, step)
  <1> USE TreeAssumption
  <1> DEFINE Closed(H) == /\ <<Base, x0>> \in H
                          /\ \A b \in Blocks, x \in X :
                               <<Prev[b], x>> \in H => <<b, step[b][x]>> \in H
             G == {e \in Ids \X X : \A H \in SUBSET (Ids \X X) : Closed(H) => e \in H}
  <1>1. \A b \in Blocks : b \in Ids /\ Prev[b] \in Ids /\ b # Base /\ \A x \in X : step[b][x] \in X
    BY DEF Ids
  <1>2. Base \in Ids
    BY DEF Ids
  <1>3. Closed(G)
    <2>1. <<Base, x0>> \in G
      BY <1>2
    <2>2. ASSUME NEW b \in Blocks, NEW x \in X, <<Prev[b], x>> \in G
          PROVE  <<b, step[b][x]>> \in G
      <3>1. ASSUME NEW H \in SUBSET (Ids \X X), Closed(H) PROVE <<b, step[b][x]>> \in H
        BY <2>2, <3>1
      <3>2. <<b, step[b][x]>> \in Ids \X X
        BY <1>1
      <3> QED
        BY <3>1, <3>2
    <2> QED
      BY <2>1, <2>2
  <1>4. \A H \in SUBSET (Ids \X X) : Closed(H) => G \subseteq H
    OBVIOUS
  <1>5. G \in SUBSET (Ids \X X)
    OBVIOUS
  <1> HIDE DEF G
  <1>6. \A x \in X : <<Base, x>> \in G => x = x0
    <2> SUFFICES ASSUME NEW x \in X, <<Base, x>> \in G, x # x0 PROVE FALSE
      OBVIOUS
    <2> DEFINE H == G \ {<<Base, x>>}
    <2>1. H \in SUBSET (Ids \X X)
      BY <1>5
    <2>2. <<Base, x0>> \in H
      BY <1>3
    <2>3. ASSUME NEW b \in Blocks, NEW y \in X, <<Prev[b], y>> \in H
          PROVE  <<b, step[b][y]>> \in H
      BY <1>1, <1>3, <2>3
    <2>4. G \subseteq H
      BY <1>4, <2>1, <2>2, <2>3
    <2> QED
      BY <2>4
  <1> DEFINE Bad == {b \in Blocks : ~ \E x \in X : <<b, x>> \in G /\ \A y \in X : <<b, y>> \in G => y = x}
  <1>7. Bad = {}
    <2> SUFFICES ASSUME Bad # {} PROVE FALSE
      OBVIOUS
    <2>1. PICK b \in Bad : Prev[b] \notin Bad
      <3>1. Bad \in SUBSET Blocks
        OBVIOUS
      <3> HIDE DEF Bad
      <3> QED
        BY <3>1, AcyclicAssumption
    <2>2. b \in Blocks
      OBVIOUS
    <2>3. PICK x \in X : <<Prev[b], x>> \in G /\ \A y \in X : <<Prev[b], y>> \in G => y = x
      <3>1. CASE Prev[b] = Base
        BY <1>3, <1>6, <3>1
      <3>2. CASE Prev[b] # Base
        <4>1. Prev[b] \in Blocks
          BY <1>1, <2>2, <3>2 DEF Ids
        <4> QED
          BY <2>1, <4>1
      <3> QED
        BY <3>1, <3>2
    <2> DEFINE z == step[b][x]
    <2>4. z \in X /\ <<b, z>> \in G
      BY <1>1, <1>3, <2>2, <2>3
    <2>5. PICK y \in X : <<b, y>> \in G /\ y # z
      BY <2>4
    <2> DEFINE H == G \ {<<b, y>>}
    <2>6. H \in SUBSET (Ids \X X)
      BY <1>5
    <2>7. <<Base, x0>> \in H
      BY <1>1, <1>3, <2>2
    <2>8. ASSUME NEW c \in Blocks, NEW w \in X, <<Prev[c], w>> \in H
          PROVE  <<c, step[c][w]>> \in H
      <3>1. <<Prev[c], w>> \in G
        BY <2>8
      <3>2. <<c, step[c][w]>> \in G
        BY <1>3, <3>1
      <3>3. c = b => w = x
        BY <2>3, <3>1
      <3>4. c = b => step[c][w] # y
        BY <2>5, <3>3
      <3> QED
        BY <3>2, <3>4
    <2>9. G \subseteq H
      <3> HIDE DEF H
      <3> QED
        BY <1>4, <2>6, <2>7, <2>8
    <2> QED
      BY <2>5, <2>9
  <1>8. \A b \in Ids : \E x \in X : <<b, x>> \in G /\ \A y \in X : <<b, y>> \in G => y = x
    <2> SUFFICES ASSUME NEW b \in Ids
                 PROVE  \E x \in X : <<b, x>> \in G /\ \A y \in X : <<b, y>> \in G => y = x
      OBVIOUS
    <2>1. CASE b = Base
      BY <1>3, <1>6, <2>1
    <2>2. CASE b # Base
      BY <1>7, <2>2 DEF Ids
    <2> QED
      BY <2>1, <2>2
  <1> DEFINE f == [b \in Ids |-> CHOOSE x \in X : <<b, x>> \in G]
  <1>9. \A b \in Ids : f[b] \in X /\ <<b, f[b]>> \in G
    BY <1>8
  <1>10. f \in [Ids -> X]
    BY <1>9
  <1> HIDE DEF f
  <1>11. f[Base] = x0
    BY <1>2, <1>6, <1>9
  <1>12. ASSUME NEW b \in Blocks PROVE f[b] = step[b][f[Prev[b]]]
    <2>1. <<Prev[b], f[Prev[b]]>> \in G /\ f[Prev[b]] \in X
      BY <1>1, <1>9
    <2>2. <<b, step[b][f[Prev[b]]]>> \in G /\ step[b][f[Prev[b]]] \in X
      BY <1>1, <1>3, <2>1
    <2>3. <<b, f[b]>> \in G /\ f[b] \in X
      BY <1>1, <1>9
    <2>4. b \in Ids
      BY <1>1
    <2> QED
      BY <1>8, <2>2, <2>3, <2>4
  <1> QED
    BY <1>10, <1>11, <1>12 DEF Descends

(***************************************************************************)
(* Balances.                                                               *)
(***************************************************************************)

\* Amounts in all balances.  Where a block that was never applied would withdraw
\* too much they may be negative.
Ledgers == [Coins -> Int]
Funds == [Coins -> Nat]

\* A transaction leads from amounts to amounts, and to none below zero if what it
\* withdraws is covered.
LEMMA AfterFacts ==
  ASSUME NEW t \in Trxs, NEW C \in Ledgers
  PROVE  /\ After(t, C) \in Ledgers
         /\ C \in Funds /\ Covers(t, C) => After(t, C) \in Funds
         /\ \A c \in Coins : c \notin Touched(t) => After(t, C)[c] = C[c]
  <1>1. \A c \in Coins : Takes[t][c] \in Nat /\ Gives[t][c] \in Nat /\ C[c] \in Int
    BY TrxAssumption DEF Ledgers
  <1>2. After(t, C) \in Ledgers
    BY <1>1 DEF After, Ledgers
  <1>3. ASSUME C \in Funds, Covers(t, C) PROVE After(t, C) \in Funds
    <2>1. \A c \in Coins : C[c] \in Nat /\ Takes[t][c] <= C[c]
      BY <1>3 DEF Funds, Covers
    <2>2. \A c \in Coins : C[c] - Takes[t][c] + Gives[t][c] \in Nat
      BY <1>1, <2>1
    <2> QED
      BY <2>2 DEF After, Funds
  <1>4. ASSUME NEW c \in Coins, c \notin Touched(t) PROVE After(t, C)[c] = C[c]
    <2>1. Takes[t][c] = 0 /\ Gives[t][c] = 0
      BY <1>1, <1>4 DEF Touched
    <2> QED
      BY <1>1, <2>1 DEF After
  <1> QED
    BY <1>2, <1>3, <1>4

\* Amounts are amounts that may be negative.
LEMMA FundsAreLedgers == \A C \in Funds : C \in Ledgers
  BY DEF Funds, Ledgers

\* A pending state shows amounts.
LEMMA OverFacts ==
  ASSUME NEW values, IsValues(values), NEW C
  PROVE  /\ C \in Funds => Over(values, C) \in Funds
         /\ C \in Ledgers => Over(values, C) \in Ledgers
  <1>1. \A c \in DOMAIN values : values[c] \in Nat
    BY DEF IsValues
  <1>2. C \in Funds => Over(values, C) \in Funds
    BY <1>1 DEF Over, Funds
  <1>3. C \in Ledgers => Over(values, C) \in Ledgers
    BY <1>1 DEF Over, Ledgers
  <1> QED
    BY <1>2, <1>3

\* Nothing stored on top shows what is below.
LEMMA OverNothing ==
  ASSUME NEW C \in Ledgers
  PROVE  IsValues(NoChanges) /\ Over(NoChanges, C) = C
  <1>1. DOMAIN NoChanges = {} /\ NoChanges \in [DOMAIN NoChanges -> Nat]
    BY DEF NoChanges
  <1>2. IsValues(NoChanges)
    BY <1>1 DEF IsValues
  <1>3. Over(NoChanges, C) = [c \in Coins |-> C[c]]
    BY <1>1 DEF Over
  <1> QED
    BY <1>2, <1>3 DEF Ledgers

\* A transaction that evaluates on top of a pending state leaves a pending state
\* that shows what the transaction makes of what was shown.
LEMMA ThenFacts ==
  ASSUME NEW values, IsValues(values), NEW C \in Funds, NEW t \in Trxs,
         Covers(t, Over(values, C))
  PROVE  /\ IsValues(Then(values, t, C))
         /\ Over(Then(values, t, C), C) = After(t, Over(values, C))
  <1> DEFINE D == DOMAIN values \cup Touched(t)
             seen == Over(values, C)
             new == After(t, seen)
             v == Then(values, t, C)
  <1>1. seen \in Funds
    BY OverFacts
  <1>2. seen \in Ledgers
    BY <1>1, FundsAreLedgers
  <1>3. /\ new \in Funds
        /\ \A c \in Coins : c \notin Touched(t) => new[c] = seen[c]
    BY <1>1, <1>2, AfterFacts
  <1>4. D \subseteq Coins
    BY DEF IsValues, Touched
  <1>5. v = [c \in D |-> new[c]]
    BY DEF Then
  <1>6. DOMAIN v = D /\ \A c \in D : v[c] = new[c]
    BY <1>5
  <1>7. \A c \in Coins : new[c] \in Nat
    BY <1>3 DEF Funds
  <1>8. \A c \in Coins : c \notin DOMAIN values => seen[c] = C[c]
    BY DEF Over
  <1>9. new = [c \in Coins |-> new[c]]
    BY <1>3 DEF Funds
  <1> HIDE DEF seen, new, v
  <1>10. IsValues(v)
    <2>1. v \in [DOMAIN v -> Nat]
      BY <1>4, <1>5, <1>6, <1>7
    <2> QED
      BY <1>4, <1>6, <2>1 DEF IsValues
  <1>11. \A c \in Coins : (IF c \in DOMAIN v THEN v[c] ELSE C[c]) = new[c]
    BY <1>3, <1>6, <1>8
  <1>12. Over(v, C) = [c \in Coins |-> new[c]]
    BY <1>11 DEF Over
  <1> QED
    BY <1>9, <1>10, <1>12 DEF v, new, seen

\* apply_transactions goes through the transactions of a block one by one.
LEMMA EvaluatedFacts ==
  ASSUME NEW ts \in Seq(Trxs), NEW C \in Ledgers
  PROVE  /\ Evaluated(ts, C) \in [0..Len(ts) -> Ledgers]
         /\ Evaluated(ts, C)[0] = C
         /\ \A i \in 1..Len(ts) : Evaluated(ts, C)[i] = After(ts[i], Evaluated(ts, C)[i - 1])
  <1> DEFINE n == Len(ts)
             step == [i \in 1..n |-> [x \in Ledgers |-> After(ts[i], x)]]
  <1>1. n \in Nat
    OBVIOUS
  <1>2. \A i \in 1..n : ts[i] \in Trxs
    OBVIOUS
  <1>3. step \in [1..n -> [Ledgers -> Ledgers]]
    BY <1>2, AfterFacts
  <1>4. PICK f \in [0..n -> Ledgers] : Iterates(f, C, n, step)
    <2> HIDE DEF step, n
    <2> QED
      BY <1>1, <1>3, Recursion
  <1>5. ASSUME NEW i \in 1..n PROVE f[i] = After(ts[i], f[i - 1])
    <2>1. i - 1 \in 0..n
      BY <1>1
    <2>2. f[i - 1] \in Ledgers
      BY <2>1
    <2> QED
      BY <1>4, <2>2 DEF Iterates
  <1>6. f = [i \in 0..n |-> IF i = 0 THEN C ELSE After(ts[i], f[i - 1])]
    <2>1. ASSUME NEW i \in 0..n
          PROVE  f[i] = IF i = 0 THEN C ELSE After(ts[i], f[i - 1])
      <3>1. i # 0 => i \in 1..n
        BY <1>1
      <3> QED
        BY <1>4, <1>5, <3>1 DEF Iterates
    <2> HIDE DEF n
    <2> QED
      BY <2>1
  <1> DEFINE E == Evaluated(ts, C)
  <1>7. E = [i \in 0..n |-> IF i = 0 THEN C ELSE After(ts[i], E[i - 1])]
    BY <1>6 DEF Evaluated
  <1> HIDE DEF n, E
  <1>8. E[0] = C
    BY <1>1, <1>7
  <1>9. \A i \in 1..n : E[i] = After(ts[i], E[i - 1])
    BY <1>1, <1>7
  <1>10. \A i \in 0..n : E[i] \in Ledgers
    <2> DEFINE S == {i \in 0..n : E[i] \in Ledgers}
    <2>1. 0 \in S
      BY <1>1, <1>8
    <2>2. ASSUME NEW i \in 1..n, i - 1 \in S PROVE i \in S
      BY <1>1, <1>2, <1>9, <2>2, AfterFacts DEF n
    <2>3. \A i \in 0..n : i \in S
      <3> HIDE DEF S
      <3> QED
        BY <1>1, <2>1, <2>2, SegmentInduction
    <2> QED
      BY <2>3
  <1>11. E \in [0..n -> Ledgers]
    BY <1>7, <1>10
  <1> QED
    BY <1>8, <1>9, <1>11 DEF n, E

\* What the transactions of a block make of the balances.
Result(b, C) == Evaluated(UserTrx[b], C)[Len(UserTrx[b])]

\* A block leads from amounts to amounts, to none below zero if its withdrawals
\* are covered, and changes only what its transactions touch.
LEMMA ResultFacts ==
  ASSUME NEW b \in Blocks, NEW C \in Ledgers
  PROVE  /\ Result(b, C) \in Ledgers
         /\ C \in Funds /\ Spendable(UserTrx[b], C) => Result(b, C) \in Funds
         /\ \A c \in Coins : c \notin UNION {Touched(t) : t \in TrxOf(b)} => Result(b, C)[c] = C[c]
  <1> DEFINE ts == UserTrx[b]
             n == Len(ts)
             E == Evaluated(ts, C)
  <1>1. ts \in Seq(Trxs) /\ n \in Nat
    BY TrxAssumption
  <1>2. /\ E \in [0..n -> Ledgers] /\ E[0] = C
        /\ \A i \in 1..n : E[i] = After(ts[i], E[i - 1])
    BY <1>1, EvaluatedFacts
  <1>3. \A i \in 1..n : i - 1 \in 0..n /\ i \in 0..n /\ ts[i] \in Trxs /\ i \in DOMAIN ts
    BY <1>1
  <1>4. \A i \in 1..n : E[i - 1] \in Ledgers
    BY <1>2, <1>3
  <1>5. Result(b, C) = E[n] /\ n \in 0..n
    BY <1>1 DEF Result
  <1>6. \A i \in 1..n : ts[i] \in TrxOf(b)
    BY <1>3 DEF TrxOf
  <1>7. Spendable(ts, C) => \A i \in 1..n : Covers(ts[i], E[i - 1])
    BY <1>3 DEF Spendable
  <1> HIDE DEF ts, n, E
  <1>8. ASSUME C \in Funds, Spendable(ts, C) PROVE E[n] \in Funds
    <2> DEFINE S == {i \in 0..n : E[i] \in Funds}
    <2>1. 0 \in S
      BY <1>1, <1>2, <1>8
    <2>2. ASSUME NEW i \in 1..n, i - 1 \in S PROVE i \in S
      <3>1. Covers(ts[i], E[i - 1]) /\ E[i - 1] \in Funds /\ E[i - 1] \in Ledgers /\ ts[i] \in Trxs
        BY <1>3, <1>4, <1>7, <1>8, <2>2
      <3>2. After(ts[i], E[i - 1]) \in Funds
        BY <3>1, AfterFacts
      <3> QED
        BY <1>2, <1>3, <3>2
    <2>3. \A i \in 0..n : i \in S
      <3> HIDE DEF S
      <3> QED
        BY <1>1, <2>1, <2>2, SegmentInduction
    <2> QED
      BY <1>5, <2>3
  <1>9. ASSUME NEW c \in Coins, c \notin UNION {Touched(t) : t \in TrxOf(b)}
        PROVE  E[n][c] = C[c]
    <2> DEFINE S == {i \in 0..n : E[i][c] = C[c]}
    <2>1. 0 \in S
      BY <1>1, <1>2
    <2>2. ASSUME NEW i \in 1..n, i - 1 \in S PROVE i \in S
      <3>1. c \notin Touched(ts[i])
        BY <1>6, <1>9
      <3>2. After(ts[i], E[i - 1])[c] = E[i - 1][c]
        BY <1>3, <1>4, <3>1, AfterFacts
      <3> QED
        BY <1>2, <1>3, <2>2, <3>2
    <2>3. \A i \in 0..n : i \in S
      <3> HIDE DEF S
      <3> QED
        BY <1>1, <2>1, <2>2, SegmentInduction
    <2> QED
      BY <1>5, <2>3
  <1> QED
    BY <1>2, <1>5, <1>8, <1>9 DEF ts

\* A block without transactions changes nothing.
LEMMA RootResult ==
  ASSUME NEW C \in Ledgers
  PROVE  Result(Root, C) = C
  <1> DEFINE ts == UserTrx[Root]
  <1>1. ts \in Seq(Trxs) /\ Len(ts) = 0
    BY RootAssumption
  <1>2. Evaluated(ts, C)[0] = C
    <2> HIDE DEF ts
    <2> QED
      BY <1>1, EvaluatedFacts
  <1> QED
    BY <1>1, <1>2 DEF Result

\* The balances after a block are what the block makes of those after its
\* predecessor.
LEMMA CoinsFacts ==
  /\ CoinsAt[Base] = Funded
  /\ \A b \in Blocks : CoinsAt[b] = Result(b, CoinsAt[Prev[b]])
  <1> USE TreeAssumption
  <1> DEFINE step == [b \in Blocks |-> [C \in Ledgers |-> Result(b, C)]]
  <1>1. step \in [Blocks -> [Ledgers -> Ledgers]]
    BY ResultFacts
  <1>2. Funded \in Ledgers
    BY TrxAssumption, FundsAreLedgers DEF Funds
  <1>3. PICK f \in [Ids -> Ledgers] : Descends(f, Funded, step)
    <2> HIDE DEF step
    <2> QED
      BY <1>1, <1>2, TreeRecursion
  <1>4. ASSUME NEW b \in Blocks PROVE f[b] = Result(b, f[Prev[b]])
    <2>1. f[Prev[b]] \in Ledgers
      BY DEF Ids
    <2> QED
      BY <1>3, <2>1 DEF Descends
  <1>5. f = [b \in Ids |-> IF b = Base THEN Funded
                           ELSE Evaluated(UserTrx[b], f[Prev[b]])[Len(UserTrx[b])]]
    <2>1. ASSUME NEW b \in Ids
          PROVE  f[b] = IF b = Base THEN Funded
                        ELSE Evaluated(UserTrx[b], f[Prev[b]])[Len(UserTrx[b])]
      BY <1>3, <1>4 DEF Ids, Result, Descends
    <2> QED
      BY <2>1
  <1>6. CoinsAt = [b \in Ids |-> IF b = Base THEN Funded
                     ELSE Evaluated(UserTrx[b], CoinsAt[Prev[b]])[Len(UserTrx[b])]]
    BY <1>5 DEF CoinsAt
  <1>7. CoinsAt[Base] = Funded
    BY <1>6 DEF Ids
  <1>8. ASSUME NEW b \in Blocks PROVE CoinsAt[b] = Result(b, CoinsAt[Prev[b]])
    <2>1. b \in Ids /\ b # Base
      BY DEF Ids
    <2> QED
      BY <1>6, <2>1 DEF Result
  <1> QED
    BY <1>7, <1>8

(***************************************************************************)
(* Transactions that fit together.                                         *)
(***************************************************************************)

\* The transactions of K, each once in order, lead from C over the balances st, each
\* covered by the balances before it, to what the pending state shows.
IsRun(order, st, K, values, C) ==
  /\ order \in Seq(Trxs)
  /\ st \in [0..Len(order) -> Ledgers]
  /\ st[0] = C
  /\ \A i \in 1..Len(order) : Covers(order[i], st[i - 1]) /\ st[i] = After(order[i], st[i - 1])
  /\ st[Len(order)] = Over(values, C)
  /\ \A i \in 1..Len(order) : order[i] \in K
  /\ \A t \in K : \E i \in 1..Len(order) : order[i] = t
  /\ \A i, j \in 1..Len(order) : order[i] = order[j] => i = j

Runs(K, values, C) == \E order, st : IsRun(order, st, K, values, C)

\* No transactions run.
LEMMA RunsNone ==
  ASSUME NEW C \in Ledgers
  PROVE  Runs({}, NoChanges, C)
  <1> DEFINE order == << >>
             st == [i \in 0..0 |-> C]
  <1>1. order \in Seq(Trxs) /\ Len(order) = 0
    OBVIOUS
  <1>2. st \in [0..0 -> Ledgers] /\ st[0] = C
    OBVIOUS
  <1>3. Over(NoChanges, C) = C
    BY OverNothing
  <1> HIDE DEF order, st
  <1>4. IsRun(order, st, {}, NoChanges, C)
    BY <1>1, <1>2, <1>3 DEF IsRun
  <1> QED
    BY <1>4 DEF Runs

\* A transaction that evaluates on top of the pending state runs after the others.
LEMMA RunsAdd ==
  ASSUME NEW K, NEW values, IsValues(values), NEW C \in Funds, Runs(K, values, C),
         NEW t \in Trxs, t \notin K, Covers(t, Over(values, C))
  PROVE  Runs(K \cup {t}, Then(values, t, C), C)
  <1>1. PICK order, st : IsRun(order, st, K, values, C)
    BY DEF Runs
  <1> DEFINE n == Len(order)
             seen == Over(values, C)
             new == After(t, seen)
             o == Append(order, t)
             s == [i \in 0..(n + 1) |-> IF i = n + 1 THEN new ELSE st[i]]
             v == Then(values, t, C)
  <1>2. order \in Seq(Trxs) /\ n \in Nat /\ st \in [0..n -> Ledgers] /\ st[0] = C /\ st[n] = seen
    BY <1>1 DEF IsRun
  <1>3. \A i \in 1..n : Covers(order[i], st[i - 1]) /\ st[i] = After(order[i], st[i - 1])
    BY <1>1 DEF IsRun
  <1>4. /\ \A i \in 1..n : order[i] \in K
        /\ \A u \in K : \E i \in 1..n : order[i] = u
        /\ \A i, j \in 1..n : order[i] = order[j] => i = j
    BY <1>1 DEF IsRun
  <1>5. Over(v, C) = new
    BY ThenFacts
  <1>6. new \in Ledgers
    <2>1. seen \in Ledgers
      BY FundsAreLedgers, OverFacts
    <2> HIDE DEF seen
    <2> QED
      BY <2>1, AfterFacts
  <1>7. o \in Seq(Trxs) /\ Len(o) = n + 1 /\ o[n + 1] = t /\ \A i \in 1..n : o[i] = order[i]
    BY <1>2
  <1>8. Covers(t, seen)
    OBVIOUS
  <1>a. new = After(t, seen)
    OBVIOUS
  <1> HIDE DEF n, seen, new, o, v
  <1>9. s \in [0..(n + 1) -> Ledgers]
    <2>1. \A i \in 0..(n + 1) : i # n + 1 => i \in 0..n
      BY <1>2
    <2> QED
      BY <1>2, <1>6, <2>1
  <1>10. s[n + 1] = new /\ \A i \in 0..n : s[i] = st[i]
    BY <1>2
  <1> HIDE DEF s
  <1>11. s[0] = C /\ s[n] = seen
    BY <1>2, <1>10
  <1>12. ASSUME NEW i \in 1..(n + 1)
         PROVE  Covers(o[i], s[i - 1]) /\ s[i] = After(o[i], s[i - 1])
    <2>1. CASE i = n + 1
      <3>1. i - 1 = n
        BY <1>2, <2>1
      <3> QED
        BY <1>7, <1>8, <1>a, <1>10, <1>11, <2>1, <3>1
    <2>2. CASE i # n + 1
      <3>1. i \in 1..n /\ i \in 0..n /\ i - 1 \in 0..n
        BY <1>2, <2>2
      <3> QED
        BY <1>3, <1>7, <1>10, <3>1
    <2> QED
      BY <2>1, <2>2
  <1>13. \A i \in 1..(n + 1) : i = n + 1 \/ i \in 1..n
    BY <1>2
  <1>14. \A i \in 1..(n + 1) : o[i] \in K \cup {t}
    BY <1>4, <1>7, <1>13
  <1>15. \A u \in K \cup {t} : \E i \in 1..(n + 1) : o[i] = u
    <2>1. n + 1 \in 1..(n + 1) /\ \A i \in 1..n : i \in 1..(n + 1)
      BY <1>2
    <2> QED
      BY <1>4, <1>7, <2>1
  <1>16. \A i, j \in 1..(n + 1) : o[i] = o[j] => i = j
    BY <1>4, <1>7, <1>13
  <1>17. IsRun(o, s, K \cup {t}, v, C)
    BY <1>5, <1>7, <1>9, <1>10, <1>11, <1>12, <1>14, <1>15, <1>16 DEF IsRun
  <1> QED
    BY <1>17 DEF Runs, v

\* Transactions that run can go into a block in some order.
LEMMA RunsFit ==
  ASSUME NEW K, NEW values, NEW C \in Ledgers, Runs(K, values, C)
  PROVE  \E order \in SetToSeqs(K) : Spendable(order, C)
  <1>1. PICK order, st : IsRun(order, st, K, values, C)
    BY DEF Runs
  <1> DEFINE n == Len(order)
             E == Evaluated(order, C)
  <1>2. order \in Seq(Trxs) /\ n \in Nat /\ st \in [0..n -> Ledgers] /\ st[0] = C
    BY <1>1 DEF IsRun
  <1>3. \A i \in 1..n : Covers(order[i], st[i - 1]) /\ st[i] = After(order[i], st[i - 1])
    BY <1>1 DEF IsRun
  <1>4. /\ \A i \in 1..n : order[i] \in K
        /\ \A u \in K : \E i \in 1..n : order[i] = u
        /\ \A i, j \in 1..n : order[i] = order[j] => i = j
    BY <1>1 DEF IsRun
  <1>5. DOMAIN order = 1..n /\ order = [i \in 1..n |-> order[i]]
    BY <1>2
  <1>6. order \in [1..n -> K]
    BY <1>4, <1>5
  <1>7. E[0] = C /\ \A i \in 1..n : E[i] = After(order[i], E[i - 1])
    BY <1>2, EvaluatedFacts
  <1> HIDE DEF n, E
  <1>8. Cardinality(K) = n
    <2>1. order \in Bijection(1..n, K)
      BY <1>4, <1>6 DEF Bijection, Injection, Surjection, IsInjective
    <2>2. ExistsBijection(1..n, K)
      BY <2>1 DEF ExistsBijection
    <2> QED
      BY <1>2, <2>2, FS_CountingElements
  <1>9. order \in SetToSeqs(K)
    BY <1>4, <1>6, <1>8 DEF SetToSeqs
  <1>10. \A i \in 0..n : E[i] = st[i]
    <2> DEFINE S == {i \in 0..n : E[i] = st[i]}
    <2>1. 0 \in S
      BY <1>2, <1>7
    <2>2. ASSUME NEW i \in 1..n, i - 1 \in S PROVE i \in S
      <3>1. i \in 0..n
        BY <1>2
      <3> QED
        BY <1>3, <1>7, <2>2, <3>1
    <2>3. \A i \in 0..n : i \in S
      <3> HIDE DEF S
      <3> QED
        BY <1>2, <2>1, <2>2, SegmentInduction
    <2> QED
      BY <2>3
  <1>11. \A i \in 1..n : Covers(order[i], E[i - 1])
    <2>1. \A i \in 1..n : i - 1 \in 0..n
      BY <1>2
    <2> QED
      BY <1>3, <1>10, <2>1
  <1>12. Spendable(order, C)
    BY <1>5, <1>11 DEF Spendable, E
  <1> QED
    BY <1>9, <1>12

\* clear_pending keeps transactions that were pending, that have no record, and
\* that run from the balances of the chain to the pending state it leaves.
LEMMA RequeuedFacts ==
  ASSUME NEW ts, NEW C \in Funds, NEW rec
  PROVE  LET left == Requeued(ts, C, rec) IN
         /\ left.kept \subseteq ts \cap Trxs
         /\ IsValues(left.values)
         /\ \A t \in left.kept : rec[t] = "none"
         /\ Runs(left.kept, left.values, C)
  <1> DEFINE X == {x \in [kept : SUBSET Trxs, values : UNION {[D -> Nat] : D \in SUBSET Coins}] :
                     IsValues(x.values)}
             x0 == [kept |-> {}, values |-> NoChanges]
             keep(t, x) == IF t \in ts /\ TrxValid(t, x.values, C, rec)
                           THEN [kept |-> x.kept \cup {t}, values |-> Then(x.values, t, C)]
                           ELSE x
             step == [t \in 1..NTrx |-> [x \in X |-> keep(t, x)]]
  <1>0. \A v : IsValues(v) => v \in UNION {[D -> Nat] : D \in SUBSET Coins}
    BY DEF IsValues
  <1>1. NTrx \in Nat /\ C \in Ledgers
    BY TrxAssumption, FundsAreLedgers
  <1>2. x0 \in X
    BY <1>0, <1>1, OverNothing
  <1>3. ASSUME NEW t \in 1..NTrx, NEW x \in X PROVE keep(t, x) \in X
    <2>1. t \in Trxs
      BY DEF Trxs
    <2>2. CASE t \in ts /\ TrxValid(t, x.values, C, rec)
      <3>1. Covers(t, Over(x.values, C)) /\ IsValues(x.values) /\ x.kept \in SUBSET Trxs
        BY <2>2 DEF TrxValid
      <3>2. IsValues(Then(x.values, t, C))
        BY <2>1, <3>1, ThenFacts
      <3>3. keep(t, x) = [kept |-> x.kept \cup {t}, values |-> Then(x.values, t, C)]
        BY <2>2
      <3> DEFINE w == Then(x.values, t, C)
      <3> HIDE DEF w, keep
      <3> QED
        BY <1>0, <2>1, <3>1, <3>2, <3>3 DEF w
    <2> QED
      BY <2>2
  <1>4. step \in [1..NTrx -> [X -> X]]
    <2> HIDE DEF X, keep
    <2> QED
      BY <1>3
  <1>5. PICK f \in [0..NTrx -> X] : Iterates(f, x0, NTrx, step)
    <2> HIDE DEF X, step, x0
    <2> QED
      BY <1>1, <1>2, <1>4, Recursion
  <1>6. ASSUME NEW t \in 1..NTrx PROVE f[t] = keep(t, f[t - 1])
    <2>1. t - 1 \in 0..NTrx
      BY <1>1
    <2>2. f[t - 1] \in X
      BY <2>1
    <2> HIDE DEF X, keep
    <2> QED
      BY <1>5, <2>2 DEF Iterates
  <1>7. f = [t \in 0..NTrx |-> IF t = 0 THEN x0 ELSE keep(t, f[t - 1])]
    <2>1. ASSUME NEW t \in 0..NTrx PROVE f[t] = IF t = 0 THEN x0 ELSE keep(t, f[t - 1])
      <3>1. t # 0 => t \in 1..NTrx
        BY <1>1
      <3> HIDE DEF keep, x0, step
      <3> QED
        BY <1>5, <1>6, <3>1 DEF Iterates
    <2> HIDE DEF keep, x0, X
    <2> QED
      BY <2>1
  <1> DEFINE R == CHOOSE r : r = [t \in 0..NTrx |-> IF t = 0 THEN x0 ELSE keep(t, r[t - 1])]
  <1>8. R = [t \in 0..NTrx |-> IF t = 0 THEN x0 ELSE keep(t, R[t - 1])]
    <2> HIDE DEF keep, x0
    <2> QED
      BY <1>7
  <1>9. Requeued(ts, C, rec) = R[NTrx]
    BY DEF Requeued
  <1> HIDE DEF R
  <1> DEFINE good(k, x) == /\ x \in X
                           /\ x.kept \subseteq ts
                           /\ \A t \in x.kept : rec[t] = "none" /\ t <= k
                           /\ Runs(x.kept, x.values, C)
             S == {t \in 0..NTrx : good(t, R[t])}
  <1>10. 0 \in S
    <2>1. R[0] = x0 /\ 0 \in 0..NTrx
      <3> HIDE DEF keep, x0
      <3> QED
        BY <1>1, <1>8
    <2>2. Runs(x0.kept, x0.values, C)
      BY <1>1, RunsNone
    <2>3. x0.kept \subseteq ts /\ \A t \in x0.kept : rec[t] = "none" /\ t <= 0
      OBVIOUS
    <2> HIDE DEF X, x0
    <2> QED
      BY <1>2, <2>1, <2>2, <2>3
  <1>11. ASSUME NEW t \in 1..NTrx, t - 1 \in S PROVE t \in S
    <2> DEFINE x == R[t - 1]
    <2>1. t \in 0..NTrx /\ t # 0 /\ t \in Trxs /\ t \in Nat
      BY <1>1 DEF Trxs
    <2>2. R[t] = keep(t, x)
      <3> HIDE DEF keep, x0
      <3> QED
        BY <1>8, <2>1
    <2>3. good(t - 1, x)
      BY <1>11
    <2> HIDE DEF x
    <2>a. x \in X /\ x.kept \in SUBSET Trxs /\ IsValues(x.values)
      BY <2>3
    <2>b. \A u \in x.kept : u \in Nat /\ u <= t - 1
      BY <1>1, <2>3, <2>a DEF Trxs
    <2>c. \A u \in x.kept : u <= t /\ u # t
      BY <2>1, <2>b
    <2>4. CASE ~(t \in ts /\ TrxValid(t, x.values, C, rec))
      <3>1. R[t] = x
        BY <2>2, <2>4
      <3>2. good(t, x)
        <4> HIDE DEF X
        <4> QED
          BY <2>3, <2>c
      <3> HIDE DEF good
      <3> QED
        BY <2>1, <3>1, <3>2
    <2>5. CASE t \in ts /\ TrxValid(t, x.values, C, rec)
      <3>1. R[t] = [kept |-> x.kept \cup {t}, values |-> Then(x.values, t, C)]
        BY <2>2, <2>5
      <3>3. rec[t] = "none" /\ Covers(t, Over(x.values, C)) /\ t \notin x.kept
        BY <2>5, <2>c DEF TrxValid
      <3>4. Runs(x.kept \cup {t}, Then(x.values, t, C), C)
        BY <2>1, <2>3, <2>a, <3>3, RunsAdd
      <3>5. R[t] \in X
        BY <1>3, <2>2, <2>a
      <3>6. R[t].kept = x.kept \cup {t} /\ R[t].values = Then(x.values, t, C)
        BY <3>1
      <3>7. good(t, R[t])
        <4>a. \A u \in x.kept : rec[u] = "none" /\ u <= t
          BY <2>3, <2>c
        <4>b. t <= t
          BY <2>1
        <4>1. \A u \in R[t].kept : rec[u] = "none" /\ u <= t
          <5> HIDE DEF X, keep, good
          <5> QED
            BY <3>3, <3>6, <4>a, <4>b
        <4>2. R[t].kept \subseteq ts
          BY <2>3, <2>5, <3>6
        <4> HIDE DEF X
        <4> QED
          BY <3>4, <3>5, <3>6, <4>1, <4>2
      <3> HIDE DEF good
      <3> QED
        BY <2>1, <3>7
    <2> QED
      BY <2>4, <2>5
  <1>12. NTrx \in S
    <2> HIDE DEF S
    <2>1. \A t \in 0..NTrx : t \in S
      BY <1>1, <1>10, <1>11, SegmentInduction
    <2> QED
      BY <1>1, <2>1
  <1> QED
    BY <1>9, <1>12

(***************************************************************************)
(* Types, and the history of the switch under way.                         *)
(***************************************************************************)

\* What undo states bring back are balances, and pay of some number of blocks.
UndoTyped ==
  /\ undo = [b \in Blocks |-> undo[b]]
  /\ \A b \in Blocks : IsValues(undo[b].coins) /\ undo[b].paid \in Nat

\* get_fork_history's result runs from the new block down along the predecessors,
\* and while blocks are applied the next one is on top of the head.
HistoryInv ==
  /\ pc # "idle" =>
       /\ Len(history) >= 1
       /\ \A i \in 1..(Len(history) - 1) :
            history[i] \in Blocks /\ Prev[history[i]] = history[i + 1]
  /\ pc = "pop" => Len(history) >= 2
  /\ pc = "extend" => Last(history) \in Blocks /\ Prev[Last(history)] = head

TypeInv == TypeOK /\ UndoTyped /\ HistoryInv

\* The established chain has the types.
LEMMA InitTyped == Init => TypeInv
  <1> SUFFICES ASSUME Init PROVE TypeInv
    OBVIOUS
  <1> USE TreeAssumption, RootAssumption, TrxAssumption
  <1>1. TreeInv
    BY InitTree
  <1>2. numToId \subseteq Nat \X Ids
    BY DEF Init, Ids
  <1>3. Funded \in Ledgers
    BY FundsAreLedgers DEF Funds
  <1>a. IsValues(NoChanges)
    BY <1>3, OverNothing
  <1>4. /\ IsValues(overlay) /\ fresh \in BOOLEAN
        /\ trxRec \in [Trxs -> TrxRecs] /\ coins \in [Coins -> Nat] /\ paid \in Nat
    BY <1>a DEF Init, TrxRecs
  <1>5. pending \subseteq Trxs /\ indexed \subseteq pending /\ early \subseteq Blocks
    BY DEF Init
  <1>6. /\ pc \in {"idle", "history", "pop", "extend"}
        /\ mode \in {"push", "switch", "revert"}
        /\ history \in Seq(Ids) /\ oldHead \in Ids
    BY DEF Init, Ids
  <1>7. TypeOK
    BY <1>1, <1>2, <1>4, <1>5, <1>6 DEF TypeOK, TreeInv, Shape
  <1>8. UndoTyped
    BY <1>a DEF Init, UndoTyped, NoUndo
  <1>9. HistoryInv
    BY DEF Init, HistoryInv
  <1> QED
    BY <1>7, <1>8, <1>9 DEF TypeInv

\* The parts of the type invariant that the variables of the call decide.
CallOK ==
  /\ pc \in {"idle", "history", "pop", "extend"}
  /\ mode \in {"push", "switch", "revert"}
  /\ history \in Seq(Ids)
  /\ oldHead \in Ids
  /\ HistoryInv

\* A history without its last block is a history, and its last block is on top
\* of the one that was taken off.
LEMMA FrontFacts ==
  ASSUME NEW s \in Seq(Ids), Len(s) >= 2,
         \A i \in 1..(Len(s) - 1) : s[i] \in Blocks /\ Prev[s[i]] = s[i + 1]
  PROVE  /\ Front(s) \in Seq(Ids)
         /\ Len(Front(s)) >= 1
         /\ \A i \in 1..(Len(Front(s)) - 1) :
              Front(s)[i] \in Blocks /\ Prev[Front(s)[i]] = Front(s)[i + 1]
         /\ Last(Front(s)) \in Blocks /\ Prev[Last(Front(s))] = Last(s)
  <1>1. Len(s) \in Nat
    OBVIOUS
  <1>2. Front(s) \in Seq(Ids) /\ Len(Front(s)) = Len(s) - 1
    BY <1>1 DEF Front
  <1>3. \A i \in 1..(Len(s) - 1) : Front(s)[i] = s[i]
    BY <1>1 DEF Front
  <1>4. ASSUME NEW i \in 1..(Len(Front(s)) - 1)
        PROVE  Front(s)[i] \in Blocks /\ Prev[Front(s)[i]] = Front(s)[i + 1]
    <2>1. i \in 1..(Len(s) - 1) /\ i + 1 \in 1..(Len(s) - 1)
      BY <1>1, <1>2
    <2> QED
      BY <1>3, <2>1
  <1>5. Len(s) - 1 \in 1..(Len(s) - 1) /\ (Len(s) - 1) + 1 = Len(s)
    BY <1>1
  <1>6. Last(Front(s)) = s[Len(s) - 1]
    BY <1>2, <1>3, <1>5 DEF Last
  <1>7. Last(Front(s)) \in Blocks /\ Prev[Last(Front(s))] = Last(s)
    BY <1>5, <1>6 DEF Last
  <1> QED
    BY <1>1, <1>2, <1>4, <1>7

\* A call that ends, or turns to switch back, has a proper history.
LEMMA ThrowTyped ==
  ASSUME oldHead \in Ids, Throw
  PROVE  CallOK'
  <1>1. CASE Return
    BY <1>1 DEF Return, Enter, CallOK, HistoryInv, Ids
  <1>2. CASE Enter("history", "revert", <<oldHead>>) /\ UNCHANGED oldHead
    <2>1. <<oldHead>> \in Seq(Ids) /\ Len(<<oldHead>>) = 1
      OBVIOUS
    <2> QED
      BY <1>2, <2>1 DEF Enter, CallOK, HistoryInv
  <1> QED
    BY <1>1, <1>2 DEF Throw

\* Every step keeps the history of the call.
LEMMA CallStep ==
  ASSUME TypeInv, ChainInv, [Next]_vars
  PROVE  CallOK'
  <1> USE TreeAssumption
  <1>0. CallOK /\ head \in Ids
    BY DEF TypeInv, TypeOK, CallOK
  <1>1. ASSUME UNCHANGED <<call, head>> PROVE CallOK'
    BY <1>0, <1>1 DEF call, CallOK, HistoryInv
  <1>2. ASSUME NEW b \in Blocks, PushBlock(b) PROVE CallOK'
    <2>1. CASE UNCHANGED call
      BY <1>1, <1>2, <2>1 DEF PushBlock, memory
    <2>2. <<b>> \in Seq(Ids) /\ Len(<<b>>) = 1 /\ Last(<<b>>) = b
      BY DEF Ids, Last
    <2>3. CASE Prev[b] = head /\ Enter("extend", "push", <<b>>) /\ oldHead' = head
      BY <1>0, <1>2, <2>2, <2>3 DEF Enter, CallOK, HistoryInv, PushBlock, memory
    <2>4. CASE Enter("history", "switch", <<b>>) /\ oldHead' = head
      BY <1>0, <2>2, <2>4 DEF Enter, CallOK, HistoryInv
    <2> QED
      BY <1>2, <2>1, <2>3, <2>4 DEF PushBlock
  <1>3. ASSUME WalkBack PROVE CallOK'
    <2> DEFINE p == Prev[Last(history)]
    <2>1. CASE ~fork[p].linked
      BY <1>0, <1>3, <2>1, ThrowTyped DEF WalkBack, CallOK
    <2>2. CASE fork[p].linked
      <3>1. history \in Seq(Ids) /\ Len(history) >= 1 /\ Len(history) \in Nat
        BY <1>0, <1>3 DEF WalkBack, CallOK, HistoryInv
      <3>2. Last(history) \in Blocks
        BY <1>3, <3>1 DEF WalkBack, Last, Ids
      <3>3. p \in Ids
        BY <3>2
      <3> DEFINE h == Append(history, p)
      <3>4. h \in Seq(Ids) /\ Len(h) = Len(history) + 1
        BY <3>1, <3>3
      <3>5. \A i \in 1..Len(history) : h[i] = history[i]
        BY <3>1, <3>3
      <3>6. h[Len(h)] = p
        BY <3>1, <3>3, <3>4
      <3>7. ASSUME NEW i \in 1..(Len(h) - 1) PROVE h[i] \in Blocks /\ Prev[h[i]] = h[i + 1]
        <4>1. CASE i = Len(history)
          BY <3>1, <3>2, <3>4, <3>5, <3>6, <4>1 DEF Last
        <4>2. CASE i # Len(history)
          <5>1. i \in 1..(Len(history) - 1) /\ i + 1 \in 1..Len(history) /\ i \in 1..Len(history)
            BY <3>1, <3>4, <4>2
          <5>2. history[i] \in Blocks /\ Prev[history[i]] = history[i + 1]
            BY <1>0, <1>3, <5>1 DEF WalkBack, CallOK, HistoryInv
          <5> QED
            BY <3>5, <5>1, <5>2
        <4> QED
          BY <4>1, <4>2
      <3>8. history' = h /\ mode' = mode /\ pc' \in {"pop", "history"} /\ oldHead' = oldHead
        BY <1>3, <2>2 DEF WalkBack, Enter
      <3> HIDE DEF h
      <3> QED
        BY <1>0, <3>1, <3>4, <3>7, <3>8 DEF CallOK, HistoryInv
    <2> QED
      BY <2>1, <2>2
  <1>4. ASSUME PopBlock PROVE CallOK'
    BY <1>0, <1>4 DEF PopBlock, CallOK, HistoryInv, call
  <1>5. ASSUME PopsDone PROVE CallOK'
    <2>1. history \in Seq(Ids) /\ Len(history) >= 2 /\ Len(history) \in Nat
      BY <1>0, <1>5 DEF PopsDone, CallOK, HistoryInv
    <2>2. \A i \in 1..(Len(history) - 1) :
            history[i] \in Blocks /\ Prev[history[i]] = history[i + 1]
      BY <1>0, <1>5 DEF PopsDone, CallOK, HistoryInv
    <2>3. history' = Front(history) /\ pc' = "extend" /\ mode' = mode /\ oldHead' = oldHead
      BY <1>5 DEF PopsDone, Enter
    <2>4. head' = head /\ Last(history) = head
      BY <1>5 DEF PopsDone, memory
    <2>5. /\ history' \in Seq(Ids) /\ Len(history') >= 1
          /\ \A i \in 1..(Len(history') - 1) :
               history'[i] \in Blocks /\ Prev[history'[i]] = history'[i + 1]
          /\ Last(history') \in Blocks /\ Prev[Last(history')] = head'
      BY <2>1, <2>2, <2>3, <2>4, FrontFacts
    <2> QED
      BY <1>0, <2>3, <2>5 DEF CallOK, HistoryInv
  <1>6. ASSUME ExtendChain PROVE CallOK'
    <2>1. CASE Return
      BY <2>1 DEF Return, Enter, CallOK, HistoryInv, Ids
    <2>2. CASE Len(history) > 1 /\ Enter("extend", mode, Front(history)) /\ UNCHANGED oldHead
      <3>1. history \in Seq(Ids) /\ Len(history) >= 2 /\ Len(history) \in Nat
        BY <1>0, <2>2 DEF CallOK
      <3>2. \A i \in 1..(Len(history) - 1) :
              history[i] \in Blocks /\ Prev[history[i]] = history[i + 1]
        BY <1>0, <1>6 DEF ExtendChain, CallOK, HistoryInv
      <3>3. history' = Front(history) /\ pc' = "extend" /\ mode' = mode /\ oldHead' = oldHead
        BY <2>2 DEF Enter
      <3>4. head' = Last(history)
        BY <1>6 DEF ExtendChain
      <3>5. /\ history' \in Seq(Ids) /\ Len(history') >= 1
            /\ \A i \in 1..(Len(history') - 1) :
                 history'[i] \in Blocks /\ Prev[history'[i]] = history'[i + 1]
            /\ Last(history') \in Blocks /\ Prev[Last(history')] = head'
        BY <3>1, <3>2, <3>3, <3>4, FrontFacts
      <3> QED
        BY <1>0, <3>3, <3>5 DEF CallOK, HistoryInv
    <2> QED
      BY <1>6, <2>1, <2>2 DEF ExtendChain
  <1>7. ASSUME ExtendFails PROVE CallOK'
    BY <1>0, <1>7, ThrowTyped DEF ExtendFails, CallOK
  <1>8. ASSUME GetBlockFails PROVE CallOK'
    BY <1>0, <1>8, ThrowTyped DEF GetBlockFails, CallOK
  <1>9. ASSUME NEW t \in Trxs, StorePendingTransaction(t) PROVE CallOK'
    BY <1>1, <1>9 DEF StorePendingTransaction
  <1>10. ASSUME ClockCatchesUp PROVE CallOK'
    BY <1>1, <1>10 DEF ClockCatchesUp, memory
  <1>11. ASSUME Open PROVE CallOK'
    <2>1. Return
      BY <1>11 DEF Open
    <2> QED
      BY <2>1 DEF Return, Enter, CallOK, HistoryInv, Ids
  <1>12. ASSUME UNCHANGED vars PROVE CallOK'
    BY <1>1, <1>12 DEF vars, memory
  <1> QED
    BY <1>2, <1>3, <1>4, <1>5, <1>6, <1>7, <1>8, <1>9, <1>10, <1>11, <1>12 DEF Next, Step

\* The parts that the balances, the records and the pending transactions decide.
DataOK ==
  /\ trxRec \in [Trxs -> TrxRecs]
  /\ coins \in [Coins -> Nat]
  /\ paid \in Nat
  /\ pending \subseteq Trxs
  /\ IsValues(overlay)
  /\ indexed \subseteq pending
  /\ fresh \in BOOLEAN
  /\ early \subseteq Blocks
  /\ UndoTyped

\* Every step keeps the types of the ledger.
LEMMA DataStep ==
  ASSUME TypeInv, ChainInv, [Next]_vars
  PROVE  DataOK'
  <1> USE TreeAssumption
  <1>0. DataOK
    BY DEF TypeInv, TypeOK, DataOK
  <1>1. ASSUME UNCHANGED <<undo, trxRec, coins, paid, pending, overlay, indexed, fresh, early>>
        PROVE  DataOK'
    BY <1>0, <1>1 DEF DataOK, UndoTyped
  <1>2. ASSUME NEW b \in Blocks, PushBlock(b) PROVE DataOK'
    BY <1>1, <1>2 DEF PushBlock, memory
  <1>3. ASSUME WalkBack PROVE DataOK'
    BY <1>1, <1>3 DEF WalkBack, db, memory
  <1>4. ASSUME PopBlock PROVE DataOK'
    <2>1. head \in Blocks /\ head \in Included
      BY <1>4 DEF PopBlock, ChainInv, TreeInv, Shape, OneChain, Ids
    <2>2. IsValues(undo[head].coins) /\ undo[head].paid \in Nat
      BY <1>0, <2>1 DEF DataOK, UndoTyped
    <2>3. \A t \in TrxOf(head) : undo[head].trxs[t] = "empty"
      BY <2>1 DEF ChainInv, UndoEmpties
    <2>4. trxRec' \in [Trxs -> TrxRecs]
      BY <1>0, <1>4, <2>3 DEF PopBlock, DataOK, TrxRecs
    <2>5. coins' \in [Coins -> Nat] /\ paid' \in Nat
      BY <1>0, <1>4, <2>2, OverFacts DEF PopBlock, DataOK, Funds
    <2> QED
      BY <1>0, <1>4, <2>4, <2>5 DEF PopBlock, DataOK, UndoTyped
  <1>5. ASSUME PopsDone PROVE DataOK'
    BY <1>1, <1>5 DEF PopsDone, db, memory
  <1>6. ASSUME ExtendChain PROVE DataOK'
    <2> DEFINE b == Last(history)
               left == Requeued(pending \ TrxOf(b), coins', trxRec')
    <2>1. /\ b \in Blocks
          /\ undo' = [undo EXCEPT ![b] = UndoState(b)]
          /\ trxRec' = [t \in Trxs |-> IF t \in TrxOf(b) THEN "known" ELSE trxRec[t]]
      BY <1>6, ExtendFacts DEF ChainInv
    <2>2. /\ coins' = Result(b, coins) /\ paid' = paid + 1 /\ early' = early
          /\ Spendable(UserTrx[b], coins) /\ fresh' = TRUE
      BY <1>6 DEF ExtendChain, BlockApplies, Result
    <2>3. pending' = left.kept /\ indexed' = left.kept /\ overlay' = left.values
      BY <1>6 DEF ExtendChain
    <2>4. coins \in Funds /\ coins \in Ledgers
      BY <1>0, FundsAreLedgers DEF DataOK, Funds
    <2>a. Result(b, coins) \in Funds
      BY <2>1, <2>2, <2>4, ResultFacts
    <2>5. coins' \in Funds /\ paid' \in Nat
      BY <1>0, <2>2, <2>a DEF DataOK
    <2>6. left.kept \subseteq Trxs /\ IsValues(left.values)
      BY <2>5, RequeuedFacts
    <2>7. trxRec' \in [Trxs -> TrxRecs]
      BY <1>0, <2>1 DEF DataOK, TrxRecs
    <2>8. IsValues(UndoState(b).coins) /\ UndoState(b).paid \in Nat
      <3> DEFINE T == UNION {Touched(t) : t \in TrxOf(b)}
                 v == [c \in T |-> coins[c]]
      <3>1. T \subseteq Coins
        BY DEF Touched
      <3>2. UndoState(b).coins = v /\ UndoState(b).paid = paid
        BY DEF UndoState
      <3> HIDE DEF T
      <3>3. DOMAIN v = T /\ v \in [T -> Nat]
        BY <2>4, <3>1 DEF Funds
      <3> HIDE DEF v
      <3> QED
        BY <1>0, <3>1, <3>2, <3>3 DEF IsValues, DataOK
    <2> HIDE DEF b, left
    <2>9. UndoTyped'
      BY <1>0, <2>1, <2>8 DEF DataOK, UndoTyped
    <2> QED
      BY <1>0, <2>2, <2>3, <2>5, <2>6, <2>7, <2>9 DEF DataOK, Funds
  <1>7. ASSUME ExtendFails PROVE DataOK'
    BY <1>1, <1>7 DEF ExtendFails, memory
  <1>8. ASSUME GetBlockFails PROVE DataOK'
    BY <1>1, <1>8 DEF GetBlockFails, db, memory
  <1>9. ASSUME NEW t \in Trxs, StorePendingTransaction(t) PROVE DataOK'
    <2>1. IsValues(overlay')
      BY <1>0, <1>9, ThenFacts DEF StorePendingTransaction, TrxValid, DataOK, Funds
    <2> QED
      BY <1>0, <1>9, <2>1 DEF StorePendingTransaction, DataOK, UndoTyped
  <1>10. ASSUME ClockCatchesUp PROVE DataOK'
    BY <1>0, <1>10 DEF ClockCatchesUp, db, memory, DataOK, UndoTyped
  <1>11. ASSUME Open PROVE DataOK'
    <2>1. indexed' = {} /\ overlay' = NoChanges /\ fresh' = TRUE /\ UNCHANGED <<db, early>>
      BY <1>11 DEF Open
    <2>2. IsValues(NoChanges)
      BY <1>0, FundsAreLedgers, OverNothing DEF DataOK, Funds
    <2> QED
      BY <1>0, <2>1, <2>2 DEF DataOK, UndoTyped, db
  <1>12. ASSUME UNCHANGED vars PROVE DataOK'
    BY <1>1, <1>12 DEF vars, db, memory
  <1> QED
    BY <1>2, <1>3, <1>4, <1>5, <1>6, <1>7, <1>8, <1>9, <1>10, <1>11, <1>12 DEF Next, Step

\* Every step keeps the types.
LEMMA TypeStep == TypeInv /\ ChainInv /\ [Next]_vars => TypeInv'
  <1> SUFFICES ASSUME TypeInv, ChainInv, [Next]_vars PROVE TypeInv'
    OBVIOUS
  <1>1. CallOK' /\ DataOK'
    BY CallStep, DataStep
  <1>2. ChainInv'
    BY ChainStep
  <1>3. fork' \in [Ids -> ForkData] /\ record' \subseteq Ids /\ head' \in Ids
    BY <1>2 DEF ChainInv, TreeInv, Shape
  <1>4. numToId' \subseteq Nat \X Ids
    <2>1. numToId' = {<<Num[b], b>> : b \in Included'} /\ Included' \subseteq Ids
      BY <1>2 DEF ChainInv, OneChain, Included
    <2> QED
      BY <2>1, TreeAssumption
  <1>5. TypeOK'
    BY <1>1, <1>3, <1>4 DEF TypeOK, CallOK, DataOK
  <1> QED
    BY <1>1, <1>5 DEF TypeInv, CallOK, DataOK

\* The databases, the memory and the call under way have the types the code
\* relies on: a popped block brings back balances and a number, a transaction
\* that is offered for a block is in the database, and a fork's history is one.
THEOREM ChainTypeCorrect == Spec => []TypeOK
  <1>1. TypeInv => TypeOK
    BY DEF TypeInv
  <1> QED
    BY InitChain, ChainStep, InitTyped, TypeStep, <1>1, PTL DEF Spec

(***************************************************************************)
(* The blocks of the chain stay valid.                                     *)
(***************************************************************************)

\* store_and_index does not touch the verdict on a block that it knows.
LEMMA StoreKeepsVerdicts ==
  ASSUME TreeInv, NEW b \in Blocks, NEW x \in Ids, fork[x].stored
  PROVE  StoreAndIndex(b)[x].valid = fork[x].valid
  <1> DEFINE p == Prev[b]
             withPrev == [fork EXCEPT ![p].stored = TRUE, ![p].next = @ \cup {b}]
             missing == fork[b].stored /\ ~fork[b].linked /\ fork[p].linked
             marked == IF missing THEN Reach(withPrev, fork[b].next) ELSE {}
  <1>1. p \in Ids /\ fork \in [Ids -> ForkData] /\ fork[x] \in ForkData
    BY TreeAssumption DEF TreeInv, Shape
  <1>2. CASE x = b
    <2>1. StoreAndIndex(b)[x] = [fork[b] EXCEPT !.linked = @ \/ fork[p].linked]
      BY <1>2 DEF StoreAndIndex
    <2> QED
      BY <1>1, <1>2, <2>1 DEF ForkData
  <1>3. CASE x # b
    <2>1. StoreAndIndex(b)[x] = [withPrev[x] EXCEPT !.linked = @ \/ x \in marked]
      BY <1>3 DEF StoreAndIndex
    <2>2. withPrev[x] \in ForkData /\ withPrev[x].valid = fork[x].valid
      BY <1>1, TreeAssumption DEF ForkData
    <2> HIDE DEF withPrev, marked
    <2> QED
      BY <2>1, <2>2 DEF ForkData
  <1> QED
    BY <1>2, <1>3

\* Nothing on top of a block outside the chain is in the chain.
LEMMA ReachMissesChain ==
  ASSUME ChainInv, NEW b \in Blocks, b \notin Included
  PROVE  Reach(fork, fork[b].next) \cap Included = {}
  <1> DEFINE D == {d \in Blocks : d \notin Included}
  <1>1. fork \in [Ids -> ForkData] /\ b \in Ids /\ Blocks \subseteq Ids
    BY DEF ChainInv, TreeInv, Shape, Ids
  <1>2. \A d \in Blocks : fork[d].next \subseteq Blocks
    BY <1>1 DEF ForkData
  <1>3. ASSUME NEW d \in D PROVE fork[d].next \subseteq D
    <2> SUFFICES ASSUME NEW x \in fork[d].next PROVE x \in D
      OBVIOUS
    <2>1. x \in Blocks /\ d \in Ids
      BY <1>1, <1>2
    <2>2. Prev[x] = d
      BY <2>1 DEF ChainInv, TreeInv, NextIsComplete
    <2>3. x # Base
      BY <2>1, TreeAssumption
    <2>4. x \in Included => Prev[x] \in Included
      BY <2>3 DEF ChainInv, OneChain
    <2> QED
      BY <2>1, <2>2, <2>4
  <1>4. fork[b].next \subseteq D
    BY <1>3
  <1>5. Reach(fork, fork[b].next) \subseteq D
    <2>1. D \in SUBSET Blocks /\ fork[b].next \subseteq Blocks
      BY <1>2
    <2> HIDE DEF D
    <2> QED
      BY <1>2, <1>3, <1>4, <2>1, ReachFacts
  <1> QED
    BY <1>5

\* The block that is next to be applied is not in the chain.
LEMMA NextIsNew ==
  ASSUME ChainInv, TypeInv, pc = "extend"
  PROVE  Last(history) \in Blocks /\ Last(history) \notin Included
  <1> DEFINE b == Last(history)
  <1>1. b \in Blocks /\ Prev[b] = head
    BY DEF TypeInv, HistoryInv
  <1> HIDE DEF b
  <1>2. b # Base /\ b \in Ids /\ Num[b] \in Nat
    BY <1>1, TreeAssumption DEF Ids
  <1>3. b \in Included => Num[b] = Num[head] + 1 /\ Num[b] <= Num[head]
    BY <1>1, <1>2 DEF ChainInv, OneChain
  <1>4. Num[head] \in Nat
    BY TreeAssumption DEF TypeInv, TypeOK
  <1>5. b \notin Included
    BY <1>2, <1>3, <1>4
  <1> QED
    BY <1>1, <1>5 DEF b

\* Every step leaves the blocks of the chain valid.
LEMMA ValidStep == TypeInv /\ ChainInv /\ IncludedIsValid /\ [Next]_vars => IncludedIsValid'
  <1> SUFFICES ASSUME TypeInv, ChainInv, IncludedIsValid, [Next]_vars PROVE IncludedIsValid'
    OBVIOUS
  <1> USE TreeAssumption
  <1>0. fork \in [Ids -> ForkData] /\ TreeInv /\ Included \subseteq Ids
    BY DEF ChainInv, TreeInv, Shape, Included
  <1>1. ASSUME UNCHANGED fork PROVE IncludedIsValid'
    BY <1>1 DEF IncludedIsValid, Included
  <1>2. ASSUME NEW b \in Blocks, PushBlock(b) PROVE IncludedIsValid'
    <2> SUFFICES ASSUME NEW x \in Included' PROVE fork'[x].linked /\ fork'[x].valid = "yes"
      BY DEF IncludedIsValid
    <2>1. fork' = StoreAndIndex(b)
      BY <1>2 DEF PushBlock
    <2>2. x \in Ids /\ fork'[x].included = fork[x].included
      <3>1. x \in Ids
        BY DEF Included
      <3>2. \A y \in Ids : StoreAndIndex(b)[y].included = fork[y].included
        BY <1>0, StoreFacts
      <3> QED
        BY <2>1, <3>1, <3>2
    <2>3. x \in Included
      BY <2>2 DEF Included
    <2>4. fork[x].linked /\ fork[x].valid = "yes" /\ fork[x].stored
      BY <1>0, <2>3 DEF IncludedIsValid, TreeInv, RecordIsStored
    <2>5. fork'[x].valid = "yes"
      BY <1>0, <2>1, <2>2, <2>4, StoreKeepsVerdicts
    <2>6. fork'[x].linked
      <3>1. CASE x = b
        BY <1>0, <2>1, <2>4, <3>1, StoreFacts
      <3>2. CASE x # b
        BY <1>0, <2>1, <2>2, <2>4, <3>2, StoreFacts
      <3> QED
        BY <3>1, <3>2
    <2> QED
      BY <2>5, <2>6
  <1>3. ASSUME WalkBack PROVE IncludedIsValid'
    BY <1>1, <1>3 DEF WalkBack, db
  <1>4. ASSUME PopBlock PROVE IncludedIsValid'
    <2>1. fork' = MarkIncluded(head, FALSE) /\ head \in Ids
      BY <1>4 DEF PopBlock, TypeInv, TypeOK
    <2>2. \A x \in Ids : x # head => fork'[x] = fork[x]
      BY <1>0, <2>1 DEF MarkIncluded
    <2>3. ~fork'[head].included
      BY <1>0, <2>1, ExcludeFacts
    <2> QED
      BY <2>2, <2>3 DEF IncludedIsValid, Included
  <1>5. ASSUME PopsDone PROVE IncludedIsValid'
    BY <1>1, <1>5 DEF PopsDone, db
  <1>6. ASSUME ExtendChain PROVE IncludedIsValid'
    <2> DEFINE b == Last(history)
    <2>1. b \in Blocks /\ b \in record /\ Prev[b] = head /\ fork' = MarkIncluded(b, TRUE)
      BY <1>0, <1>6, ExtendFacts
    <2> HIDE DEF b
    <2>2. b \in Ids /\ fork[b] \in ForkData
      BY <1>0, <2>1 DEF Ids
    <2>3. \A x \in Ids : x # b => fork'[x] = fork[x]
      BY <1>0, <2>1 DEF MarkIncluded
    <2>4. fork[head].linked
      BY DEF ChainInv, OneChain, IncludedIsValid
    <2>5. fork[b].linked
      BY <1>0, <2>1, <2>4 DEF TreeInv, LinkedExactly
    <2>6. fork'[b].linked /\ fork'[b].valid = "yes"
      BY <1>0, <2>1, <2>2, <2>5 DEF MarkIncluded, ForkData
    <2> QED
      BY <2>3, <2>6 DEF IncludedIsValid, Included
  <1>7. ASSUME ExtendFails PROVE IncludedIsValid'
    <2> DEFINE b == Last(history)
               R == Reach(fork, fork[b].next)
    <2>1. b \in Blocks /\ b \notin Included /\ R \cap Included = {}
      BY <1>7, NextIsNew, ReachMissesChain DEF ExtendFails
    <2>2. fork' = [x \in Ids |-> IF x = b \/ x \in R
                                 THEN [fork[x] EXCEPT !.valid = "no"] ELSE fork[x]]
      BY <1>7 DEF ExtendFails, MarkInvalid
    <2>3. \A x \in Ids : fork'[x].included = fork[x].included
      BY <1>0, <1>7, MarkInvalidFacts DEF ExtendFails
    <2> HIDE DEF b, R
    <2> SUFFICES ASSUME NEW x \in Included' PROVE fork'[x].linked /\ fork'[x].valid = "yes"
      BY DEF IncludedIsValid
    <2>4. x \in Ids /\ x \in Included
      BY <2>3 DEF Included
    <2>5. fork'[x] = fork[x]
      BY <2>1, <2>2, <2>4
    <2> QED
      BY <2>4, <2>5 DEF IncludedIsValid
  <1>8. ASSUME GetBlockFails PROVE IncludedIsValid'
    BY <1>1, <1>8 DEF GetBlockFails, db
  <1>9. ASSUME NEW t \in Trxs, StorePendingTransaction(t) PROVE IncludedIsValid'
    BY <1>1, <1>9 DEF StorePendingTransaction
  <1>10. ASSUME ClockCatchesUp PROVE IncludedIsValid'
    BY <1>1, <1>10 DEF ClockCatchesUp, db
  <1>11. ASSUME Open PROVE IncludedIsValid'
    BY <1>1, <1>11 DEF Open, db
  <1>12. ASSUME UNCHANGED vars PROVE IncludedIsValid'
    BY <1>1, <1>12 DEF vars, db
  <1> QED
    BY <1>2, <1>3, <1>4, <1>5, <1>6, <1>7, <1>8, <1>9, <1>10, <1>11, <1>12 DEF Next, Step

\* mark_invalid, which spreads over everything on top of a block that did not
\* apply, never reaches a block of the chain.
THEOREM ChainStaysValid == Spec => []IncludedIsValid
  <1>1. Init => IncludedIsValid
    BY TreeAssumption DEF Init, IncludedIsValid, Included, Ids, NoForkData
  <1> QED
    BY InitChain, ChainStep, InitTyped, TypeStep, ValidStep, <1>1, PTL DEF Spec

(***************************************************************************)
(* The ledger is the replay of the chain.                                  *)
(***************************************************************************)

\* The undo state of a block of the chain leads from the balances and the pay
\* after the block to those before it.
UndoBrings ==
  \A b \in Included \cap Blocks :
    /\ Over(undo[b].coins, CoinsAt[b]) = CoinsAt[Prev[b]]
    /\ undo[b].paid = Num[Prev[b]] - Num[Base]

LedgerInv == LedgerIsReplay /\ UndoBrings

\* What get_undo_state saves undoes what the block changes.
LEMMA UndoInverts ==
  ASSUME NEW b \in Blocks, coins \in Funds
  PROVE  Over(UndoState(b).coins, Result(b, coins)) = coins
  <1> DEFINE T == UNION {Touched(t) : t \in TrxOf(b)}
             v == [c \in T |-> coins[c]]
             new == Result(b, coins)
  <1>1. \A c \in Coins : c \notin T => new[c] = coins[c]
    BY FundsAreLedgers, ResultFacts
  <1>2. UndoState(b).coins = v
    BY DEF UndoState
  <1> HIDE DEF T, new
  <1>3. \A c \in Coins : (IF c \in DOMAIN v THEN v[c] ELSE new[c]) = coins[c]
    BY <1>1
  <1> HIDE DEF v
  <1>4. Over(v, new) = [c \in Coins |-> coins[c]]
    BY <1>3 DEF Over
  <1> QED
    BY <1>2, <1>4 DEF Funds, new

\* At the beginning nothing has changed since Base.
LEMMA InitLedger == Init => LedgerInv
  <1> SUFFICES ASSUME Init PROVE LedgerInv
    OBVIOUS
  <1> USE TreeAssumption, RootAssumption
  <1>1. CoinsAt[Base] = Funded /\ CoinsAt[Root] = Funded
    <2>1. Funded \in Ledgers
      BY TrxAssumption, FundsAreLedgers DEF Funds
    <2> QED
      BY <2>1, CoinsFacts, RootResult
  <1>2. Num[Base] \in Nat /\ Num[Root] = Num[Base] + 1
    BY DEF Ids
  <1>3. LedgerIsReplay
    BY <1>1, <1>2 DEF Init, LedgerIsReplay
  <1>4. Included \cap Blocks = {Root}
    BY DEF Init, Included, Ids, NoForkData
  <1>5. undo[Root] = NoUndo
    BY DEF Init
  <1>6. NoUndo.coins = NoChanges /\ NoUndo.paid = 0 /\ Over(NoChanges, Funded) = Funded
    BY TrxAssumption, FundsAreLedgers, OverNothing DEF Funds, NoUndo
  <1>7. UndoBrings
    BY <1>1, <1>2, <1>4, <1>5, <1>6 DEF UndoBrings
  <1> QED
    BY <1>3, <1>7 DEF LedgerInv

\* Every step keeps the ledger the replay of the chain.
LEMMA LedgerStep == TypeInv /\ ChainInv /\ LedgerInv /\ [Next]_vars => LedgerInv'
  <1> SUFFICES ASSUME TypeInv, ChainInv, LedgerInv, [Next]_vars PROVE LedgerInv'
    OBVIOUS
  <1> USE TreeAssumption
  <1>0. TreeInv /\ head \in Ids /\ head \in Included
    BY DEF ChainInv, TypeInv, TypeOK, OneChain
  <1>1. ASSUME \A x \in Ids : fork'[x].included = fork[x].included,
               UNCHANGED <<undo, coins, paid, head>>
        PROVE  LedgerInv'
    <2>1. Included' = Included
      BY <1>1 DEF Included
    <2> QED
      BY <1>1, <2>1 DEF LedgerInv, LedgerIsReplay, UndoBrings
  <1>2. ASSUME NEW b \in Blocks, PushBlock(b) PROVE LedgerInv'
    <2>1. fork' = StoreAndIndex(b)
      BY <1>2 DEF PushBlock
    <2>2. \A x \in Ids : fork'[x].included = fork[x].included
      BY <1>0, <2>1, StoreFacts
    <2> QED
      BY <1>1, <1>2, <2>2 DEF PushBlock, memory
  <1>3. ASSUME WalkBack PROVE LedgerInv'
    BY <1>1, <1>3 DEF WalkBack, db, memory
  <1>4. ASSUME PopBlock PROVE LedgerInv'
    <2>1. head \in Included \cap Blocks
      BY <1>0, <1>4 DEF PopBlock, Ids
    <2>2. /\ fork' = MarkIncluded(head, FALSE)
          /\ coins' = Over(undo[head].coins, coins) /\ paid' = undo[head].paid
          /\ head' = Prev[head] /\ undo' = undo
      BY <1>4 DEF PopBlock
    <2>3. Included' \subseteq Included
      BY <1>0, <2>2, ExcludeFacts DEF Included
    <2>4. UndoBrings'
      BY <2>2, <2>3 DEF LedgerInv, UndoBrings
    <2>5. LedgerIsReplay'
      BY <2>1, <2>2 DEF LedgerInv, UndoBrings, LedgerIsReplay
    <2> QED
      BY <2>4, <2>5 DEF LedgerInv
  <1>5. ASSUME PopsDone PROVE LedgerInv'
    BY <1>1, <1>5 DEF PopsDone, db, memory
  <1>6. ASSUME ExtendChain PROVE LedgerInv'
    <2> DEFINE b == Last(history)
    <2>1. /\ b \in Blocks /\ Prev[b] = head /\ Num[b] = Num[head] + 1
          /\ fork' = MarkIncluded(b, TRUE)
          /\ head' = b
          /\ undo' = [undo EXCEPT ![b] = UndoState(b)]
      BY <1>0, <1>6, ExtendFacts
    <2>2. coins' = Result(b, coins) /\ paid' = paid + 1
      BY <1>6 DEF ExtendChain, Result
    <2> HIDE DEF b
    <2>3. CoinsAt[b] = Result(b, coins) /\ CoinsAt[Prev[b]] = coins
      BY <2>1, CoinsFacts DEF LedgerInv, LedgerIsReplay
    <2>4. b \in Ids /\ Num[head] \in Nat /\ Num[Base] \in Nat
      BY <1>0, <2>1 DEF Ids
    <2>5. LedgerIsReplay'
      BY <2>1, <2>2, <2>3, <2>4 DEF LedgerInv, LedgerIsReplay
    <2>6. Included' = Included \cup {b}
      <3>1. fork'[b].included /\ \A x \in Ids : x # b => fork'[x].included = fork[x].included
        BY <1>0, <2>1, <2>4, IncludeFacts
      <3> QED
        BY <2>4, <3>1 DEF Included
    <2>7. undo'[b] = UndoState(b) /\ \A c \in Blocks : c # b => undo'[c] = undo[c]
      BY <2>1 DEF TypeInv, UndoTyped
    <2>8. Over(undo'[b].coins, CoinsAt[b]) = CoinsAt[Prev[b]]
      BY <2>1, <2>3, <2>7, UndoInverts DEF TypeInv, TypeOK, Funds
    <2>9. undo'[b].paid = Num[Prev[b]] - Num[Base]
      BY <2>1, <2>7 DEF UndoState, LedgerInv, LedgerIsReplay
    <2>10. UndoBrings'
      BY <2>6, <2>7, <2>8, <2>9 DEF LedgerInv, UndoBrings
    <2> QED
      BY <2>5, <2>10 DEF LedgerInv
  <1>7. ASSUME ExtendFails PROVE LedgerInv'
    <2>1. \A x \in Ids : fork'[x].included = fork[x].included
      BY <1>0, <1>7, MarkInvalidFacts DEF ExtendFails
    <2> QED
      BY <1>1, <1>7, <2>1 DEF ExtendFails, memory
  <1>8. ASSUME GetBlockFails PROVE LedgerInv'
    BY <1>1, <1>8 DEF GetBlockFails, db, memory
  <1>9. ASSUME NEW t \in Trxs, StorePendingTransaction(t) PROVE LedgerInv'
    BY <1>1, <1>9 DEF StorePendingTransaction
  <1>10. ASSUME ClockCatchesUp PROVE LedgerInv'
    BY <1>1, <1>10 DEF ClockCatchesUp, db, memory
  <1>11. ASSUME Open PROVE LedgerInv'
    BY <1>1, <1>11, OpenFindsHead DEF Open, db
  <1>12. ASSUME UNCHANGED vars PROVE LedgerInv'
    BY <1>1, <1>12 DEF vars, db, memory
  <1> QED
    BY <1>2, <1>3, <1>4, <1>5, <1>6, <1>7, <1>8, <1>9, <1>10, <1>11, <1>12 DEF Next, Step

\* After any pops, extensions, failures and restarts the balances and the pay are
\* what the blocks from Base to the head make of those at Base.
THEOREM UndoBringsBack == Spec => []LedgerIsReplay
  <1>1. LedgerInv => LedgerIsReplay
    BY DEF LedgerInv
  <1> QED
    BY InitChain, ChainStep, InitTyped, TypeStep, InitLedger, LedgerStep, <1>1, PTL DEF Spec

(***************************************************************************)
(* The pending transactions.                                               *)
(***************************************************************************)

\* What is pending has no record, and what is offered for the next block runs from
\* the balances after the head, if the pending state was built on it, to what
\* _pending_trx_state shows.
PendingInv == PendingIsNew /\ (fresh => Runs(indexed, overlay, coins))

\* Every step keeps what is said of the pending transactions.
LEMMA PendingStep == TypeInv /\ ChainInv /\ PendingInv /\ [Next]_vars => PendingInv'
  <1> SUFFICES ASSUME TypeInv, ChainInv, PendingInv, [Next]_vars PROVE PendingInv'
    OBVIOUS
  <1> USE TreeAssumption
  <1>0. coins \in Funds /\ coins \in Ledgers
    BY FundsAreLedgers DEF TypeInv, TypeOK, Funds
  <1>1. ASSUME UNCHANGED <<trxRec, coins, pending, indexed, overlay, fresh>> PROVE PendingInv'
    BY <1>1 DEF PendingInv, PendingIsNew
  <1>2. ASSUME NEW b \in Blocks, PushBlock(b) PROVE PendingInv'
    BY <1>1, <1>2 DEF PushBlock, memory
  <1>3. ASSUME WalkBack PROVE PendingInv'
    BY <1>1, <1>3 DEF WalkBack, db, memory
  <1>4. ASSUME PopBlock PROVE PendingInv'
    <2>1. head \in Included \cap Blocks
      BY <1>4 DEF PopBlock, TypeInv, TypeOK, ChainInv, OneChain, Ids
    <2>2. UNCHANGED pending /\ fresh' = FALSE /\ pending \subseteq Trxs
      BY <1>4 DEF PopBlock, TypeInv, TypeOK
    <2>3. \A t \in pending : t \notin TrxOf(head)
      BY <2>1, <2>2 DEF PendingInv, PendingIsNew, ChainInv, RecordsMatchChain
    <2>4. \A t \in pending : trxRec'[t] = trxRec[t]
      BY <1>4, <2>2, <2>3 DEF PopBlock
    <2> QED
      BY <2>2, <2>4 DEF PendingInv, PendingIsNew
  <1>5. ASSUME PopsDone PROVE PendingInv'
    BY <1>1, <1>5 DEF PopsDone, db, memory
  <1>6. ASSUME ExtendChain PROVE PendingInv'
    <2> DEFINE left == Requeued(pending \ TrxOf(Last(history)), coins', trxRec')
    <2>1. pending' = left.kept /\ indexed' = left.kept /\ overlay' = left.values
      BY <1>6 DEF ExtendChain
    <2>2. coins' \in Funds
      BY DataStep DEF DataOK, Funds
    <2>3. (\A t \in left.kept : trxRec'[t] = "none") /\ Runs(left.kept, left.values, coins')
      BY <2>2, RequeuedFacts
    <2> HIDE DEF left
    <2>4. PendingIsNew'
      BY <2>1, <2>3 DEF PendingIsNew
    <2>5. Runs(indexed', overlay', coins')
      BY <2>1, <2>3
    <2> QED
      BY <2>4, <2>5 DEF PendingInv
  <1>7. ASSUME ExtendFails PROVE PendingInv'
    BY <1>1, <1>7 DEF ExtendFails, memory
  <1>8. ASSUME GetBlockFails PROVE PendingInv'
    BY <1>1, <1>8 DEF GetBlockFails, db, memory
  <1>9. ASSUME NEW t \in Trxs, StorePendingTransaction(t) PROVE PendingInv'
    <2>1. /\ trxRec[t] = "none" /\ Covers(t, Over(overlay, coins)) /\ t \notin pending
          /\ pending' = pending \cup {t} /\ indexed' = indexed \cup {t}
          /\ overlay' = Then(overlay, t, coins) /\ UNCHANGED <<trxRec, coins, fresh>>
      BY <1>9 DEF StorePendingTransaction, TrxValid
    <2>2. t \notin indexed /\ IsValues(overlay)
      BY <2>1 DEF TypeInv, TypeOK
    <2>3. fresh => Runs(indexed \cup {t}, Then(overlay, t, coins), coins)
      BY <1>0, <2>1, <2>2, RunsAdd DEF PendingInv
    <2>4. PendingIsNew'
      BY <2>1 DEF PendingInv, PendingIsNew
    <2> QED
      BY <2>1, <2>3, <2>4 DEF PendingInv
  <1>10. ASSUME ClockCatchesUp PROVE PendingInv'
    BY <1>1, <1>10 DEF ClockCatchesUp, db, memory
  <1>11. ASSUME Open PROVE PendingInv'
    <2>1. indexed' = {} /\ overlay' = NoChanges /\ UNCHANGED db
      BY <1>11 DEF Open
    <2>2. Runs(indexed', overlay', coins')
      BY <1>0, <2>1, RunsNone DEF db
    <2> QED
      BY <2>1, <2>2 DEF PendingInv, PendingIsNew, db
  <1>12. ASSUME UNCHANGED vars PROVE PendingInv'
    BY <1>1, <1>12 DEF vars, db, memory
  <1> QED
    BY <1>2, <1>3, <1>4, <1>5, <1>6, <1>7, <1>8, <1>9, <1>10, <1>11, <1>12 DEF Next, Step

\* At the beginning nothing is pending.
LEMMA InitPending == Init => PendingInv
  <1> SUFFICES ASSUME Init PROVE PendingInv
    OBVIOUS
  <1>1. Funded \in Ledgers
    BY TrxAssumption, FundsAreLedgers DEF Funds
  <1>2. Runs({}, NoChanges, Funded)
    BY <1>1, RunsNone
  <1> QED
    BY <1>2 DEF Init, PendingInv, PendingIsNew

\* A transaction that waits for a block is in no block and never was in one that
\* is still recorded, whatever was popped and applied since it came.
THEOREM PendingStaysNew == Spec => []PendingIsNew
  <1>1. PendingInv => PendingIsNew
    BY DEF PendingInv
  <1> QED
    BY InitChain, ChainStep, InitTyped, TypeStep, InitPending, PendingStep, <1>1, PTL DEF Spec

\* The transactions offered for the next block can go into one block in some order,
\* the balances after the head covering every withdrawal, as long as the pending
\* state was built on that head.
THEOREM PendingFits == Spec => []PendingFitTogether
  <1>1. TypeInv /\ PendingInv => PendingFitTogether
    <2> SUFFICES ASSUME TypeInv, PendingInv, fresh
                 PROVE  \E order \in SetToSeqs(indexed) : Spendable(order, coins)
      BY DEF PendingFitTogether
    <2>1. coins \in Ledgers
      BY FundsAreLedgers DEF TypeInv, TypeOK, Funds
    <2> QED
      BY <2>1, RunsFit DEF PendingInv
  <1> QED
    BY InitChain, ChainStep, InitTyped, TypeStep, InitPending, PendingStep, <1>1, PTL DEF Spec

=============================================================================
