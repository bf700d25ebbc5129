------------------------ MODULE ChainDatabaseProofs ------------------------
(***************************************************************************)
(* Proofs about ChainDatabase, for every block tree, every assignment of   *)
(* transactions to blocks and every order of arrival.                      *)
(***************************************************************************)
EXTENDS ChainDatabase, TLAPS

(***************************************************************************)
(* What the loops of the recursive marks visit.                            *)
(***************************************************************************)

\* Reach starts with S, is closed under next_blocks, and is within every set
\* that is: recursive_mark_as_linked and recursive_mark_as_invalid visit no more
\* and no less.
LEMMA ReachFacts ==
  ASSUME NEW f, NEW S,
         S \subseteq Blocks,
         \A d \in Blocks : f[d].next \subseteq Blocks
  PROVE  /\ Reach(f, S) \subseteq Blocks
         /\ S \subseteq Reach(f, S)
         /\ \A d \in Reach(f, S) : f[d].next \subseteq Reach(f, S)
         /\ \A D \in SUBSET Blocks :
              (S \subseteq D /\ \A d \in D : f[d].next \subseteq D)
                => Reach(f, S) \subseteq D
  <1>1. Reach(f, S) \subseteq Blocks
    BY DEF Reach
  <1>2. S \subseteq Reach(f, S)
    BY DEF Reach
  <1>3. ASSUME NEW d \in Reach(f, S), NEW x \in f[d].next
        PROVE  x \in Reach(f, S)
    <2>1. d \in Blocks /\ x \in Blocks
      BY <1>1, <1>3
    <2>2. ASSUME NEW D \in SUBSET Blocks, S \subseteq D,
                 \A e \in D : f[e].next \subseteq D
          PROVE  x \in D
      <3>1. d \in D
        BY <1>3, <2>2 DEF Reach
      <3> QED
        BY <1>3, <2>2, <3>1
    <2> QED
      BY <2>1, <2>2 DEF Reach
  <1>4. ASSUME NEW D \in SUBSET Blocks, S \subseteq D,
               \A d \in D : f[d].next \subseteq D
        PROVE  Reach(f, S) \subseteq D
    BY <1>4 DEF Reach
  <1> QED
    BY <1>1, <1>2, <1>3, <1>4

(***************************************************************************)
(* The inductive invariant.                                                *)
(***************************************************************************)

\* The types that the steps rely on.
Shape ==
  /\ fork \in [Ids -> ForkData]
  /\ record \subseteq Ids
  /\ head \in Ids

\* next_blocks of a block are exactly the recorded blocks on top of it.
NextIsComplete ==
  \A y \in Ids, x \in Blocks : x \in fork[y].next <=> x \in record /\ Prev[x] = y

\* A recorded block and its predecessor have entries in _fork_db, and so has an
\* included block; Base is linked.
RecordIsStored ==
  /\ \A x \in record \cap Blocks : fork[x].stored /\ fork[Prev[x]].stored
  /\ \A x \in Included : fork[x].stored
  /\ fork[Base].linked

\* The block that push_block extends the chain with has just been stored.
PushedIsRecorded ==
  mode = "push" =>
    \/ pc = "idle"
    \/ pc = "extend" /\ \E b \in record \cap Blocks : history = <<b>>

TreeInv == Shape /\ NextIsComplete /\ RecordIsStored /\ PushedIsRecorded /\ LinkedExactly

\* The undo state of an included block empties the records of its transactions.
UndoEmpties ==
  /\ undo = [b \in Blocks |-> undo[b]]
  /\ \A b \in Included \cap Blocks : \A t \in TrxOf(b) : undo[b].trxs[t] = "empty"

ChainInv == TreeInv /\ OneChain /\ UndoEmpties /\ RecordsMatchChain

\* The established chain is a block tree.
LEMMA InitTree == Init => TreeInv
  <1> SUFFICES ASSUME Init PROVE TreeInv
    OBVIOUS
  <1> USE TreeAssumption, RootAssumption
  <1>1. Shape
    BY DEF Init, Shape, Ids, ForkData, NoForkData, Validity
  <1>2. NextIsComplete
    BY DEF Init, NextIsComplete, Ids, NoForkData
  <1>3. RecordIsStored
    BY DEF Init, RecordIsStored, Included, Ids, NoForkData
  <1>4. PushedIsRecorded
    BY DEF Init, PushedIsRecorded
  <1>5. LinkedExactly
    BY DEF Init, LinkedExactly, Ids, NoForkData
  <1> QED
    BY <1>1, <1>2, <1>3, <1>4, <1>5 DEF TreeInv

(***************************************************************************)
(* Storing a block keeps the tree.                                         *)
(***************************************************************************)

\* What store_and_index makes of the entries of _fork_db.
LEMMA StoreFacts ==
  ASSUME TreeInv, NEW b \in Blocks
  PROVE  LET f == StoreAndIndex(b)
             M == Reach([fork EXCEPT ![Prev[b]].stored = TRUE,
                                     ![Prev[b]].next = @ \cup {b}], fork[b].next)
             missing == fork[b].stored /\ ~fork[b].linked /\ fork[Prev[b]].linked
         IN  /\ f \in [Ids -> ForkData]
             /\ f[b].stored /\ f[Prev[b]].stored
             /\ \A x \in Ids : fork[x].stored => f[x].stored
             /\ \A x \in Ids : f[x].included = fork[x].included
             /\ \A x \in Ids : f[x].next = IF x = Prev[b] THEN fork[x].next \cup {b}
                                                          ELSE fork[x].next
             /\ f[b].linked = (fork[b].linked \/ fork[Prev[b]].linked)
             /\ \A x \in Ids \ {b} :
                  f[x].linked = (fork[x].linked \/ (missing /\ x \in M))
  <1> DEFINE p == Prev[b]
             withPrev == [fork EXCEPT ![p].stored = TRUE, ![p].next = @ \cup {b}]
             missing == fork[b].stored /\ ~fork[b].linked /\ fork[p].linked
             marked == IF missing THEN Reach(withPrev, fork[b].next) ELSE {}
             current == IF fork[b].stored
                        THEN [fork[b] EXCEPT !.linked = @ \/ fork[p].linked]
                        ELSE [NoForkData EXCEPT !.stored = TRUE, !.known = TRUE,
                                                !.linked = fork[p].linked]
             f == StoreAndIndex(b)
  <1>1. p \in Ids /\ b \in Ids /\ p # b
    BY TreeAssumption DEF Ids
  <1>2. fork \in [Ids -> ForkData]
    BY DEF TreeInv, Shape
  <1>3. withPrev \in [Ids -> ForkData]
    BY <1>1, <1>2 DEF ForkData
  <1>4. f = [x \in Ids |-> IF x = b THEN current
                           ELSE [withPrev[x] EXCEPT !.linked = @ \/ x \in marked]]
    BY DEF StoreAndIndex
  <1>5. f[b] = current
    BY <1>1, <1>4
  <1>6. \A x \in Ids \ {b} : f[x] = [withPrev[x] EXCEPT !.linked = @ \/ x \in marked]
    BY <1>4
  <1>7. ~fork[b].stored => ~fork[b].linked /\ fork[b].next = {} /\ ~fork[b].included
    <2> SUFFICES ASSUME ~fork[b].stored
                 PROVE  ~fork[b].linked /\ fork[b].next = {} /\ ~fork[b].included
      OBVIOUS
    <2>1. b \notin record
      BY DEF TreeInv, RecordIsStored
    <2>2. ~fork[b].linked
      BY <2>1 DEF TreeInv, LinkedExactly
    <2>3. fork[b].next = {}
      <3>1. fork[b].next \subseteq Blocks
        BY <1>1, <1>2 DEF ForkData
      <3>2. \A x \in Blocks : x \notin fork[b].next
        BY <1>1 DEF TreeInv, NextIsComplete, RecordIsStored
      <3> QED
        BY <3>1, <3>2
    <2>4. ~fork[b].included
      BY <1>1 DEF TreeInv, RecordIsStored, Included
    <2> QED
      BY <2>2, <2>3, <2>4
  <1>8. current \in ForkData
    <2>1. fork[b] \in ForkData /\ fork[p].linked \in BOOLEAN
      BY <1>1, <1>2 DEF ForkData
    <2> QED
      BY <2>1 DEF ForkData, NoForkData, Validity
  <1>9. /\ current.stored
        /\ current.next = fork[b].next
        /\ current.included = fork[b].included
        /\ current.linked = (fork[b].linked \/ fork[p].linked)
    <2>1. fork[b] \in ForkData /\ fork[p] \in ForkData
      BY <1>1, <1>2
    <2>2. CASE fork[b].stored
      BY <2>1, <2>2 DEF ForkData
    <2>3. CASE ~fork[b].stored
      BY <2>1, <2>3, <1>7 DEF ForkData, NoForkData
    <2> QED
      BY <2>2, <2>3
  <1>10. \A x \in Ids : /\ withPrev[x].included = fork[x].included
                        /\ withPrev[x].linked = fork[x].linked
                        /\ fork[x].stored => withPrev[x].stored
                        /\ withPrev[x].next = IF x = p THEN fork[x].next \cup {b}
                                                       ELSE fork[x].next
    BY <1>1, <1>2 DEF ForkData
  <1>11. withPrev[p].stored
    BY <1>1, <1>2 DEF ForkData
  <1>12. ASSUME NEW x \in Ids \ {b}
         PROVE  /\ f[x] \in ForkData
                /\ f[x].included = withPrev[x].included
                /\ f[x].stored = withPrev[x].stored
                /\ f[x].next = withPrev[x].next
                /\ f[x].linked = (withPrev[x].linked \/ x \in marked)
    <2>1. withPrev[x] \in ForkData
      BY <1>3
    <2> HIDE DEF withPrev, marked
    <2> QED
      BY <1>6, <2>1 DEF ForkData
  <1>13. f \in [Ids -> ForkData]
    <2>1. \A x \in Ids : f[x] \in ForkData
      BY <1>5, <1>8, <1>12
    <2> QED
      BY <1>4, <2>1
  <1>14. f[b].stored /\ f[p].stored
    BY <1>1, <1>5, <1>9, <1>11, <1>12
  <1>15. \A x \in Ids : fork[x].stored => f[x].stored
    <2> HIDE DEF f, withPrev, current
    <2> QED
      BY <1>5, <1>9, <1>10, <1>12
  <1>16. \A x \in Ids : f[x].included = fork[x].included
    <2> HIDE DEF f, withPrev, current
    <2> QED
      BY <1>5, <1>9, <1>10, <1>12
  <1>17. \A x \in Ids : f[x].next = IF x = p THEN fork[x].next \cup {b} ELSE fork[x].next
    <2> HIDE DEF f, withPrev, current
    <2> QED
      BY <1>1, <1>5, <1>9, <1>10, <1>12
  <1>18. f[b].linked = (fork[b].linked \/ fork[p].linked)
    <2> HIDE DEF f, current
    <2> QED
      BY <1>5, <1>9
  <1>19. \A x \in Ids \ {b} :
           f[x].linked = (fork[x].linked \/ (missing /\ x \in Reach(withPrev, fork[b].next)))
    <2> DEFINE R == Reach(withPrev, fork[b].next)
    <2> SUFFICES ASSUME NEW x \in Ids \ {b}
                 PROVE  f[x].linked = (fork[x].linked \/ (missing /\ x \in R))
      OBVIOUS
    <2>1. f[x].linked = (fork[x].linked \/ x \in marked)
      <3> HIDE DEF f, withPrev, marked
      <3> QED
        BY <1>10, <1>12
    <2>2. (x \in marked) <=> (missing /\ x \in R)
      <3> HIDE DEF withPrev
      <3>1. CASE missing
        BY <3>1
      <3>2. CASE ~missing
        BY <3>2
      <3> QED
        BY <3>1, <3>2
    <2> HIDE DEF f, marked, R, missing
    <2> QED
      BY <2>1, <2>2
  <1> HIDE DEF current, marked
  <1> QED
    BY <1>13, <1>14, <1>15, <1>16, <1>17, <1>18, <1>19

\* Storing a block keeps the block tree: it is noted with its predecessor, and
\* when it closes a gap, everything on top of it becomes linked.
LEMMA PushKeepsTree ==
  ASSUME TreeInv, NEW b \in Blocks, PushBlock(b)
  PROVE  TreeInv'
  <1> DEFINE p == Prev[b]
             withPrev == [fork EXCEPT ![p].stored = TRUE, ![p].next = @ \cup {b}]
             M == Reach(withPrev, fork[b].next)
             missing == fork[b].stored /\ ~fork[b].linked /\ fork[p].linked
  <1>1. p \in Ids /\ b \in Ids /\ p # b
    BY TreeAssumption DEF Ids
  <1>2. fork' = StoreAndIndex(b) /\ record' = record \cup {b} /\ head' = head
    BY DEF PushBlock, memory
  <1>3. /\ fork' \in [Ids -> ForkData]
        /\ fork'[b].stored /\ fork'[p].stored
        /\ \A x \in Ids : fork[x].stored => fork'[x].stored
        /\ \A x \in Ids : fork'[x].included = fork[x].included
        /\ \A x \in Ids : fork'[x].next = IF x = p THEN fork[x].next \cup {b}
                                                    ELSE fork[x].next
        /\ fork'[b].linked = (fork[b].linked \/ fork[p].linked)
        /\ \A x \in Ids \ {b} :
             fork'[x].linked = (fork[x].linked \/ (missing /\ x \in M))
    BY StoreFacts, <1>2
  <1>4. Shape'
    BY <1>1, <1>2, <1>3 DEF TreeInv, Shape
  <1>5. NextIsComplete'
    <2> SUFFICES ASSUME NEW y \in Ids, NEW x \in Blocks
                 PROVE  x \in fork'[y].next <=> x \in record' /\ Prev[x] = y
      BY DEF NextIsComplete
    <2>1. x \in fork[y].next <=> x \in record /\ Prev[x] = y
      BY DEF TreeInv, NextIsComplete
    <2>2. fork'[y].next = IF y = p THEN fork[y].next \cup {b} ELSE fork[y].next
      BY <1>3
    <2> QED
      BY <1>2, <2>1, <2>2
  <1>6. RecordIsStored'
    <2>1. \A x \in Ids : fork'[x].included = fork[x].included
      BY <1>3
    <2>2. fork'[Base].linked
      <3>1. Base \in Ids \ {b}
        BY TreeAssumption DEF Ids
      <3> HIDE DEF M, missing
      <3> QED
        BY <1>3, <3>1 DEF TreeInv, RecordIsStored
    <2>3. \A x \in record' \cap Blocks : fork'[x].stored /\ fork'[Prev[x]].stored
      <3> SUFFICES ASSUME NEW x \in record' \cap Blocks
                   PROVE  fork'[x].stored /\ fork'[Prev[x]].stored
        OBVIOUS
      <3>1. CASE x = b
        BY <1>3, <3>1
      <3>2. CASE x # b
        <4>1. x \in record /\ x \in Ids /\ Prev[x] \in Ids
          BY <1>2, <3>2, TreeAssumption DEF Ids
        <4> QED
          BY <1>3, <4>1 DEF TreeInv, RecordIsStored
      <3> QED
        BY <3>1, <3>2
    <2>4. \A x \in Included' : fork'[x].stored
      BY <1>3, <2>1 DEF TreeInv, RecordIsStored, Included
    <2> QED
      BY <2>2, <2>3, <2>4 DEF RecordIsStored
  <1>7. PushedIsRecorded'
    <2> SUFFICES ASSUME mode' = "push"
                 PROVE  \/ pc' = "idle"
                        \/ pc' = "extend" /\ \E c \in record' \cap Blocks : history' = <<c>>
      BY DEF PushedIsRecorded
    <2>1. pc = "idle"
      BY DEF PushBlock
    <2>2. CASE UNCHANGED call
      BY <2>1, <2>2 DEF call
    <2>3. CASE Enter("extend", "push", <<b>>)
      BY <1>2, <2>3 DEF Enter
    <2>4. CASE Enter("history", "switch", <<b>>)
      BY <2>4 DEF Enter
    <2> QED
      BY <2>2, <2>3, <2>4 DEF PushBlock
  <1>8. LinkedExactly'
    <2> SUFFICES ASSUME NEW x \in Blocks
                 PROVE  fork'[x].linked <=> x \in record' /\ fork'[Prev[x]].linked
      BY DEF LinkedExactly
    <2>1. x \in Ids /\ Prev[x] \in Ids
      BY TreeAssumption DEF Ids
    <2>2. fork[x].linked <=> x \in record /\ fork[Prev[x]].linked
      BY DEF TreeInv, LinkedExactly
    <2>3. fork[b].linked => fork[p].linked
      BY DEF TreeInv, LinkedExactly
    <2>4. fork'[p].linked = (fork[p].linked \/ (missing /\ p \in M))
      BY <1>1, <1>3
    <2>5. CASE x = b
      <3> HIDE DEF M
      <3> QED
        BY <1>2, <1>3, <2>3, <2>4, <2>5
    <2>6. CASE x # b /\ ~missing
      <3> HIDE DEF M
      <3>1. fork'[x].linked <=> fork[x].linked
        BY <1>3, <2>1, <2>6
      <3>2. CASE Prev[x] # b
        BY <1>2, <1>3, <2>1, <2>2, <2>6, <3>1, <3>2
      <3>3. CASE Prev[x] = b
        <4>1. x \in record => fork[b].stored
          BY <3>3 DEF TreeInv, RecordIsStored
        <4> QED
          BY <1>2, <1>3, <2>2, <2>3, <2>6, <3>1, <3>3, <4>1
      <3> QED
        BY <3>2, <3>3
    <2>7. CASE x # b /\ missing
      <3>1. /\ M \subseteq Blocks
            /\ fork[b].next \subseteq M
            /\ \A d \in M : withPrev[d].next \subseteq M
            /\ \A D \in SUBSET Blocks :
                 (fork[b].next \subseteq D /\ \A d \in D : withPrev[d].next \subseteq D)
                   => M \subseteq D
        <4>1. fork \in [Ids -> ForkData]
          BY DEF TreeInv, Shape
        <4>2. fork[b].next \subseteq Blocks
          BY <1>1, <4>1 DEF ForkData
        <4>3. \A d \in Blocks : withPrev[d].next \subseteq Blocks
          BY <1>1, <4>1 DEF ForkData, Ids
        <4> HIDE DEF withPrev
        <4> QED
          BY <4>2, <4>3, ReachFacts
      <3>2. \A y \in Ids : withPrev[y].next = IF y = p THEN fork[y].next \cup {b} ELSE fork[y].next
        BY <1>1 DEF TreeInv, Shape, ForkData
      <3>3. \A y \in Ids, z \in Blocks : z \in fork[y].next <=> z \in record /\ Prev[z] = y
        BY DEF TreeInv, NextIsComplete
      <3> HIDE DEF M, withPrev
      <3>4. M \subseteq {y \in M : y \in record \cup {b} /\ (Prev[y] = b \/ Prev[y] \in M)}
        <4> DEFINE D == {y \in M : y \in record \cup {b} /\ (Prev[y] = b \/ Prev[y] \in M)}
        <4>1. fork[b].next \subseteq D
          BY <1>1, <3>1, <3>3
        <4>2. ASSUME NEW d \in D, NEW y \in withPrev[d].next
              PROVE  y \in D
          <5>1. d \in M /\ y \in M /\ d \in Ids /\ y \in Blocks
            BY <3>1, <4>2 DEF Ids
          <5>2. y \in record \cup {b} /\ Prev[y] = d
            <6>1. CASE y \in fork[d].next
              BY <3>3, <5>1, <6>1
            <6>2. CASE y \notin fork[d].next
              <7>1. d = p /\ y = b
                <8>1. d # p => withPrev[d].next = fork[d].next
                  BY <3>2, <5>1
                <8>2. d = p => withPrev[d].next = fork[d].next \cup {b}
                  BY <3>2, <5>1
                <8>3. y \in withPrev[d].next
                  BY <4>2
                <8> HIDE DEF p
                <8> QED
                  BY <6>2, <8>1, <8>2, <8>3
              <7> QED
                BY <7>1
            <6> QED
              BY <6>1, <6>2
          <5> QED
            BY <5>1, <5>2
        <4>3. D \in SUBSET Blocks
          BY <3>1
        <4> QED
          BY <3>1, <4>1, <4>2, <4>3
      <3>5. fork'[b].linked
        BY <1>3, <2>7
      <3>6. \A y \in Ids \ {b} : fork'[y].linked <=> (fork[y].linked \/ y \in M)
        BY <1>3, <2>7
      <3>7. ~fork[b].linked
        BY <2>7
      <3>8. ASSUME fork'[x].linked
            PROVE  x \in record' /\ fork'[Prev[x]].linked
        <4>1. CASE fork[x].linked
          BY <1>2, <2>1, <2>2, <3>6, <3>7, <4>1
        <4>2. CASE x \in M
          <5>1. x \in record \cup {b} /\ (Prev[x] = b \/ Prev[x] \in M)
            BY <3>4, <4>2
          <5> QED
            BY <1>2, <2>1, <3>5, <3>6, <5>1
        <4> QED
          BY <2>1, <2>7, <3>6, <3>8, <4>1, <4>2
      <3>9. ASSUME x \in record', fork'[Prev[x]].linked
            PROVE  fork'[x].linked
        <4>1. x \in record
          BY <1>2, <2>7, <3>9
        <4>2. CASE Prev[x] = b
          <5>1. x \in M
            BY <1>1, <3>1, <3>3, <4>1, <4>2
          <5> QED
            BY <2>1, <2>7, <3>6, <5>1
        <4>3. CASE Prev[x] # b /\ fork[Prev[x]].linked
          BY <2>1, <2>2, <2>7, <3>6, <4>1, <4>3
        <4>4. CASE Prev[x] # b /\ Prev[x] \in M
          <5>1. x \in withPrev[Prev[x]].next
            <6>1. x \in fork[Prev[x]].next
              BY <2>1, <3>3, <4>1
            <6>2. fork[Prev[x]].next \subseteq withPrev[Prev[x]].next
              BY <2>1, <3>2
            <6> QED
              BY <6>1, <6>2
          <5>2. x \in M
            BY <3>1, <4>4, <5>1
          <5> QED
            BY <2>1, <2>7, <3>6, <5>2
        <4> QED
          BY <2>1, <3>6, <3>9, <4>2, <4>3, <4>4
      <3> QED
        BY <3>8, <3>9
    <2> QED
      BY <2>5, <2>6, <2>7
  <1> QED
    BY <1>4, <1>5, <1>6, <1>7, <1>8 DEF TreeInv

(***************************************************************************)
(* The other steps change only the flags is_valid and is_included.         *)
(***************************************************************************)

\* Equal but for is_valid and is_included.
SameLinks ==
  /\ fork' \in [Ids -> ForkData]
  /\ \A x \in Ids : /\ fork'[x].stored = fork[x].stored
                    /\ fork'[x].next = fork[x].next
                    /\ fork'[x].linked = fork[x].linked
  /\ record' = record

\* A step that keeps the links keeps the block tree.
LEMMA FlagsKeepTree ==
  ASSUME TreeInv, SameLinks, head' \in Ids, PushedIsRecorded',
         \A x \in Included' : fork[x].stored
  PROVE  TreeInv'
  <1> USE TreeAssumption
  <1>1. Shape'
    BY DEF TreeInv, Shape, SameLinks
  <1>2. NextIsComplete'
    BY DEF TreeInv, NextIsComplete, SameLinks
  <1>3. RecordIsStored'
    <2>1. \A x \in record \cap Blocks : x \in Ids /\ Prev[x] \in Ids
      BY DEF Ids
    <2>2. Base \in Ids
      BY DEF Ids
    <2>3. \A x \in Included' : fork'[x].stored
      BY DEF SameLinks, Included
    <2> QED
      BY <2>1, <2>2, <2>3 DEF TreeInv, RecordIsStored, SameLinks
  <1>4. LinkedExactly'
    <2>1. \A x \in Blocks : x \in Ids /\ Prev[x] \in Ids
      BY DEF Ids
    <2> QED
      BY <2>1 DEF TreeInv, LinkedExactly, SameLinks
  <1> QED
    BY <1>1, <1>2, <1>3, <1>4 DEF TreeInv

\* mark_invalid changes no flag but is_valid.
LEMMA MarkInvalidFacts ==
  ASSUME TreeInv, NEW b
  PROVE  LET f == MarkInvalid(b) IN
         /\ f \in [Ids -> ForkData]
         /\ \A x \in Ids : /\ f[x].stored = fork[x].stored
                           /\ f[x].next = fork[x].next
                           /\ f[x].linked = fork[x].linked
                           /\ f[x].included = fork[x].included
  <1> DEFINE f == MarkInvalid(b)
  <1>1. fork \in [Ids -> ForkData]
    BY DEF TreeInv, Shape
  <1>2. ASSUME NEW x \in Ids
        PROVE  f[x] = fork[x] \/ f[x] = [fork[x] EXCEPT !.valid = "no"]
    BY DEF MarkInvalid
  <1>3. ASSUME NEW x \in Ids
        PROVE  /\ f[x] \in ForkData
               /\ f[x].stored = fork[x].stored /\ f[x].next = fork[x].next
               /\ f[x].linked = fork[x].linked /\ f[x].included = fork[x].included
    <2>1. fork[x] \in ForkData
      BY <1>1
    <2> HIDE DEF f
    <2> QED
      BY <1>2, <2>1 DEF ForkData, Validity
  <1>4. f \in [Ids -> ForkData]
    <2>1. \A x \in Ids : f[x] \in ForkData
      BY <1>3
    <2> QED
      BY <2>1 DEF MarkInvalid
  <1> QED
    BY <1>3, <1>4

\* mark_included(id, true) changes the flags of one block only.
LEMMA IncludeFacts ==
  ASSUME TreeInv, NEW b \in Ids
  PROVE  LET f == MarkIncluded(b, TRUE) IN
         /\ f \in [Ids -> ForkData]
         /\ \A x \in Ids : /\ f[x].stored = fork[x].stored
                           /\ f[x].next = fork[x].next
                           /\ f[x].linked = fork[x].linked
                           /\ x # b => f[x].included = fork[x].included
         /\ f[b].included = TRUE
  BY DEF MarkIncluded, TreeInv, Shape, ForkData, Validity

\* mark_included(id, false) too.
LEMMA ExcludeFacts ==
  ASSUME TreeInv, NEW b \in Ids
  PROVE  LET f == MarkIncluded(b, FALSE) IN
         /\ f \in [Ids -> ForkData]
         /\ \A x \in Ids : /\ f[x].stored = fork[x].stored
                           /\ f[x].next = fork[x].next
                           /\ f[x].linked = fork[x].linked
                           /\ x # b => f[x].included = fork[x].included
         /\ f[b].included = FALSE
  BY DEF MarkIncluded, TreeInv, Shape, ForkData, Validity

\* A call ends, or goes on to switch back; it never becomes a fresh push.
LEMMA ThrowKeeps ==
  ASSUME Throw
  PROVE  PushedIsRecorded'
  BY DEF Throw, Return, Enter, PushedIsRecorded

\* The block that extend_chain applies is on top of the head, and its record is
\* already there.
LEMMA ExtendFacts ==
  ASSUME TreeInv, ExtendChain
  PROVE  LET b == Last(history) IN
         /\ b \in Blocks /\ b \in record
         /\ Prev[b] = head /\ Num[b] = Num[head] + 1
         /\ \A t \in TrxOf(b) : trxRec[t] = "none"
         /\ fork' = MarkIncluded(b, TRUE)
         /\ head' = b
         /\ record' = record
         /\ undo' = [undo EXCEPT ![b] = UndoState(b)]
         /\ trxRec' = [t \in Trxs |-> IF t \in TrxOf(b) THEN "known" ELSE trxRec[t]]
         /\ numToId' = {e \in numToId : e[1] # Num[b]} \cup {<<Num[b], b>>}
  <1> DEFINE b == Last(history)
  <1>1. BlockApplies(b) /\ (mode # "push" => BlockReadable(b))
    BY DEF ExtendChain
  <1>2. b \in Blocks
    BY <1>1, TrxAssumption DEF BlockApplies, VerifyHeader
  <1>3. b \in record
    <2>1. CASE mode # "push"
      BY <1>1, <2>1 DEF BlockReadable
    <2>2. CASE mode = "push"
      <3>1. PICK c \in record \cap Blocks : history = <<c>>
        BY <2>2 DEF TreeInv, PushedIsRecorded, ExtendChain
      <3>2. Last(history) = c
        BY <3>1 DEF Last
      <3> QED
        BY <3>2
    <2> QED
      BY <2>1, <2>2
  <1>4. Prev[b] = head /\ Num[b] = Num[head] + 1 /\ \A t \in TrxOf(b) : trxRec[t] = "none"
    BY <1>1 DEF BlockApplies, VerifyHeader
  <1>5. record' = record \cup {b}
    BY DEF ExtendChain
  <1> QED
    BY <1>2, <1>3, <1>4, <1>5 DEF ExtendChain

\* Every step keeps the block tree.
LEMMA TreeStep == TreeInv /\ [Next]_vars => TreeInv'
  <1> SUFFICES ASSUME TreeInv, [Next]_vars PROVE TreeInv'
    OBVIOUS
  <1> USE TreeAssumption
  <1>0. fork \in [Ids -> ForkData] /\ head \in Ids /\ \A x \in Included : fork[x].stored
    BY DEF TreeInv, Shape, RecordIsStored
  <1>1. ASSUME NEW b \in Blocks, PushBlock(b) PROVE TreeInv'
    BY <1>1, PushKeepsTree
  <1>2. ASSUME UNCHANGED <<fork, record, head>>, PushedIsRecorded' PROVE TreeInv'
    <2>1. SameLinks
      BY <1>0, <1>2 DEF SameLinks
    <2>2. \A x \in Included' : fork[x].stored
      BY <1>0, <1>2 DEF Included
    <2> QED
      BY <1>0, <1>2, <2>1, <2>2, FlagsKeepTree
  <1>3. ASSUME WalkBack PROVE TreeInv'
    <2>1. UNCHANGED <<fork, record, head>>
      BY <1>3 DEF WalkBack, db, memory
    <2>2. mode # "push"
      BY <1>3 DEF WalkBack, TreeInv, PushedIsRecorded
    <2>3. PushedIsRecorded'
      <3>1. CASE Throw
        BY <3>1, ThrowKeeps
      <3>2. CASE mode' = mode
        BY <2>2, <3>2 DEF PushedIsRecorded
      <3> QED
        BY <1>3, <3>1, <3>2 DEF WalkBack, Enter
    <2> QED
      BY <1>2, <2>1, <2>3
  <1>4. ASSUME PopBlock PROVE TreeInv'
    <2>1. fork' = MarkIncluded(head, FALSE) /\ record' = record /\ head' = Prev[head]
      BY <1>4 DEF PopBlock
    <2>2. SameLinks /\ \A x \in Ids : fork'[x].included => fork[x].included
      <3>1. /\ fork' \in [Ids -> ForkData]
            /\ \A x \in Ids : /\ fork'[x].stored = fork[x].stored
                              /\ fork'[x].next = fork[x].next
                              /\ fork'[x].linked = fork[x].linked
                              /\ x # head => fork'[x].included = fork[x].included
            /\ fork'[head].included = FALSE
        BY <1>0, <2>1, ExcludeFacts
      <3>2. SameLinks
        BY <2>1, <3>1 DEF SameLinks
      <3> QED
        BY <3>1, <3>2
    <2>3. head \in Blocks
      BY <1>0, <1>4 DEF PopBlock, Ids
    <2>4. PushedIsRecorded'
      BY <1>4 DEF PopBlock, call, TreeInv, PushedIsRecorded
    <2>5. \A x \in Included' : fork[x].stored
      BY <1>0, <2>2 DEF Included
    <2> QED
      BY <2>1, <2>2, <2>3, <2>4, <2>5, FlagsKeepTree
  <1>5. ASSUME PopsDone PROVE TreeInv'
    <2>1. mode # "push"
      BY <1>5 DEF PopsDone, TreeInv, PushedIsRecorded
    <2>2. PushedIsRecorded'
      BY <1>5, <2>1 DEF PopsDone, Enter, PushedIsRecorded
    <2> QED
      BY <1>2, <1>5, <2>2 DEF PopsDone, db, memory
  <1>6. ASSUME ExtendChain PROVE TreeInv'
    <2> DEFINE b == Last(history)
    <2>1. /\ b \in Blocks /\ b \in record
          /\ fork' = MarkIncluded(b, TRUE) /\ head' = b /\ record' = record
      BY <1>6, ExtendFacts
    <2> HIDE DEF b
    <2>2. b \in Ids
      BY <2>1 DEF Ids
    <2>3. SameLinks /\ \A x \in Ids : fork'[x].included => x = b \/ fork[x].included
      <3>1. /\ fork' \in [Ids -> ForkData]
            /\ \A x \in Ids : /\ fork'[x].stored = fork[x].stored
                              /\ fork'[x].next = fork[x].next
                              /\ fork'[x].linked = fork[x].linked
                              /\ x # b => fork'[x].included = fork[x].included
            /\ fork'[b].included = TRUE
        BY <2>1, <2>2, IncludeFacts
      <3>2. SameLinks
        BY <2>1, <3>1 DEF SameLinks
      <3> QED
        BY <3>1, <3>2
    <2>4. \A x \in Included' : fork[x].stored
      <3>1. fork[b].stored
        BY <2>1 DEF TreeInv, RecordIsStored
      <3> QED
        BY <1>0, <2>3, <3>1 DEF Included
    <2>5. PushedIsRecorded'
      <3>1. CASE Return
        BY <3>1 DEF Return, Enter, PushedIsRecorded
      <3>2. CASE Len(history) > 1 /\ mode' = mode
        <4>1. mode # "push"
          <5>1. pc = "extend"
            BY <1>6 DEF ExtendChain
          <5> SUFFICES ASSUME mode = "push" PROVE FALSE
            OBVIOUS
          <5>2. PICK c \in record \cap Blocks : history = <<c>>
            BY <5>1 DEF TreeInv, PushedIsRecorded
          <5> QED
            BY <3>2, <5>2
        <4> QED
          BY <3>2, <4>1 DEF PushedIsRecorded
      <3> QED
        BY <1>6, <3>1, <3>2 DEF ExtendChain, Enter
    <2> QED
      BY <2>1, <2>2, <2>3, <2>4, <2>5, FlagsKeepTree
  <1>7. ASSUME ExtendFails PROVE TreeInv'
    <2>1. fork' = MarkInvalid(Last(history)) /\ record' = record /\ head' = head /\ Throw
      BY <1>7 DEF ExtendFails, memory
    <2>2. SameLinks /\ \A x \in Ids : fork'[x].included = fork[x].included
      BY <2>1, MarkInvalidFacts DEF SameLinks
    <2>3. \A x \in Included' : fork[x].stored
      BY <1>0, <2>2 DEF Included
    <2> QED
      BY <1>0, <2>1, <2>2, <2>3, ThrowKeeps, FlagsKeepTree
  <1>8. ASSUME GetBlockFails PROVE TreeInv'
    BY <1>2, <1>8, ThrowKeeps DEF GetBlockFails, db, memory
  <1>9. ASSUME NEW t \in Trxs, StorePendingTransaction(t) PROVE TreeInv'
    BY <1>2, <1>9 DEF StorePendingTransaction, call, TreeInv, PushedIsRecorded
  <1>10. ASSUME ClockCatchesUp PROVE TreeInv'
    BY <1>2, <1>10 DEF ClockCatchesUp, db, memory, call, TreeInv, PushedIsRecorded
  <1>11. ASSUME Open PROVE TreeInv'
    <2>1. UNCHANGED <<fork, record>> /\ head' \in Ids
      BY <1>11 DEF Open, db, Ids
    <2>2. PushedIsRecorded'
      BY <1>11 DEF Open, Return, Enter, PushedIsRecorded
    <2>3. SameLinks
      BY <1>0, <2>1 DEF SameLinks
    <2> QED
      BY <1>0, <2>1, <2>2, <2>3, FlagsKeepTree DEF Included
  <1>12. ASSUME UNCHANGED vars PROVE TreeInv'
    BY <1>2, <1>12 DEF vars, db, memory, call, TreeInv, PushedIsRecorded
  <1> QED
    BY <1>1, <1>3, <1>4, <1>5, <1>6, <1>7, <1>8, <1>9, <1>10, <1>11, <1>12 DEF Next, Step

\* Blocks that arrive in any order are linked exactly when they can be walked
\* back to the chain: get_fork_history meets no dead end.
THEOREM NoDeadEnd == Spec => []LinkedExactly
  <1>1. TreeInv => LinkedExactly
    BY DEF TreeInv
  <1> QED
    BY InitTree, TreeStep, <1>1, PTL DEF Spec

(***************************************************************************)
(* One chain, and the transaction records that belong to it.               *)
(***************************************************************************)

\* The established chain is one chain, without transactions above Base.
LEMMA InitChain == Init => ChainInv
  <1> SUFFICES ASSUME Init PROVE ChainInv
    OBVIOUS
  <1> USE TreeAssumption, RootAssumption
  <1>1. Included = {Base, Root}
    BY DEF Init, Included, Ids, NoForkData
  <1>2. OneChain
    <2>1. Num[Base] \in Nat /\ Num[Root] = Num[Base] + 1
      BY DEF Ids
    <2>2. numToId = {<<Num[b], b>> : b \in Included}
      BY <1>1 DEF Init
    <2>3. head = Root /\ Root # Base
      BY DEF Init
    <2> QED
      BY <1>1, <2>1, <2>2, <2>3 DEF OneChain
  <1>3. TrxOf(Root) = {}
    BY DEF TrxOf
  <1>4. UndoEmpties
    BY <1>1, <1>3 DEF Init, UndoEmpties
  <1>5. RecordsMatchChain
    BY <1>1, <1>3 DEF Init, RecordsMatchChain
  <1> QED
    BY <1>2, <1>4, <1>5, InitTree DEF ChainInv

\* A step that leaves alone the flags is_included, the head, the index of
\* numbers, the undo states and the transaction records.
SameChain ==
  /\ \A x \in Ids : fork'[x].included = fork[x].included
  /\ UNCHANGED <<head, numToId, undo, trxRec>>

\* Such a step keeps everything that is said of the chain.
LEMMA SameChainKeeps ==
  ASSUME ChainInv, SameChain
  PROVE  OneChain' /\ UndoEmpties' /\ RecordsMatchChain'
  <1>1. Included' = Included
    BY DEF SameChain, Included
  <1>2. OneChain'
    BY <1>1 DEF ChainInv, OneChain, SameChain
  <1>3. UndoEmpties'
    BY <1>1 DEF ChainInv, UndoEmpties, SameChain
  <1>4. RecordsMatchChain'
    BY <1>1 DEF ChainInv, RecordsMatchChain, SameChain
  <1> QED
    BY <1>2, <1>3, <1>4

\* pop_block takes the top block off the chain, and with it its number and the
\* content of its transaction records.
LEMMA PopKeepsChain ==
  ASSUME ChainInv, PopBlock
  PROVE  OneChain' /\ UndoEmpties' /\ RecordsMatchChain'
  <1> USE TreeAssumption
  <1>1. head \in Blocks /\ head \in Ids /\ head # Base
    BY DEF PopBlock, ChainInv, TreeInv, Shape, Ids
  <1>2. Included' = Included \ {head}
    <2>1. fork' = MarkIncluded(head, FALSE)
      BY DEF PopBlock
    <2>2. /\ \A x \in Ids : x # head => fork'[x].included = fork[x].included
          /\ ~fork'[head].included
      BY <1>1, <2>1, ExcludeFacts DEF ChainInv
    <2> QED
      BY <2>2 DEF Included
  <1>3. Included \subseteq Ids /\ \A b \in Ids : Num[b] \in Nat
    BY DEF Included
  <1>4. /\ head \in Included /\ Base \in Included
        /\ \A b \in Included \ {Base} : Prev[b] \in Included /\ Num[b] = Num[Prev[b]] + 1
        /\ \A b \in Included : Num[b] <= Num[head]
        /\ \A b, c \in Included : Num[b] = Num[c] => b = c
        /\ numToId = {<<Num[b], b>> : b \in Included}
    BY DEF ChainInv, OneChain
  <1>5. head' = Prev[head] /\ numToId' = {e \in numToId : e[1] # Num[head]}
    BY DEF PopBlock
  <1>6. OneChain'
    <2>1. head' \in Included' /\ Base \in Included'
      BY <1>1, <1>2, <1>4, <1>5
    <2>2. \A b \in Included' \ {Base} : Prev[b] \in Included' /\ Num[b] = Num[Prev[b]] + 1
      <3> SUFFICES ASSUME NEW b \in Included' \ {Base}
                   PROVE  Prev[b] \in Included' /\ Num[b] = Num[Prev[b]] + 1
        OBVIOUS
      <3>1. b \in Included \ {Base} /\ b \in Ids /\ Num[b] \in Nat
        BY <1>2, <1>3
      <3>2. Prev[b] \in Included /\ Num[b] = Num[Prev[b]] + 1 /\ Num[b] <= Num[head]
        BY <1>4, <3>1
      <3>3. Prev[b] # head
        BY <1>1, <1>3, <3>1, <3>2
      <3> QED
        BY <1>2, <3>2, <3>3
    <2>3. \A b \in Included' : Num[b] <= Num[head']
      <3> SUFFICES ASSUME NEW b \in Included' PROVE Num[b] <= Num[Prev[head]]
        BY <1>5
      <3>1. b \in Included /\ b # head
        BY <1>2
      <3>2. Num[b] <= Num[head] /\ Num[b] # Num[head]
        BY <1>4, <3>1
      <3>3. Num[head] = Num[Prev[head]] + 1 /\ Num[Prev[head]] \in Nat /\ Num[b] \in Nat
        BY <1>1, <1>3, <1>4, <3>1
      <3> QED
        BY <3>2, <3>3
    <2>4. \A b, c \in Included' : Num[b] = Num[c] => b = c
      BY <1>2, <1>4
    <2>5. numToId' = {<<Num[b], b>> : b \in Included'}
      <3>1. ASSUME NEW e \in numToId' PROVE e \in {<<Num[b], b>> : b \in Included'}
        <4>1. PICK b \in Included : e = <<Num[b], b>>
          BY <1>4, <1>5, <3>1
        <4>2. b # head
          BY <1>5, <3>1, <4>1
        <4> QED
          BY <1>2, <4>1, <4>2
      <3>2. ASSUME NEW b \in Included' PROVE <<Num[b], b>> \in numToId'
        <4>1. b \in Included /\ b # head
          BY <1>2
        <4>2. Num[b] # Num[head]
          BY <1>4, <4>1
        <4> QED
          BY <1>4, <1>5, <4>1, <4>2
      <3> QED
        BY <3>1, <3>2
    <2> QED
      BY <2>1, <2>2, <2>3, <2>4, <2>5 DEF OneChain
  <1>7. UndoEmpties'
    BY <1>2 DEF PopBlock, ChainInv, UndoEmpties
  <1>8. RecordsMatchChain'
    <2>1. trxRec' = [t \in Trxs |-> IF t \in TrxOf(head) THEN undo[head].trxs[t] ELSE trxRec[t]]
      BY DEF PopBlock
    <2>2. \A t \in TrxOf(head) : undo[head].trxs[t] = "empty"
      BY <1>1, <1>4 DEF ChainInv, UndoEmpties
    <2>3. /\ \A t \in Trxs : trxRec[t] = "known" <=> \E b \in Included \cap Blocks : t \in TrxOf(b)
          /\ \A b, c \in Included \cap Blocks : TrxOf(b) \cap TrxOf(c) # {} => b = c
      BY DEF ChainInv, RecordsMatchChain
    <2>4. ASSUME NEW t \in Trxs
          PROVE  trxRec'[t] = "known" <=> \E b \in Included' \cap Blocks : t \in TrxOf(b)
      <3>1. CASE t \in TrxOf(head)
        <4>1. trxRec'[t] # "known"
          BY <2>1, <2>2, <3>1
        <4>2. \A b \in Included' \cap Blocks : t \notin TrxOf(b)
          <5> SUFFICES ASSUME NEW b \in Included' \cap Blocks, t \in TrxOf(b) PROVE FALSE
            OBVIOUS
          <5>1. b \in Included \cap Blocks /\ b # head /\ head \in Included \cap Blocks
            BY <1>1, <1>2, <1>4
          <5>2. t \in TrxOf(b) \cap TrxOf(head)
            BY <3>1
          <5> QED
            BY <2>3, <5>1, <5>2
        <4> QED
          BY <4>1, <4>2
      <3>2. CASE t \notin TrxOf(head)
        BY <1>2, <2>1, <2>3, <3>2
      <3> QED
        BY <3>1, <3>2
    <2>5. \A b, c \in Included' \cap Blocks : TrxOf(b) \cap TrxOf(c) # {} => b = c
      BY <1>2, <2>3
    <2> QED
      BY <2>4, <2>5 DEF RecordsMatchChain
  <1> QED
    BY <1>6, <1>7, <1>8

\* extend_chain puts one block on top; its transactions were in no block of the
\* chain.
LEMMA ExtendKeepsChain ==
  ASSUME ChainInv, ExtendChain
  PROVE  OneChain' /\ UndoEmpties' /\ RecordsMatchChain'
  <1> DEFINE b == Last(history)
  <1> USE TreeAssumption
  <1>1. /\ b \in Blocks /\ Prev[b] = head /\ Num[b] = Num[head] + 1
        /\ \A t \in TrxOf(b) : trxRec[t] = "none"
        /\ fork' = MarkIncluded(b, TRUE)
        /\ head' = b
        /\ undo' = [undo EXCEPT ![b] = UndoState(b)]
        /\ trxRec' = [t \in Trxs |-> IF t \in TrxOf(b) THEN "known" ELSE trxRec[t]]
        /\ numToId' = {e \in numToId : e[1] # Num[b]} \cup {<<Num[b], b>>}
    BY ExtendFacts DEF ChainInv
  <1> HIDE DEF b
  <1>2. b \in Ids /\ b # Base
    BY <1>1 DEF Ids
  <1>3. Included' = Included \cup {b}
    <2>1. /\ \A x \in Ids : x # b => fork'[x].included = fork[x].included
          /\ fork'[b].included
      BY <1>1, <1>2, IncludeFacts DEF ChainInv
    <2> QED
      BY <1>2, <2>1 DEF Included
  <1>4. Included \subseteq Ids /\ \A c \in Ids : Num[c] \in Nat
    BY DEF Included
  <1>5. /\ head \in Included /\ Base \in Included
        /\ \A c \in Included \ {Base} : Prev[c] \in Included /\ Num[c] = Num[Prev[c]] + 1
        /\ \A c \in Included : Num[c] <= Num[head]
        /\ \A c, d \in Included : Num[c] = Num[d] => c = d
        /\ numToId = {<<Num[c], c>> : c \in Included}
    BY DEF ChainInv, OneChain
  <1>6. \A c \in Included : Num[c] <= Num[b] /\ Num[c] # Num[b]
    BY <1>1, <1>4, <1>5
  <1>7. OneChain'
    <2>1. head' \in Included' /\ Base \in Included'
      BY <1>1, <1>3, <1>5
    <2>2. \A c \in Included' \ {Base} : Prev[c] \in Included' /\ Num[c] = Num[Prev[c]] + 1
      BY <1>1, <1>3, <1>5
    <2>3. \A c \in Included' : Num[c] <= Num[head']
      BY <1>1, <1>2, <1>3, <1>4, <1>6
    <2>4. \A c, d \in Included' : Num[c] = Num[d] => c = d
      BY <1>3, <1>5, <1>6
    <2>5. numToId' = {<<Num[c], c>> : c \in Included'}
      <3>1. {e \in numToId : e[1] # Num[b]} = numToId
        BY <1>5, <1>6
      <3> QED
        BY <1>1, <1>3, <1>5, <3>1
    <2> QED
      BY <2>1, <2>2, <2>3, <2>4, <2>5 DEF OneChain
  <1>8. UndoEmpties'
    <2>1. undo = [c \in Blocks |-> undo[c]]
      BY DEF ChainInv, UndoEmpties
    <2>2. undo' = [c \in Blocks |-> undo'[c]]
      BY <1>1, <2>1
    <2>3. \A t \in TrxOf(b) : undo'[b].trxs[t] = "empty"
      <3>1. undo'[b] = UndoState(b)
        BY <1>1, <2>1
      <3> QED
        BY <1>1, <3>1 DEF UndoState
    <2>4. ASSUME NEW c \in Included' \cap Blocks, NEW t \in TrxOf(c)
          PROVE  undo'[c].trxs[t] = "empty"
      <3>1. CASE c = b
        BY <2>3, <3>1
      <3>2. CASE c # b
        <4>1. c \in Included \cap Blocks /\ undo'[c] = undo[c]
          BY <1>1, <1>3, <2>1, <3>2
        <4> QED
          BY <4>1 DEF ChainInv, UndoEmpties
      <3> QED
        BY <3>1, <3>2
    <2> QED
      BY <2>2, <2>4 DEF UndoEmpties
  <1>9. RecordsMatchChain'
    <2>1. /\ \A t \in Trxs : trxRec[t] = "known" <=> \E c \in Included \cap Blocks : t \in TrxOf(c)
          /\ \A c, d \in Included \cap Blocks : TrxOf(c) \cap TrxOf(d) # {} => c = d
      BY DEF ChainInv, RecordsMatchChain
    <2>2. TrxOf(b) \subseteq Trxs
      BY <1>1, TrxAssumption DEF TrxOf
    <2>3. \A c \in Included \cap Blocks : TrxOf(c) \cap TrxOf(b) = {}
      BY <1>1, <2>1, <2>2
    <2>4. ASSUME NEW t \in Trxs
          PROVE  trxRec'[t] = "known" <=> \E c \in Included' \cap Blocks : t \in TrxOf(c)
      <3>1. CASE t \in TrxOf(b)
        BY <1>1, <1>3, <3>1
      <3>2. CASE t \notin TrxOf(b)
        BY <1>1, <1>3, <2>1, <3>2
      <3> QED
        BY <3>1, <3>2
    <2>5. \A c, d \in Included' \cap Blocks : TrxOf(c) \cap TrxOf(d) # {} => c = d
      BY <1>3, <2>1, <2>3
    <2> QED
      BY <2>4, <2>5 DEF RecordsMatchChain
  <1> QED
    BY <1>7, <1>8, <1>9

\* The last entry of _block_num_to_id_db is the head that the last process had,
\* in the middle of a switch too.
LEMMA OpenFindsHead ==
  ASSUME ChainInv, Open
  PROVE  head' = head
  <1> USE TreeAssumption
  <1>1. PICK b \in Blocks : /\ <<Num[b], b>> \in numToId
                           /\ \A e \in numToId : e[1] <= Num[b]
                           /\ head' = b
    BY DEF Open
  <1>2. b \in Included
    BY <1>1 DEF ChainInv, OneChain
  <1>3. head \in Included /\ <<Num[head], head>> \in numToId
    BY DEF ChainInv, OneChain
  <1>4. Num[head] <= Num[b]
    BY <1>1, <1>3
  <1>5. Num[b] <= Num[head]
    BY <1>2 DEF ChainInv, OneChain
  <1>6. Num[b] \in Nat /\ Num[head] \in Nat
    BY <1>1, <1>3 DEF Ids, Included
  <1>7. Num[b] = Num[head]
    BY <1>4, <1>5, <1>6
  <1> QED
    BY <1>1, <1>2, <1>3, <1>7 DEF ChainInv, OneChain

\* Every step keeps the chain.
LEMMA ChainStep == ChainInv /\ [Next]_vars => ChainInv'
  <1> SUFFICES ASSUME ChainInv, [Next]_vars PROVE ChainInv'
    OBVIOUS
  <1>1. TreeInv'
    BY TreeStep DEF ChainInv
  <1>2. SameChain => ChainInv'
    BY <1>1, SameChainKeeps DEF ChainInv
  <1>3. ASSUME NEW b \in Blocks, PushBlock(b) PROVE ChainInv'
    <2>1. fork' = StoreAndIndex(b)
      BY <1>3 DEF PushBlock
    <2>2. \A x \in Ids : fork'[x].included = fork[x].included
      BY <2>1, StoreFacts DEF ChainInv
    <2> QED
      BY <1>2, <1>3, <2>2 DEF PushBlock, SameChain, memory
  <1>4. ASSUME WalkBack PROVE ChainInv'
    BY <1>2, <1>4 DEF WalkBack, SameChain, db, memory
  <1>5. ASSUME PopBlock PROVE ChainInv'
    BY <1>1, <1>5, PopKeepsChain DEF ChainInv
  <1>6. ASSUME PopsDone PROVE ChainInv'
    BY <1>2, <1>6 DEF PopsDone, SameChain, db, memory
  <1>7. ASSUME ExtendChain PROVE ChainInv'
    BY <1>1, <1>7, ExtendKeepsChain DEF ChainInv
  <1>8. ASSUME ExtendFails PROVE ChainInv'
    <2>1. fork' = MarkInvalid(Last(history))
      BY <1>8 DEF ExtendFails
    <2>2. \A x \in Ids : fork'[x].included = fork[x].included
      BY <2>1, MarkInvalidFacts DEF ChainInv
    <2> QED
      BY <1>2, <1>8, <2>2 DEF ExtendFails, SameChain, memory
  <1>9. ASSUME GetBlockFails PROVE ChainInv'
    BY <1>2, <1>9 DEF GetBlockFails, SameChain, db, memory
  <1>10. ASSUME NEW t \in Trxs, StorePendingTransaction(t) PROVE ChainInv'
    BY <1>2, <1>10 DEF StorePendingTransaction, SameChain
  <1>11. ASSUME ClockCatchesUp PROVE ChainInv'
    BY <1>2, <1>11 DEF ClockCatchesUp, SameChain, db, memory
  <1>12. ASSUME Open PROVE ChainInv'
    <2>1. head' = head
      BY <1>12, OpenFindsHead
    <2> QED
      BY <1>2, <1>12, <2>1 DEF Open, SameChain, db
  <1>13. ASSUME UNCHANGED vars PROVE ChainInv'
    BY <1>2, <1>13 DEF vars, SameChain, db, memory
  <1> QED
    BY <1>3, <1>4, <1>5, <1>6, <1>7, <1>8, <1>9, <1>10, <1>11, <1>12, <1>13 DEF Next, Step

\* Whatever is popped, applied or refused, the included blocks are one chain from
\* the head down to Base, and the index of numbers holds exactly these.
THEOREM AlwaysOneChain == Spec => []OneChain
  <1>1. ChainInv => OneChain
    BY DEF ChainInv
  <1> QED
    BY InitChain, ChainStep, <1>1, PTL DEF Spec

\* A transaction is in at most one block of the chain, and its record has
\* content exactly as long as it is in one.
THEOREM NoTransactionTwice == Spec => []RecordsMatchChain
  <1>1. ChainInv => RecordsMatchChain
    BY DEF ChainInv
  <1> QED
    BY InitChain, ChainStep, <1>1, PTL DEF Spec
=============================================================================
