---------------------------- MODULE NodeSyncProofs ----------------------------
(***************************************************************************)
(* Proofs about NodeSync: its safety properties hold for every network,    *)
(* every tree of blocks and every value of the limits.                     *)
(*                                                                         *)
(* SyncInv is the inductive invariant.  It has a part for a node by itself *)
(* (NodeInv) and a part for the two ends of a connection with the messages *)
(* between them (Pair): a request and its answer together never outnumber  *)
(* the flag that says it is out, so that whatever comes in was asked for.  *)
(*                                                                         *)
(* A handler is a function from a node's state to the next.  Good says that *)
(* a state has the invariant together with what comes in, and Leads(n, s,  *)
(* t, R) that t is good and that no answer went out on the way from s, so  *)
(* that the peers' ends of the connections hold too.  There is one such    *)
(* lemma for each handler, and the steps of the network put them together. *)
(***************************************************************************)
EXTENDS NodeSync, ProofBasics, FiniteSetTheorems

-----------------------------------------------------------------------------
(* Least and greatest elements, finite sets as sequences.                  *)

\* Min of a nonempty set of natural numbers is its least element.
LEMMA MinFacts ==
  ASSUME NEW S \in SUBSET Nat, S # {}
  PROVE  Min(S) \in S /\ \A k \in S : Min(S) <= k
<1>1. \E m \in S : \A k \in S : m <= k
  BY LeastNumber
<1> QED BY <1>1 DEF Min

\* Max of a nonempty set of numbers up to n is its greatest element.
LEMMA MaxFacts ==
  ASSUME NEW n \in Nat, NEW S \in SUBSET (0..n), S # {}
  PROVE  Max(S) \in S /\ \A k \in S : Max(S) >= k
<1> DEFINE D == {i \in 0..n : n - i \in S}
<1>1. PICK x \in S : TRUE
  OBVIOUS
<1>2. n - x \in 0..n /\ n - (n - x) = x
  BY <1>1
<1>3. D \in SUBSET Nat /\ D # {}
  <2>1. n - x \in D
    BY <1>1, <1>2
  <2>2. D # {}
    BY <2>1
  <2>3. D \in SUBSET Nat
    OBVIOUS
  <2> QED BY <2>2, <2>3
<1>4. PICK m \in D : \A k \in D : m <= k
  <2> HIDE DEF D
  <2> QED BY <1>3, LeastNumber
<1>5. n - m \in S
  BY <1>4
<1>6. ASSUME NEW k \in S PROVE n - m >= k
  <2>1. k \in 0..n /\ n - k \in D
    OBVIOUS
  <2>2. m <= n - k
    BY <1>4, <2>1
  <2> QED BY <1>4, <2>1, <2>2
<1>7. \E j \in S : \A k \in S : j >= k
  BY <1>5, <1>6
<1> QED BY <1>7 DEF Max

\* A finite set as a sequence: every element once.
LEMMA SetToSeqFacts ==
  ASSUME NEW S, IsFiniteSet(S)
  PROVE  /\ SetToSeq(S) \in Seq(S)
         /\ \A i, j \in DOMAIN SetToSeq(S) : i # j => SetToSeq(S)[i] # SetToSeq(S)[j]
<1>1. PICK f : f \in Bijection(1..Cardinality(S), S)
  BY FS_CardinalityType DEF ExistsBijection
<1>2. f \in [1..Cardinality(S) -> S] /\ IsInjective(f)
  BY <1>1 DEF Bijection, Injection
<1> DEFINE g == SetToSeq(S)
<1>3. g \in [1..Cardinality(S) -> S] /\ IsInjective(g)
  BY <1>2 DEF SetToSeq
<1>4. Cardinality(S) \in Nat
  BY FS_CardinalityType
<1> HIDE DEF g
<1>5. g \in Seq(S)
  BY <1>3, <1>4, SeqDef
<1> QED BY <1>3, <1>5 DEF IsInjective, g

-----------------------------------------------------------------------------
(* Types.                                                                  *)

Conns == [inbound: BOOLEAN, status: {"handshaking", "active", "closed"}, ids: Seq(Blocks),
          unfetched: 0..NBlocks, peerNeeds: BOOLEAN, weNeed: BOOLEAN, idsRequested: BOOLEAN,
          syncRequested: SUBSET Blocks, itemsRequested: SUBSET Items, lastSeen: 0..NBlocks,
          lastNum: Nat, advertisedToUs: SUBSET Items, advertised: SUBSET Items]

Queues == Seq(Messages)

Plans(n) == UNION {[D -> Blocks] : D \in SUBSET Peers(n)}

Caches == UNION {[D -> Nat] : D \in SUBSET Items}

State(n) ==
  [head: 0..NBlocks, stored: SUBSET Blocks, known: SUBSET Blocks, pool: SUBSET TrxIds,
   conn: [Peers(n) -> Conns], out: [Peers(n) -> Queues], activeRequests: SUBSET Blocks,
   received: Seq(Blocks), toFetch: Seq(Items), newInventory: SUBSET Items,
   recent: SUBSET (0..NBlocks), cache: Caches, clock: Nat, total: 0..UintMax,
   syncWake: BOOLEAN, plan: Plans(n), syncLoop: BOOLEAN, itemWake: BOOLEAN, cursor: Nat,
   blamed: SUBSET Nodes]

-----------------------------------------------------------------------------
(* What is true of a node by itself.                                       *)

\* The head is linked, and what passed for accepted is stored.
Stock(s) ==
  /\ s.head \in Linked(s) \cup {0}
  /\ s.known \subseteq s.stored
  /\ s.recent \subseteq s.stored \cup {0}

\* Every block of a list follows on from the one before.
Segment(q) == \A i \in 1..(Len(q) - 1) : Prev[q[i + 1]] = q[i]

\* A list of ids that begins after a block of L and leaves room for k more blocks.
ListOn(q, L, k) ==
  /\ Segment(q)
  /\ q # << >> => Prev[q[1]] \in L \cup {0} /\ q[Len(q)] + k <= NBlocks

\* What is asked of p, or about to be.
Pending(s, p) == s.conn[p].syncRequested \cup {s.plan[q] : q \in DOMAIN s.plan \cap {p}}

\* A connection whose requests are P, L being linked.  Nothing is asked of a peer
\* whose ids are on their way, and what is asked of it is in its list.
ConnInv(c, P, L) ==
  /\ c.status = "handshaking" =>
       c.ids = << >> /\ c.unfetched = 0 /\ c.weNeed /\ ~c.idsRequested /\ c.itemsRequested = {}
  /\ ~c.weNeed => c.ids = << >> /\ c.unfetched = 0 /\ ~c.idsRequested
  /\ c.idsRequested => c.ids = << >> \/ c.unfetched # 0
  /\ P \subseteq Range(c.ids)
  /\ P # {} => ~c.idsRequested
  /\ ListOn(c.ids, L, c.unfetched)

\* A block is asked for once: _active_sync_requests has every block asked for,
\* and none that is still planned.
Requests(s) ==
  /\ \A p \in DOMAIN s.conn : /\ s.conn[p].syncRequested \subseteq s.activeRequests
                              /\ s.conn[p].syncRequested \cap Range(s.received) = {}
  /\ Range(s.received) \subseteq s.activeRequests
  /\ \A p, q \in DOMAIN s.conn :
       p # q => s.conn[p].syncRequested \cap s.conn[q].syncRequested = {}
  /\ \A p \in DOMAIN s.plan : s.plan[p] \notin s.activeRequests
  /\ \A p, q \in DOMAIN s.plan : p # q => s.plan[p] # s.plan[q]

\* An item waits once, and is not asked of anybody meanwhile.
Offers(s) ==
  /\ \A i, j \in DOMAIN s.toFetch : i # j => s.toFetch[i] # s.toFetch[j]
  /\ \A p \in Active(s) : s.conn[p].itemsRequested \cap Range(s.toFetch) = {}
  /\ \A p, q \in Active(s) :
       p # q => s.conn[p].itemsRequested \cap s.conn[q].itemsRequested = {}

NodeInv(n, s) ==
  /\ s \in State(n)
  /\ Stock(s)
  /\ s.blamed = {}
  /\ \A p \in Peers(n) : ConnInv(s.conn[p], Pending(s, p), Linked(s))
  /\ Requests(s)
  /\ Offers(s)

-----------------------------------------------------------------------------
(* What is under way between two nodes.                                    *)

Count(q, T) == Cardinality({i \in DOMAIN q : q[i] \in T})

FetchIds   == [type: {"fetch_ids"}, synopsis: Seq(Blocks)]
Ids        == [type: {"ids"}, hashes: Seq(Blocks), remaining: Nat]
Fetches(x) == [type: {"fetch"}, sync: BOOLEAN, item: {x}]
Replies(x) == [type: {"item"}, item: {x}] \cup [type: {"not_available"}, sync: BOOLEAN, item: {x}]

One(P) == IF P THEN 1 ELSE 0

\* An answer to a request for ids: it goes on from a block that is linked, or in the
\* list I, or the first of all.
Answer(m, L, I) ==
  /\ Segment(m.hashes)
  /\ m.hashes = << >> => m.remaining = 0
  /\ m.hashes # << >> => /\ Prev[m.hashes[1]] = 0 \/ m.hashes[1] \in L \cup I
                         /\ m.hashes[Len(m.hashes)] + m.remaining <= NBlocks

\* The end c of a connection, L being linked there; req is on its way to the peer
\* and rep comes from it.  An address comes first.
Greets(c, rep) ==
  \A i \in DOMAIN rep : rep[i].type = "address" => i = 1 /\ c.status = "handshaking"

\* There is one request for ids or one answer, and only while the flag is set.
IdsUnderWay(c, req, rep) ==
  Count(req, FetchIds) + Count(rep, Ids) <= One(c.idsRequested)

\* The same for every item, which either of the two loops may have asked for.
ItemsUnderWay(c, req, rep) ==
  \A x \in Items : Count(req, Fetches(x)) + Count(rep, Replies(x))
                     <= One(x \in c.syncRequested) + One(x \in c.itemsRequested)

\* A synopsis has blocks that are linked, or in the list.
Asked(c, L, req) ==
  \A i \in DOMAIN req : req[i] \in FetchIds =>
    Range(req[i].synopsis) \subseteq L \cup Range(c.ids)

Told(c, L, rep) ==
  \A i \in DOMAIN rep : rep[i] \in Ids => Answer(rep[i], L, Range(c.ids))

Pair(c, L, req, rep) ==
  /\ Greets(c, rep)
  /\ IdsUnderWay(c, req, rep)
  /\ ItemsUnderWay(c, req, rep)
  /\ Asked(c, L, req)
  /\ Told(c, L, rep)

NetInv(n, p) ==
  Pair(node[n].conn[p], Linked(node[n]), node[n].out[p], node[p].out[n])

SyncInv ==
  /\ breaks \in 0..MaxBreaks /\ sent \in 0..MaxSent
  /\ node = [n \in Nodes |-> node[n]]
  /\ \A n \in Nodes : NodeInv(n, node[n])
  /\ \A n \in Nodes : \A p \in Peers(n) : NetInv(n, p)

-----------------------------------------------------------------------------
(* Counting messages in a queue.                                           *)

\* A queue is finite, so its messages of a kind can be counted.
LEMMA CountType ==
  ASSUME NEW q \in Seq(Messages), NEW T
  PROVE  /\ IsFiniteSet({i \in DOMAIN q : q[i] \in T})
         /\ Count(q, T) \in Nat
<1>1. DOMAIN q = 1..Len(q) /\ Len(q) \in Nat
  OBVIOUS
<1>2. IsFiniteSet(1..Len(q))
  BY <1>1, FS_Interval
<1>3. {i \in DOMAIN q : q[i] \in T} \in SUBSET (1..Len(q))
  BY <1>1
<1>4. IsFiniteSet({i \in DOMAIN q : q[i] \in T})
  BY <1>2, <1>3, FS_Subset
<1> QED BY <1>4, FS_CardinalityType DEF Count

\* No message of a kind, none counted.
LEMMA CountNone ==
  ASSUME NEW q \in Seq(Messages), NEW T
  PROVE  Count(q, T) = 0 <=> \A i \in DOMAIN q : q[i] \notin T
<1>1. IsFiniteSet({i \in DOMAIN q : q[i] \in T})
  BY CountType
<1>2. Count(q, T) = 0 <=> {i \in DOMAIN q : q[i] \in T} = {}
  BY <1>1, FS_EmptySet DEF Count
<1> QED BY <1>2

\* A message that is appended counts for its kind.
LEMMA CountAppend ==
  ASSUME NEW q \in Seq(Messages), NEW T, NEW m \in Messages
  PROVE  Count(Append(q, m), T) = Count(q, T) + One(m \in T)
<1> DEFINE A == {i \in DOMAIN q : q[i] \in T}
           r == Append(q, m)
           B == {i \in DOMAIN r : r[i] \in T}
           k == Len(q) + 1
<1>1. IsFiniteSet(A) /\ Cardinality(A) \in Nat
  BY CountType DEF Count
<1>2. /\ r \in Seq(Messages) /\ DOMAIN r = 1..k /\ r[k] = m
      /\ \A i \in 1..Len(q) : r[i] = q[i]
      /\ DOMAIN q = 1..Len(q) /\ Len(q) \in Nat
  OBVIOUS
<1>3. k \notin A
  BY <1>2
<1>4. CASE m \in T
  <2>1. B = A \cup {k}
    <3> HIDE DEF r
    <3> QED BY <1>2, <1>4
  <2>2. Cardinality(B) = Cardinality(A) + 1
    <3> HIDE DEF A, B
    <3> QED BY <1>1, <1>3, <2>1, FS_AddElement
  <2> HIDE DEF A, B, r
  <2>3. One(m \in T) = 1
    BY <1>4 DEF One
  <2>4. Cardinality(B) = Cardinality(A) + One(m \in T)
    BY <2>2, <2>3
  <2> QED BY <2>4 DEF Count, A, B, r
<1>5. CASE m \notin T
  <2>1. B = A
    <3> HIDE DEF r
    <3> QED BY <1>2, <1>5
  <2> HIDE DEF A, B, r
  <2>3. One(m \in T) = 0
    BY <1>5 DEF One
  <2>4. Cardinality(B) = Cardinality(A) + One(m \in T)
    BY <1>1, <2>1, <2>3
  <2> QED BY <2>4 DEF Count, A, B, r
<1> QED BY <1>4, <1>5

\* A message that is read no longer counts.
LEMMA CountTail ==
  ASSUME NEW q \in Seq(Messages), q # << >>, NEW T
  PROVE  Count(q, T) = One(q[1] \in T) + Count(Tail(q), T)
<1> DEFINE A == {i \in DOMAIN q : q[i] \in T}
           r == Tail(q)
           B == {i \in DOMAIN r : r[i] \in T}
           n == Len(q)
           f == [i \in A \ {1} |-> i - 1]
<1>1. IsFiniteSet(A) /\ Cardinality(A) \in Nat
  BY CountType DEF Count
<1>2. /\ n \in Nat /\ n >= 1 /\ DOMAIN q = 1..n /\ r \in Seq(Messages) /\ DOMAIN r = 1..(n - 1)
      /\ \A i \in 1..(n - 1) : r[i] = q[i + 1]
  OBVIOUS
<1>3. A \ {1} = {i \in 2..n : q[i] \in T}
  BY <1>2
<1>4. B = {i \in 1..(n - 1) : q[i + 1] \in T}
  <2> HIDE DEF r
  <2> QED BY <1>2
<1> HIDE DEF A, B, r, n
<1>5. f \in Bijection(A \ {1}, B)
  <2>1. ASSUME NEW i \in A \ {1} PROVE i - 1 \in B
    <3>1. i \in 2..n /\ q[i] \in T
      BY <1>3
    <3>2. i - 1 \in 1..(n - 1) /\ (i - 1) + 1 = i
      BY <1>2, <3>1
    <3> QED BY <1>4, <3>1, <3>2
  <2>2. f \in [A \ {1} -> B]
    BY <2>1
  <2>3. IsInjective(f)
    <3>1. A \ {1} \subseteq Int
      BY <1>2, <1>3
    <3> QED BY <3>1 DEF IsInjective
  <2>4. ASSUME NEW j \in B PROVE \E i \in A \ {1} : f[i] = j
    <3>1. j \in 1..(n - 1) /\ q[j + 1] \in T
      BY <1>4
    <3>2. j + 1 \in 2..n /\ (j + 1) - 1 = j
      BY <1>2, <3>1
    <3>3. j + 1 \in A \ {1}
      BY <1>3, <3>1, <3>2
    <3> QED BY <3>2, <3>3
  <2> HIDE DEF f
  <2> QED BY <2>2, <2>3, <2>4 DEF Bijection, Injection, Surjection
<1>6. IsFiniteSet(A \ {1}) /\ Cardinality(A \ {1}) = IF 1 \in A THEN Cardinality(A) - 1 ELSE Cardinality(A)
  BY <1>1, FS_RemoveElement
<1>7. Cardinality(B) = Cardinality(A \ {1})
  <2>1. ExistsBijection(A \ {1}, B)
    BY <1>5 DEF ExistsBijection
  <2> QED BY <1>6, <2>1, FS_Bijection
<1>8. 1 \in A <=> q[1] \in T
  BY <1>2 DEF A
<1>9. Cardinality(A) = One(q[1] \in T) + Cardinality(B)
  BY <1>1, <1>6, <1>7, <1>8 DEF One
<1> QED BY <1>9 DEF Count, A, B, r

\* The kind of a message is its type.
LEMMA Kinds ==
  ASSUME NEW m \in Messages
  PROVE  /\ m \in FetchIds <=> m.type = "fetch_ids"
         /\ m \in Ids <=> m.type = "ids"
         /\ \A x : m \in Fetches(x) <=> m.type = "fetch" /\ m.item = x
         /\ \A x : m \in Replies(x) <=> m.type \in {"item", "not_available"} /\ m.item = x
BY DEF Messages, FetchIds, Ids, Fetches, Replies

\* The kinds are kinds of messages.
LEMMA KindTypes ==
  /\ FetchIds \subseteq Messages /\ Ids \subseteq Messages
  /\ \A x \in Items : Fetches(x) \subseteq Messages /\ Replies(x) \subseteq Messages
BY DEF Messages, FetchIds, Ids, Fetches, Replies

-----------------------------------------------------------------------------
(* What the two ends of a connection may do to it.                         *)

\* What is under way at c stays so at d.
Follows(c, d, L2) ==
  /\ Range(c.ids) \subseteq L2 \cup Range(d.ids)
  /\ d.idsRequested = c.idsRequested
  /\ d.syncRequested = c.syncRequested /\ d.itemsRequested = c.itemsRequested

\* An answer stays one when more blocks are linked or in the list.
LEMMA AnswerGrows ==
  ASSUME NEW m, NEW L, NEW I, NEW L2, NEW I2, Answer(m, L, I), L \cup I \subseteq L2 \cup I2
  PROVE  Answer(m, L2, I2)
BY DEF Answer

\* More blocks are linked, and blocks of the list that are linked leave it.
LEMMA PairGrows ==
  ASSUME NEW c, NEW d, NEW L, NEW L2, NEW req, NEW rep, Pair(c, L, req, rep),
         L \subseteq L2, Follows(c, d, L2), Greets(d, rep)
  PROVE  Pair(d, L2, req, rep)
<1>1. IdsUnderWay(d, req, rep) /\ ItemsUnderWay(d, req, rep)
  BY DEF Pair, IdsUnderWay, ItemsUnderWay, Follows
<1>2. L \cup Range(c.ids) \subseteq L2 \cup Range(d.ids)
  BY DEF Follows
<1>3. Asked(d, L2, req)
  BY <1>2 DEF Pair, Asked
<1>4. Told(d, L2, rep)
  BY <1>2, AnswerGrows DEF Pair, Told
<1> QED BY <1>1, <1>3, <1>4 DEF Pair

\* A message that asks for nothing goes to the peer.
LEMMA PairTells ==
  ASSUME NEW c, NEW L, NEW req \in Seq(Messages), NEW rep, Pair(c, L, req, rep),
         NEW m \in Messages, m.type \notin {"fetch_ids", "fetch"}
  PROVE  Pair(c, L, Append(req, m), rep)
<1>1. m \notin FetchIds /\ \A x : m \notin Fetches(x)
  BY Kinds
<1>2. Count(Append(req, m), FetchIds) = Count(req, FetchIds) + 0
  BY <1>1, CountAppend DEF One
<1>3. ASSUME NEW x PROVE Count(Append(req, m), Fetches(x)) = Count(req, Fetches(x)) + 0
  BY <1>1, CountAppend DEF One
<1>4. Count(req, FetchIds) \in Nat /\ \A x : Count(req, Fetches(x)) \in Nat
  BY CountType
<1>5. IdsUnderWay(c, Append(req, m), rep)
  BY <1>2, <1>4 DEF Pair, IdsUnderWay
<1>6. ItemsUnderWay(c, Append(req, m), rep)
  BY <1>3, <1>4 DEF Pair, ItemsUnderWay
<1>7. Asked(c, L, Append(req, m))
  BY <1>1 DEF Pair, Asked
<1> QED BY <1>5, <1>6, <1>7 DEF Pair

\* A request for ids.
LEMMA PairAsksIds ==
  ASSUME NEW c, NEW d, NEW L, NEW req \in Seq(Messages), NEW rep \in Seq(Messages),
         Pair(c, L, req, rep), NEW m \in FetchIds, c.idsRequested = FALSE, d.idsRequested = TRUE,
         d.status = c.status \/ Greets(d, rep), d.ids = c.ids,
         d.syncRequested = c.syncRequested, d.itemsRequested = c.itemsRequested,
         Range(m.synopsis) \subseteq L \cup Range(c.ids)
  PROVE  Pair(d, L, Append(req, m), rep)
<1>0. m \in Messages
  BY KindTypes
<1>1. Count(req, FetchIds) = 0 /\ Count(rep, Ids) = 0
  <2>1. Count(req, FetchIds) \in Nat /\ Count(rep, Ids) \in Nat
    BY CountType
  <2>2. Count(req, FetchIds) + Count(rep, Ids) <= 0
    BY DEF Pair, IdsUnderWay, One
  <2> QED BY <2>1, <2>2
<1>2. Count(Append(req, m), FetchIds) = 1
  <2>1. Count(Append(req, m), FetchIds) = Count(req, FetchIds) + One(m \in FetchIds)
    BY <1>0, CountAppend
  <2> QED BY <1>1, <2>1 DEF One
<1>3. ASSUME NEW x PROVE Count(Append(req, m), Fetches(x)) = Count(req, Fetches(x))
  <2>1. m \notin Fetches(x)
    BY <1>0, Kinds
  <2>2. Count(Append(req, m), Fetches(x)) = Count(req, Fetches(x)) + One(m \in Fetches(x))
    BY <1>0, CountAppend
  <2>3. Count(req, Fetches(x)) \in Nat
    BY CountType
  <2> QED BY <2>1, <2>2, <2>3 DEF One
<1>4. IdsUnderWay(d, Append(req, m), rep)
  BY <1>1, <1>2 DEF IdsUnderWay, One
<1>5. ItemsUnderWay(d, Append(req, m), rep)
  BY <1>3 DEF Pair, ItemsUnderWay
<1>6. Asked(d, L, Append(req, m))
  <2> SUFFICES ASSUME NEW i \in DOMAIN Append(req, m), Append(req, m)[i] \in FetchIds
               PROVE  Range(Append(req, m)[i].synopsis) \subseteq L \cup Range(d.ids)
    BY DEF Asked
  <2>1. CASE i \in DOMAIN req
    BY <2>1 DEF Pair, Asked
  <2>2. CASE i \notin DOMAIN req
    <3>1. i = Len(req) + 1
      BY <2>2
    <3>2. Append(req, m)[i] = m
      BY <3>1
    <3> QED BY <3>2
  <2> QED BY <2>1, <2>2
<1>7. Greets(d, rep) /\ Told(d, L, rep)
  BY DEF Pair, Greets, Told
<1> QED BY <1>4, <1>5, <1>6, <1>7 DEF Pair

\* A request for an item.
LEMMA PairAsksItem ==
  ASSUME NEW c, NEW d, NEW L, NEW req \in Seq(Messages), NEW rep \in Seq(Messages),
         Pair(c, L, req, rep), NEW x \in Items, NEW m \in Fetches(x),
         Greets(d, rep), d.ids = c.ids, d.idsRequested = c.idsRequested,
         \/ /\ x \notin c.syncRequested /\ d.syncRequested = c.syncRequested \cup {x}
            /\ d.itemsRequested = c.itemsRequested
         \/ /\ x \notin c.itemsRequested /\ d.itemsRequested = c.itemsRequested \cup {x}
            /\ d.syncRequested = c.syncRequested
  PROVE  Pair(d, L, Append(req, m), rep)
<1>0. m \in Messages /\ m \notin FetchIds
  BY KindTypes, Kinds
<1>1. Count(req, FetchIds) \in Nat /\ \A y : Count(req, Fetches(y)) \in Nat /\ Count(rep, Replies(y)) \in Nat
  BY CountType
<1>2. Count(Append(req, m), FetchIds) = Count(req, FetchIds)
  <2>1. Count(Append(req, m), FetchIds) = Count(req, FetchIds) + One(m \in FetchIds)
    BY <1>0, CountAppend
  <2> QED BY <1>0, <1>1, <2>1 DEF One
<1>3. IdsUnderWay(d, Append(req, m), rep)
  BY <1>2 DEF Pair, IdsUnderWay
<1>4. ASSUME NEW y \in Items
      PROVE  Count(Append(req, m), Fetches(y)) + Count(rep, Replies(y))
                     <= One(y \in d.syncRequested) + One(y \in d.itemsRequested)
  <2>1. Count(Append(req, m), Fetches(y)) = Count(req, Fetches(y)) + One(m \in Fetches(y))
    BY <1>0, CountAppend
  <2>2. Count(req, Fetches(y)) + Count(rep, Replies(y))
          <= One(y \in c.syncRequested) + One(y \in c.itemsRequested)
    BY DEF Pair, ItemsUnderWay
  <2>3. CASE y = x
    BY <1>1, <2>1, <2>2, <2>3 DEF One
  <2>4. CASE y # x
    <3>1. m \notin Fetches(y)
      BY <1>0, <2>4, Kinds
    <3>2. (y \in d.syncRequested <=> y \in c.syncRequested) /\ (y \in d.itemsRequested <=> y \in c.itemsRequested)
      BY <2>4
    <3> QED BY <1>1, <2>1, <2>2, <3>1, <3>2 DEF One
  <2> QED BY <2>3, <2>4
<1>5. ItemsUnderWay(d, Append(req, m), rep)
  BY <1>4 DEF ItemsUnderWay
<1>6. Asked(d, L, Append(req, m)) /\ Told(d, L, rep)
  BY <1>0 DEF Pair, Asked, Told
<1> QED BY <1>3, <1>5, <1>6 DEF Pair

\* A queue without its first message.
LEMMA TailFacts ==
  ASSUME NEW q \in Seq(Messages), q # << >>
  PROVE  /\ q[1] \in Messages /\ Tail(q) \in Seq(Messages)
         /\ \A i \in DOMAIN Tail(q) : i + 1 \in DOMAIN q /\ i + 1 # 1 /\ Tail(q)[i] = q[i + 1]
OBVIOUS

\* The counts of a queue without its first message.
LEMMA TailCounts ==
  ASSUME NEW q \in Seq(Messages), q # << >>, NEW T
  PROVE  /\ Count(q, T) \in Nat /\ Count(Tail(q), T) \in Nat
         /\ q[1] \in T => Count(q, T) = 1 + Count(Tail(q), T)
         /\ q[1] \notin T => Count(q, T) = Count(Tail(q), T)
<1>1. Tail(q) \in Seq(Messages)
  OBVIOUS
<1>2. Count(q, T) \in Nat /\ Count(Tail(q), T) \in Nat
  BY <1>1, CountType
<1>3. Count(q, T) = One(q[1] \in T) + Count(Tail(q), T)
  BY CountTail
<1> QED BY <1>2, <1>3 DEF One

\* A message of the peer is read; no address is left, so that the handshake may end.
LEMMA PairReads ==
  ASSUME NEW c, NEW d, NEW L, NEW req \in Seq(Messages), NEW rep \in Seq(Messages), rep # << >>,
         Pair(c, L, req, rep), Follows(c, d, L)
  PROVE  Pair(d, L, req, Tail(rep)) /\ Greets(d, Tail(rep))
<1>1. Greets(d, Tail(rep))
  BY TailFacts DEF Pair, Greets
<1>2. IdsUnderWay(d, req, Tail(rep))
  <2>1. Count(Tail(rep), Ids) <= Count(rep, Ids) /\ Count(Tail(rep), Ids) \in Nat /\ Count(rep, Ids) \in Nat
    BY TailCounts
  <2>2. Count(req, FetchIds) \in Nat
    BY CountType
  <2>3. Count(req, FetchIds) + Count(rep, Ids) <= One(d.idsRequested)
    BY DEF Pair, IdsUnderWay, Follows
  <2>4. One(d.idsRequested) \in Nat
    BY DEF One
  <2> QED BY <2>1, <2>2, <2>3, <2>4 DEF IdsUnderWay
<1>3. ItemsUnderWay(d, req, Tail(rep))
  <2> SUFFICES ASSUME NEW x \in Items
               PROVE  Count(req, Fetches(x)) + Count(Tail(rep), Replies(x))
                        <= One(x \in d.syncRequested) + One(x \in d.itemsRequested)
    BY DEF ItemsUnderWay
  <2>1. Count(Tail(rep), Replies(x)) <= Count(rep, Replies(x))
        /\ Count(Tail(rep), Replies(x)) \in Nat /\ Count(rep, Replies(x)) \in Nat
    BY TailCounts
  <2>2. Count(req, Fetches(x)) \in Nat
    BY CountType
  <2>3. Count(req, Fetches(x)) + Count(rep, Replies(x))
          <= One(x \in d.syncRequested) + One(x \in d.itemsRequested)
    BY DEF Pair, ItemsUnderWay, Follows
  <2>4. One(x \in d.syncRequested) \in Nat /\ One(x \in d.itemsRequested) \in Nat
    BY DEF One
  <2> QED BY <2>1, <2>2, <2>3, <2>4
<1>4. Range(c.ids) \subseteq L \cup Range(d.ids)
  BY DEF Follows
<1>5. Asked(d, L, req)
  BY <1>4 DEF Pair, Asked
<1>6. ASSUME NEW i \in DOMAIN Tail(rep), Tail(rep)[i] \in Ids
      PROVE  Answer(Tail(rep)[i], L, Range(d.ids))
  <2>1. i + 1 \in DOMAIN rep /\ Tail(rep)[i] = rep[i + 1]
    BY TailFacts
  <2>2. Answer(rep[i + 1], L, Range(c.ids))
    BY <1>6, <2>1 DEF Pair, Told
  <2>3. L \cup Range(c.ids) \subseteq L \cup Range(d.ids)
    BY <1>4
  <2>4. Answer(rep[i + 1], L, Range(d.ids))
    BY <2>2, <2>3, AnswerGrows
  <2> QED BY <2>1, <2>4
<1>7. Told(d, L, Tail(rep))
  BY <1>6 DEF Told
<1> QED BY <1>1, <1>2, <1>3, <1>5, <1>7 DEF Pair

\* The answer to a request for ids is read: nothing about ids is under way any more.
LEMMA PairReadsIds ==
  ASSUME NEW c, NEW d, NEW L, NEW req \in Seq(Messages), NEW rep \in Seq(Messages), rep # << >>,
         rep[1] \in Ids, Pair(c, L, req, rep)
  PROVE  /\ c.idsRequested
         /\ Answer(rep[1], L, Range(c.ids))
         /\ d.syncRequested = c.syncRequested /\ d.itemsRequested = c.itemsRequested =>
              Pair(d, L, req, Tail(rep))
<1>1. Count(rep, Ids) = 1 + Count(Tail(rep), Ids) /\ Count(Tail(rep), Ids) \in Nat
  BY TailCounts
<1>2. Count(req, FetchIds) \in Nat
  BY CountType
<1>3. Count(req, FetchIds) + Count(rep, Ids) <= One(c.idsRequested)
  BY DEF Pair, IdsUnderWay
<1>4. c.idsRequested /\ Count(req, FetchIds) = 0 /\ Count(Tail(rep), Ids) = 0
  BY <1>1, <1>2, <1>3 DEF One
<1>5. Answer(rep[1], L, Range(c.ids))
  <2>1. 1 \in DOMAIN rep
    OBVIOUS
  <2> QED BY <2>1 DEF Pair, Told
<1>6. ASSUME d.syncRequested = c.syncRequested, d.itemsRequested = c.itemsRequested
      PROVE  Pair(d, L, req, Tail(rep))
  <2>1. Pair(c, L, req, Tail(rep))
    BY PairReads DEF Follows
  <2>2. Greets(d, Tail(rep))
    BY TailFacts DEF Pair, Greets
  <2>3. IdsUnderWay(d, req, Tail(rep))
    BY <1>4 DEF IdsUnderWay, One
  <2>4. ItemsUnderWay(d, req, Tail(rep))
    BY <1>6, <2>1 DEF Pair, ItemsUnderWay
  <2>5. Tail(rep) \in Seq(Messages)
    BY TailFacts
  <2>6. \A i \in DOMAIN req : req[i] \notin FetchIds
    BY <1>4, CountNone
  <2>7. \A i \in DOMAIN Tail(rep) : Tail(rep)[i] \notin Ids
    BY <1>4, <2>5, CountNone
  <2>8. Asked(d, L, req)
    BY <2>6 DEF Asked
  <2>9. Told(d, L, Tail(rep))
    BY <2>7 DEF Told
  <2> QED BY <2>2, <2>3, <2>4, <2>8, <2>9 DEF Pair
<1> QED BY <1>4, <1>5, <1>6

\* One of the two flags of x may go.
Spends(c, d, x) ==
  /\ d.ids = c.ids /\ d.idsRequested = c.idsRequested
  /\ \/ d.syncRequested = c.syncRequested /\ d.itemsRequested = c.itemsRequested \ {x}
     \/ d.syncRequested = c.syncRequested \ {x} /\ d.itemsRequested = c.itemsRequested

\* The answer to a request for x is read: x had been asked for.
LEMMA PairReadsReply ==
  ASSUME NEW c, NEW d, NEW L, NEW req \in Seq(Messages), NEW rep \in Seq(Messages), rep # << >>,
         NEW x \in Items, rep[1] \in Replies(x), Pair(c, L, req, rep)
  PROVE  /\ x \in c.syncRequested \/ x \in c.itemsRequested
         /\ Spends(c, d, x) => Pair(d, L, req, Tail(rep))
<1>1. Count(rep, Replies(x)) = 1 + Count(Tail(rep), Replies(x)) /\ Count(Tail(rep), Replies(x)) \in Nat
  BY TailCounts
<1>2. Count(req, Fetches(x)) \in Nat
  BY CountType
<1>3. Count(req, Fetches(x)) + Count(rep, Replies(x)) <= One(x \in c.syncRequested) + One(x \in c.itemsRequested)
  BY DEF Pair, ItemsUnderWay
<1>4. x \in c.syncRequested \/ x \in c.itemsRequested
  BY <1>1, <1>2, <1>3 DEF One
<1>5. ASSUME d.ids = c.ids, d.idsRequested = c.idsRequested,
             \/ d.syncRequested = c.syncRequested /\ d.itemsRequested = c.itemsRequested \ {x}
             \/ d.syncRequested = c.syncRequested \ {x} /\ d.itemsRequested = c.itemsRequested
      PROVE  Pair(d, L, req, Tail(rep))
  <2>1. Pair(c, L, req, Tail(rep))
    BY PairReads DEF Follows
  <2>2. Greets(d, Tail(rep))
    BY TailFacts DEF Pair, Greets
  <2>3. IdsUnderWay(d, req, Tail(rep)) /\ Asked(d, L, req) /\ Told(d, L, Tail(rep))
    BY <1>5, <2>1 DEF Pair, IdsUnderWay, Asked, Told
  <2>4. ASSUME NEW y \in Items
        PROVE  Count(req, Fetches(y)) + Count(Tail(rep), Replies(y))
                 <= One(y \in d.syncRequested) + One(y \in d.itemsRequested)
    <3>1. CASE y = x
      <4>1. One(x \in c.syncRequested) + One(x \in c.itemsRequested)
              <= One(x \in d.syncRequested) + One(x \in d.itemsRequested) + 1
        BY <1>5 DEF One
      <4>2. One(x \in d.syncRequested) \in Nat /\ One(x \in d.itemsRequested) \in Nat
            /\ One(x \in c.syncRequested) \in Nat /\ One(x \in c.itemsRequested) \in Nat
        BY DEF One
      <4>3. Count(req, Fetches(x)) + (1 + Count(Tail(rep), Replies(x)))
               <= One(x \in c.syncRequested) + One(x \in c.itemsRequested)
        BY <1>1, <1>3
      <4>4. Count(req, Fetches(x)) + Count(Tail(rep), Replies(x))
              <= One(x \in d.syncRequested) + One(x \in d.itemsRequested)
        BY <1>1, <1>2, <4>1, <4>2, <4>3
      <4> QED BY <3>1, <4>4
    <3>2. CASE y # x
      <4>1. Count(req, Fetches(y)) + Count(Tail(rep), Replies(y))
              <= One(y \in c.syncRequested) + One(y \in c.itemsRequested)
        BY <2>1 DEF Pair, ItemsUnderWay
      <4>2. (y \in d.syncRequested <=> y \in c.syncRequested) /\ (y \in d.itemsRequested <=> y \in c.itemsRequested)
        BY <1>5, <3>2
      <4>3. One(y \in d.syncRequested) = One(y \in c.syncRequested)
            /\ One(y \in d.itemsRequested) = One(y \in c.itemsRequested)
        BY <4>2 DEF One
      <4> QED BY <4>1, <4>3
    <3> QED BY <3>1, <3>2
  <2>5. ItemsUnderWay(d, req, Tail(rep))
    BY <2>4 DEF ItemsUnderWay
  <2> QED BY <2>2, <2>3, <2>5 DEF Pair
<1> QED BY <1>4, <1>5 DEF Spends

\* r is q and more messages, none of which answers a request.
Quiet(q, r) ==
  /\ \A i \in DOMAIN r : r[i].type \in {"address", "ids"} => i \in DOMAIN q /\ r[i] = q[i]
  /\ Count(r, Ids) = Count(q, Ids)
  /\ \A x : Count(r, Replies(x)) = Count(q, Replies(x))

\* Nothing is sent.
LEMMA QuietSame ==
  ASSUME NEW q PROVE Quiet(q, q)
BY DEF Quiet

\* Two times nothing that answers a request is still nothing.
LEMMA QuietTwice ==
  ASSUME NEW q, NEW r, NEW u, Quiet(q, r), Quiet(r, u) PROVE Quiet(q, u)
BY DEF Quiet

\* Requests, offers and the end of a connection answer nothing.
LEMMA QuietAppend ==
  ASSUME NEW q \in Seq(Messages), NEW m \in Messages,
         m.type \in {"fetch_ids", "fetch", "inventory", "eof"}
  PROVE  Quiet(q, Append(q, m))
<1>1. m \notin Ids /\ \A x : m \notin Replies(x)
  BY Kinds
<1>2. Count(q, Ids) \in Nat /\ \A x : Count(q, Replies(x)) \in Nat
  BY CountType
<1>3. Count(Append(q, m), Ids) = Count(q, Ids) + One(m \in Ids)
      /\ \A x : Count(Append(q, m), Replies(x)) = Count(q, Replies(x)) + One(m \in Replies(x))
  BY CountAppend
<1>4. Count(Append(q, m), Ids) = Count(q, Ids)
      /\ \A x : Count(Append(q, m), Replies(x)) = Count(q, Replies(x))
  BY <1>1, <1>2, <1>3 DEF One
<1>5. \A i \in DOMAIN Append(q, m) :
        Append(q, m)[i].type \in {"address", "ids"} => i \in DOMAIN q /\ Append(q, m)[i] = q[i]
  OBVIOUS
<1> QED BY <1>4, <1>5 DEF Quiet

\* The peer sends something that is no answer.
LEMMA PairHears ==
  ASSUME NEW c, NEW L, NEW req, NEW rep \in Seq(Messages), NEW rep2 \in Seq(Messages),
         Pair(c, L, req, rep), Quiet(rep, rep2)
  PROVE  Pair(c, L, req, rep2)
<1>1. Greets(c, rep2) /\ IdsUnderWay(c, req, rep2) /\ ItemsUnderWay(c, req, rep2) /\ Asked(c, L, req)
  BY DEF Pair, Quiet, Greets, IdsUnderWay, ItemsUnderWay
<1>2. ASSUME NEW i \in DOMAIN rep2, rep2[i] \in Ids PROVE Answer(rep2[i], L, Range(c.ids))
  <2>1. rep2[i].type = "ids"
    BY <1>2 DEF Ids
  <2>2. i \in DOMAIN rep /\ rep[i] = rep2[i]
    BY <2>1 DEF Quiet
  <2> QED BY <1>2, <2>2 DEF Pair, Told
<1> QED BY <1>1, <1>2 DEF Pair, Told

\* The peer has read a message.
LEMMA PairRead ==
  ASSUME NEW c, NEW L, NEW req \in Seq(Messages), req # << >>, NEW rep \in Seq(Messages),
         Pair(c, L, req, rep)
  PROVE  Pair(c, L, Tail(req), rep)
<1>1. IdsUnderWay(c, Tail(req), rep)
  <2>1. Count(Tail(req), FetchIds) <= Count(req, FetchIds)
        /\ Count(Tail(req), FetchIds) \in Nat /\ Count(req, FetchIds) \in Nat
    BY TailCounts
  <2>2. Count(rep, Ids) \in Nat
    BY CountType
  <2>3. Count(req, FetchIds) + Count(rep, Ids) <= One(c.idsRequested)
    BY DEF Pair, IdsUnderWay
  <2>4. One(c.idsRequested) \in Nat
    BY DEF One
  <2> QED BY <2>1, <2>2, <2>3, <2>4 DEF IdsUnderWay
<1>2. ItemsUnderWay(c, Tail(req), rep)
  <2> SUFFICES ASSUME NEW x \in Items
               PROVE  Count(Tail(req), Fetches(x)) + Count(rep, Replies(x))
                        <= One(x \in c.syncRequested) + One(x \in c.itemsRequested)
    BY DEF ItemsUnderWay
  <2>1. Count(Tail(req), Fetches(x)) <= Count(req, Fetches(x))
        /\ Count(Tail(req), Fetches(x)) \in Nat /\ Count(req, Fetches(x)) \in Nat
    BY TailCounts
  <2>2. Count(rep, Replies(x)) \in Nat
    BY CountType
  <2>3. Count(req, Fetches(x)) + Count(rep, Replies(x))
          <= One(x \in c.syncRequested) + One(x \in c.itemsRequested)
    BY DEF Pair, ItemsUnderWay
  <2>4. One(x \in c.syncRequested) \in Nat /\ One(x \in c.itemsRequested) \in Nat
    BY DEF One
  <2> QED BY <2>1, <2>2, <2>3, <2>4
<1>3. Asked(c, L, Tail(req))
  BY TailFacts DEF Pair, Asked
<1> QED BY <1>1, <1>2, <1>3 DEF Pair

\* The peer has read a request for ids and answers it.
LEMMA PairAnswersIds ==
  ASSUME NEW c, NEW L, NEW req \in Seq(Messages), req # << >>, NEW rep \in Seq(Messages),
         Pair(c, L, req, rep), req[1] \in FetchIds, NEW m \in Ids, Answer(m, L, Range(c.ids))
  PROVE  Pair(c, L, Tail(req), Append(rep, m))
<1>0. m \in Messages /\ m.type = "ids" /\ \A x : m \notin Replies(x)
  <2>1. m \in Messages /\ m.type = "ids"
    BY KindTypes DEF Ids
  <2> QED BY <2>1, Kinds
<1>1. Pair(c, L, Tail(req), rep)
  BY PairRead
<1>2. IdsUnderWay(c, Tail(req), Append(rep, m))
  <2>1. Count(req, FetchIds) = 1 + Count(Tail(req), FetchIds) /\ Count(Tail(req), FetchIds) \in Nat
    BY TailCounts
  <2>2. Count(Append(rep, m), Ids) = Count(rep, Ids) + One(m \in Ids)
    BY <1>0, CountAppend
  <2>3. Count(rep, Ids) \in Nat
    BY CountType
  <2>4. Count(req, FetchIds) + Count(rep, Ids) <= One(c.idsRequested)
    BY DEF Pair, IdsUnderWay
  <2>5. One(c.idsRequested) \in Nat /\ One(m \in Ids) = 1
    BY DEF One
  <2> QED BY <2>1, <2>2, <2>3, <2>4, <2>5 DEF IdsUnderWay
<1>3. ItemsUnderWay(c, Tail(req), Append(rep, m))
  <2>1. ASSUME NEW x PROVE Count(Append(rep, m), Replies(x)) = Count(rep, Replies(x))
    <3>1. Count(Append(rep, m), Replies(x)) = Count(rep, Replies(x)) + One(m \in Replies(x))
      BY <1>0, CountAppend
    <3>2. Count(rep, Replies(x)) \in Nat
      BY CountType
    <3> QED BY <1>0, <3>1, <3>2 DEF One
  <2> QED BY <1>1, <2>1 DEF Pair, ItemsUnderWay
<1>4. Greets(c, Append(rep, m))
  BY <1>0 DEF Pair, Greets
<1>5. Told(c, L, Append(rep, m))
  <2> SUFFICES ASSUME NEW i \in DOMAIN Append(rep, m), Append(rep, m)[i] \in Ids
               PROVE  Answer(Append(rep, m)[i], L, Range(c.ids))
    BY DEF Told
  <2>1. CASE i \in DOMAIN rep
    BY <2>1 DEF Pair, Told
  <2>2. CASE i \notin DOMAIN rep
    <3>1. Append(rep, m)[i] = m
      BY <2>2
    <3> QED BY <3>1
  <2> QED BY <2>1, <2>2
<1> QED BY <1>1, <1>2, <1>3, <1>4, <1>5 DEF Pair

\* The peer has read a request for x and replies to it.
LEMMA PairReplies ==
  ASSUME NEW c, NEW L, NEW req \in Seq(Messages), req # << >>, NEW rep \in Seq(Messages),
         Pair(c, L, req, rep), NEW x \in Items, req[1] \in Fetches(x), NEW m \in Replies(x)
  PROVE  Pair(c, L, Tail(req), Append(rep, m))
<1>0. m \in Messages /\ m.type \notin {"ids", "address"} /\ m \notin Ids
  <2>1. m \in Messages /\ m.type \notin {"ids", "address"}
    BY KindTypes DEF Replies
  <2> QED BY <2>1, Kinds
<1>1. Pair(c, L, Tail(req), rep)
  BY PairRead
<1>2. IdsUnderWay(c, Tail(req), Append(rep, m))
  <2>1. Count(Append(rep, m), Ids) = Count(rep, Ids) + One(m \in Ids)
    BY <1>0, CountAppend
  <2>2. Count(rep, Ids) \in Nat
    BY CountType
  <2>3. Count(Append(rep, m), Ids) = Count(rep, Ids)
    BY <1>0, <2>1, <2>2 DEF One
  <2> QED BY <1>1, <2>3 DEF Pair, IdsUnderWay
<1>3. ASSUME NEW y \in Items
      PROVE  Count(Tail(req), Fetches(y)) + Count(Append(rep, m), Replies(y))
               <= One(y \in c.syncRequested) + One(y \in c.itemsRequested)
  <2>1. Count(Append(rep, m), Replies(y)) = Count(rep, Replies(y)) + One(m \in Replies(y))
    BY <1>0, CountAppend
  <2>2. Count(rep, Replies(y)) \in Nat
    BY CountType
  <2>3. CASE y = x
    <3>1. Count(req, Fetches(x)) = 1 + Count(Tail(req), Fetches(x)) /\ Count(Tail(req), Fetches(x)) \in Nat
      BY TailCounts
    <3>2. Count(req, Fetches(x)) + Count(rep, Replies(x))
            <= One(x \in c.syncRequested) + One(x \in c.itemsRequested)
      BY DEF Pair, ItemsUnderWay
    <3>3. One(m \in Replies(x)) = 1 /\ One(x \in c.syncRequested) \in Nat /\ One(x \in c.itemsRequested) \in Nat
      BY DEF One
    <3> QED BY <2>1, <2>2, <2>3, <3>1, <3>2, <3>3
  <2>4. CASE y # x
    <3>1. m \notin Replies(y)
      BY <1>0, <2>4, Kinds
    <3>2. Count(Append(rep, m), Replies(y)) = Count(rep, Replies(y))
      BY <2>1, <2>2, <3>1 DEF One
    <3> QED BY <1>1, <3>2 DEF Pair, ItemsUnderWay
  <2> QED BY <2>3, <2>4
<1>4. ItemsUnderWay(c, Tail(req), Append(rep, m))
  BY <1>3 DEF ItemsUnderWay
<1>5. Greets(c, Append(rep, m)) /\ Told(c, L, Append(rep, m))
  BY <1>0 DEF Pair, Greets, Told
<1> QED BY <1>1, <1>2, <1>4, <1>5 DEF Pair

\* A connection with nothing under way.
LEMMA PairIdle ==
  ASSUME NEW c, NEW L, NEW req \in Seq(Messages), NEW rep \in Seq(Messages), Greets(c, rep),
         \A i \in DOMAIN req : req[i].type \in {"address", "eof"},
         \A i \in DOMAIN rep : rep[i].type \in {"address", "eof"}
  PROVE  Pair(c, L, req, rep)
<1>1. \A i \in DOMAIN req : req[i] \in Messages
  OBVIOUS
<1>2. \A i \in DOMAIN rep : rep[i] \in Messages
  OBVIOUS
<1>3. \A i \in DOMAIN req : req[i] \notin FetchIds /\ \A x : req[i] \notin Fetches(x)
  BY <1>1, Kinds
<1>4. \A i \in DOMAIN rep : rep[i] \notin Ids /\ \A x : rep[i] \notin Replies(x)
  BY <1>2, Kinds
<1>5. Count(req, FetchIds) = 0 /\ Count(rep, Ids) = 0
  BY <1>3, <1>4, CountNone
<1>6. ASSUME NEW x PROVE Count(req, Fetches(x)) = 0 /\ Count(rep, Replies(x)) = 0
  BY <1>3, <1>4, CountNone
<1>7. IdsUnderWay(c, req, rep)
  BY <1>5 DEF IdsUnderWay, One
<1>8. ItemsUnderWay(c, req, rep)
  BY <1>6 DEF ItemsUnderWay, One
<1>9. Asked(c, L, req) /\ Told(c, L, rep)
  BY <1>3, <1>4 DEF Asked, Told
<1> QED BY <1>7, <1>8, <1>9 DEF Pair

-----------------------------------------------------------------------------
(* The chain that ends with a block.                                       *)

\* C has the chain of every block.
IsChain(C) ==
  C = [b \in 0..NBlocks |-> IF b = 0 THEN << >> ELSE Append(C[Prev[b]], b)]

\* The equation that defines Chain has a solution, built up block by block.
LEMMA ChainExists == \E C : IsChain(C) /\ C \in [0..NBlocks -> Seq(Blocks)]
<1> USE BlockAssumption
<1> DEFINE N == NBlocks
           G == [k \in 0..N |-> [0..k -> Seq(Blocks)]]
           ext(k, h) == [j \in 0..k |-> IF j < k THEN h[j] ELSE Append(h[Prev[k]], k)]
           step == [k \in 1..N |-> [h \in G[k - 1] |-> ext(k, h)]]
           x0 == [j \in 0..0 |-> << >>]
<1>0. N \in Nat /\ \A b \in 1..N : Prev[b] \in 0..(b - 1)
  BY DEF Blocks
<1>1. x0 \in G[0]
  <2>1. 0 \in 0..N
    BY <1>0
  <2>2. G[0] = [0..0 -> Seq(Blocks)]
    BY <2>1
  <2> HIDE DEF G
  <2> QED BY <2>2
<1>2. ASSUME NEW k \in 1..N, NEW h \in G[k - 1] PROVE step[k][h] = ext(k, h) /\ ext(k, h) \in G[k]
  <2>1. k \in 0..N /\ k - 1 \in 0..N /\ k \in Blocks
    BY <1>0 DEF Blocks
  <2>2. G[k] = [0..k -> Seq(Blocks)] /\ G[k - 1] = [0..(k - 1) -> Seq(Blocks)]
    BY <2>1
  <2>3. step[k][h] = ext(k, h)
    <3> HIDE DEF G
    <3> QED OBVIOUS
  <2>4. h \in [0..(k - 1) -> Seq(Blocks)]
    BY <2>2, <1>2
  <2>5. ASSUME NEW j \in 0..k
        PROVE  (IF j < k THEN h[j] ELSE Append(h[Prev[k]], k)) \in Seq(Blocks)
    <3>1. h[Prev[k]] \in Seq(Blocks)
      BY <1>0, <2>4
    <3>2. Append(h[Prev[k]], k) \in Seq(Blocks)
      BY <2>1, <3>1
    <3>3. j < k => j \in 0..(k - 1)
      BY <2>1
    <3> QED BY <2>4, <3>2, <3>3
  <2>6. ext(k, h) \in [0..k -> Seq(Blocks)]
    BY <2>5
  <2> HIDE DEF G, step, ext
  <2> QED BY <2>2, <2>3, <2>6
<1>3. PICK f : Iterates(f, x0, N, step) /\ \A k \in 0..N : f[k] \in G[k]
  <2>1. \A k \in 1..N : \A x \in G[k - 1] : step[k][x] \in G[k]
    BY <1>2
  <2> HIDE DEF G, step, x0, N
  <2> QED BY <1>0, <1>1, <2>1, StagedRecursion
<1>4. f[0] = x0 /\ \A k \in 1..N : f[k] = ext(k, f[k - 1])
  <2>1. f[0] = x0 /\ \A k \in 1..N : f[k] = step[k][f[k - 1]]
    BY <1>3 DEF Iterates
  <2>2. \A k \in 1..N : f[k - 1] \in G[k - 1]
    <3>1. \A k \in 1..N : k - 1 \in 0..N
      BY <1>0
    <3> HIDE DEF G, step, x0, N
    <3> QED BY <1>3, <3>1
  <2> HIDE DEF G, step, x0, N, ext
  <2> QED BY <1>2, <2>1, <2>2
<1>5. ASSUME NEW k \in 1..N
      PROVE  /\ f[k][k] = Append(f[k - 1][Prev[k]], k)
             /\ \A j \in 0..(k - 1) : f[k][j] = f[k - 1][j]
  <2>1. f[k] = ext(k, f[k - 1])
    BY <1>4
  <2> QED BY <1>0, <2>1
<1>6. \A k \in 0..N : f[k] \in [0..k -> Seq(Blocks)]
  BY <1>3
<1> HIDE DEF G, step, ext, N
<1>7. ASSUME NEW j \in 0..N PROVE \A k \in 0..N : j <= k => f[k][j] = f[j][j]
  <2> DEFINE S == {k \in 0..N : j <= k => f[k][j] = f[j][j]}
  <2>1. 0 \in S
    BY <1>0
  <2>2. ASSUME NEW k \in 1..N, k - 1 \in S PROVE k \in S
    <3>1. k \in 0..N
      BY <1>0
    <3>2. CASE j <= k - 1
      <4>1. f[k - 1][j] = f[j][j]
        BY <2>2, <3>2
      <4>2. j \in 0..(k - 1)
        BY <1>0, <3>2
      <4>3. f[k][j] = f[k - 1][j]
        BY <1>5, <4>2
      <4> QED BY <3>1, <4>1, <4>3
    <3>3. CASE ~(j <= k - 1)
      <4>1. j <= k => j = k
        BY <1>0, <3>3
      <4> QED BY <3>1, <4>1
    <3> QED BY <3>2, <3>3
  <2>3. \A k \in 0..N : k \in S
    <3> HIDE DEF S
    <3> QED BY <1>0, <2>1, <2>2, SegmentInduction
  <2> QED BY <2>3
<1> DEFINE C == f[N]
<1>8. N \in 0..N /\ C \in [0..N -> Seq(Blocks)]
  BY <1>0, <1>6
<1>9. ASSUME NEW b \in 0..N PROVE C[b] = IF b = 0 THEN << >> ELSE Append(C[Prev[b]], b)
  <2>1. C[b] = f[b][b]
    BY <1>0, <1>7, <1>8
  <2>2. CASE b = 0
    <3>1. f[0][0] = << >>
      BY <1>4
    <3> QED BY <2>1, <2>2, <3>1
  <2>3. CASE b # 0
    <3>1. b \in 1..N /\ Prev[b] \in 0..(b - 1) /\ Prev[b] \in 0..N /\ b - 1 \in 0..N /\ Prev[b] <= b - 1 /\ Prev[b] <= N
      BY <1>0, <2>3
    <3>2. f[b][b] = Append(f[b - 1][Prev[b]], b)
      BY <1>5, <3>1
    <3>3. f[b - 1][Prev[b]] = f[Prev[b]][Prev[b]]
      BY <1>7, <3>1
    <3>4. C[Prev[b]] = f[Prev[b]][Prev[b]]
      BY <1>7, <1>8, <3>1
    <3> QED BY <2>1, <2>3, <3>2, <3>3, <3>4
  <2> QED BY <2>2, <2>3
<1> HIDE DEF C
<1>10. C = [b \in 0..N |-> IF b = 0 THEN << >> ELSE Append(C[Prev[b]], b)]
  BY <1>8, <1>9
<1> QED BY <1>8, <1>10 DEF IsChain, N

\* Chain satisfies its equation, with the chains of blocks as values.
LEMMA ChainDef ==
  /\ Chain \in [0..NBlocks -> Seq(Blocks)]
  /\ Chain[0] = << >>
  /\ \A b \in Blocks : Chain[b] = Append(Chain[Prev[b]], b)
<1> USE BlockAssumption
<1>1. PICK C : IsChain(C) /\ C \in [0..NBlocks -> Seq(Blocks)]
  BY ChainExists
<1>2. IsChain(Chain)
  <2>1. Chain = CHOOSE c : IsChain(c)
    BY DEF Chain, IsChain
  <2> QED BY <1>1, <2>1
<1>3. ASSUME NEW b \in 0..NBlocks
      PROVE  Chain[b] = IF b = 0 THEN << >> ELSE Append(Chain[Prev[b]], b)
  BY <1>2 DEF IsChain
<1>4. Chain[0] = << >>
  BY <1>3
<1>5. ASSUME NEW b \in Blocks PROVE Chain[b] = Append(Chain[Prev[b]], b)
  <2>1. b \in 0..NBlocks /\ b # 0
    BY DEF Blocks
  <2> QED BY <1>3, <2>1
<1> DEFINE S == {k \in 0..NBlocks : \A b \in 0..k : Chain[b] \in Seq(Blocks)}
<1>6. 0 \in S
  <2>1. \A b \in 0..0 : b = 0
    OBVIOUS
  <2>2. << >> \in Seq(Blocks)
    OBVIOUS
  <2>3. \A b \in 0..0 : Chain[b] \in Seq(Blocks)
    BY <1>4, <2>1, <2>2
  <2> QED BY <2>3
<1>7. ASSUME NEW k \in 1..NBlocks, k - 1 \in S PROVE k \in S
  <2>1. k \in Blocks /\ Prev[k] \in 0..(k - 1)
    BY DEF Blocks
  <2>2. Chain[k] \in Seq(Blocks)
    <3>1. Chain[Prev[k]] \in Seq(Blocks)
      BY <1>7, <2>1
    <3>2. Chain[k] = Append(Chain[Prev[k]], k)
      BY <1>5, <2>1
    <3> QED BY <2>1, <3>1, <3>2
  <2>3. \A b \in 0..k : b = k \/ b \in 0..(k - 1)
    OBVIOUS
  <2> QED BY <1>7, <2>2, <2>3
<1>8. \A k \in 0..NBlocks : k \in S
  <2> HIDE DEF S
  <2> QED BY <1>6, <1>7, SegmentInduction
<1>9. \A b \in 0..NBlocks : Chain[b] \in Seq(Blocks)
  BY <1>8
<1>10. Chain = [b \in 0..NBlocks |-> Chain[b]]
  BY <1>2 DEF IsChain
<1> QED BY <1>4, <1>5, <1>9, <1>10

\* Along a list whose blocks follow on from one another the ids grow.
LEMMA SegmentSpacing ==
  ASSUME NEW q \in Seq(Blocks), Segment(q), NEW i \in DOMAIN q
  PROVE  \A j \in DOMAIN q : i <= j => q[i] + (j - i) <= q[j]
<1> USE BlockAssumption
<1> DEFINE n == Len(q)
           S == {j \in 0..n : j >= i => q[i] + (j - i) <= q[j]}
<1>1. n \in Nat /\ i \in 1..n /\ \A j \in 1..n : q[j] \in Blocks /\ q[j] \in Int
  BY DEF Blocks
<1>2. 0 \in S
  BY <1>1
<1>3. ASSUME NEW j \in 1..n, j - 1 \in S PROVE j \in S
  <2>0. j \in 0..n
    BY <1>1
  <2>1. CASE j <= i
    BY <1>1, <2>0, <2>1
  <2>2. CASE j > i
    <3>1. j - 1 \in 1..(n - 1) /\ (j - 1) + 1 = j /\ j - 1 \in 1..n
      BY <1>1, <2>2
    <3>2. Prev[q[j]] = q[j - 1]
      BY <3>1 DEF Segment
    <3>3. q[j - 1] < q[j]
      BY <1>1, <3>2
    <3>4. q[i] + ((j - 1) - i) <= q[j - 1]
      BY <1>1, <1>3, <2>2
    <3>5. q[i] \in Int /\ q[j] \in Int /\ q[j - 1] \in Int
      BY <1>1, <3>1
    <3>6. q[i] + (j - i) <= q[j]
      <4>1. i \in Int /\ j \in Int
        BY <1>1
      <4> HIDE BlockAssumption
      <4> QED BY <3>3, <3>4, <3>5, <4>1
    <3> QED BY <2>0, <3>6
  <2> QED BY <1>1, <2>1, <2>2
<1>4. \A j \in 0..n : j \in S
  <2> HIDE DEF S, n
  <2> QED BY <1>1, <1>2, <1>3, SegmentInduction
<1>5. DOMAIN q = 1..n /\ \A j \in 1..n : j \in 0..n
  BY <1>1
<1> QED BY <1>1, <1>4, <1>5

\* A list that leaves room for k blocks after its last has no more than the rest.
LEMMA SegmentLength ==
  ASSUME NEW q \in Seq(Blocks), Segment(q), q # << >>
  PROVE  Len(q) <= q[Len(q)]
<1>1. Len(q) \in Nat /\ 1 \in DOMAIN q /\ Len(q) \in DOMAIN q /\ 1 <= Len(q)
  OBVIOUS
<1>2. q[1] + (Len(q) - 1) <= q[Len(q)]
  BY <1>1, SegmentSpacing
<1>3. q[1] \in Blocks /\ q[Len(q)] \in Blocks
  BY <1>1
<1>4. q[1] \in Int /\ q[1] >= 1 /\ q[Len(q)] \in Int
  BY <1>3, BlockAssumption DEF Blocks
<1> QED BY <1>1, <1>2, <1>4

\* q is the chain that ends with b.
Lineage(q, b) ==
  /\ b # 0 => q # << >> /\ q[Len(q)] = b /\ Prev[q[1]] = 0
  /\ b = 0 => q = << >>
  /\ Segment(q)
  /\ \A i \in DOMAIN q : /\ Len(Chain[q[i]]) = i
                         /\ \A j \in 1..i : Chain[q[i]][j] = q[j]

\* The chain of a block ends in it, begins with a first block and follows on; each
\* of its blocks has the beginning of the chain as its own.
LEMMA ChainFacts == \A b \in 0..NBlocks : Chain[b] \in Seq(Blocks) /\ Lineage(Chain[b], b)
<1> USE BlockAssumption
<1> DEFINE S == {k \in 0..NBlocks : \A b \in 0..k : Lineage(Chain[b], b)}
<1>1. 0 \in S
  <2>1. Lineage(<< >>, 0)
    BY DEF Lineage, Segment
  <2>2. \A b \in 0..0 : b = 0
    OBVIOUS
  <2>3. Lineage(Chain[0], 0)
    BY <2>1, ChainDef
  <2>4. \A b \in 0..0 : Lineage(Chain[b], b)
    BY <2>2, <2>3
  <2> QED BY <2>4
<1>2. ASSUME NEW k \in 1..NBlocks, k - 1 \in S PROVE k \in S
  <2>1. k \in Blocks /\ Prev[k] \in 0..(k - 1) /\ Prev[k] \in 0..NBlocks
    BY DEF Blocks
  <2> DEFINE p == Chain[Prev[k]]
             q == Chain[k]
             n == Len(p)
  <2>2. p \in Seq(Blocks) /\ q = Append(p, k)
    BY <2>1, ChainDef
  <2>3. Lineage(p, Prev[k])
    BY <1>2, <2>1
  <2> HIDE DEF p
  <2>4. /\ q \in Seq(Blocks) /\ n \in Nat /\ Len(q) = n + 1 /\ DOMAIN q = 1..(n + 1) /\ DOMAIN p = 1..n
        /\ q[n + 1] = k /\ \A i \in 1..n : q[i] = p[i]
    BY <2>1, <2>2
  <2> HIDE DEF q, n
  <2>5. q # << >> /\ q[Len(q)] = k
    BY <2>4
  <2>6. Prev[q[1]] = 0
    <3>1. CASE Prev[k] = 0
      <4>1. p = << >>
        BY <2>3, <3>1 DEF Lineage
      <4>2. n = 0
        BY <4>1 DEF n
      <4> QED BY <2>4, <3>1, <4>2
    <3>2. CASE Prev[k] # 0
      <4>1. p # << >> /\ Prev[p[1]] = 0
        BY <2>3, <3>2 DEF Lineage
      <4>2. 1 \in 1..n
        BY <2>2, <2>4, <4>1 DEF n
      <4> QED BY <2>4, <4>1, <4>2
    <3> QED BY <3>1, <3>2
  <2>7. Segment(q)
    <3> SUFFICES ASSUME NEW i \in 1..(Len(q) - 1) PROVE Prev[q[i + 1]] = q[i]
      BY DEF Segment
    <3>1. i \in 1..n
      BY <2>4
    <3>2. CASE i = n
      <4>1. p # << >>
        BY <2>2, <3>1, <3>2 DEF n
      <4>2. Prev[k] # 0
        BY <2>3, <4>1 DEF Lineage
      <4>3. p[n] = Prev[k]
        BY <2>3, <4>2 DEF Lineage, n
      <4> QED BY <2>4, <3>1, <3>2, <4>3
    <3>3. CASE i # n
      <4>1. i \in 1..(n - 1) /\ i + 1 \in 1..n
        BY <2>4, <3>1, <3>3
      <4>2. Prev[p[i + 1]] = p[i]
        BY <2>3, <4>1 DEF Lineage, Segment, n
      <4> QED BY <2>4, <3>1, <4>1, <4>2
    <3> QED BY <3>2, <3>3
  <2>8. ASSUME NEW i \in DOMAIN q
        PROVE  Len(Chain[q[i]]) = i /\ \A j \in 1..i : Chain[q[i]][j] = q[j]
    <3>1. CASE i = n + 1
      <4>1. q[i] = k
        BY <2>4, <3>1
      <4>2. Chain[q[i]] = q
        BY <4>1 DEF q
      <4> QED BY <2>4, <3>1, <4>2
    <3>2. CASE i # n + 1
      <4>1. i \in 1..n /\ q[i] = p[i]
        BY <2>4, <3>2
      <4>2. Len(Chain[p[i]]) = i /\ \A j \in 1..i : Chain[p[i]][j] = p[j]
        BY <2>3, <2>4, <4>1 DEF Lineage
      <4>3. \A j \in 1..i : j \in 1..n
        BY <2>4, <4>1
      <4> QED BY <2>4, <4>1, <4>2, <4>3
    <3> QED BY <3>1, <3>2
  <2>9. Lineage(q, k)
    <3>1. k # 0
      BY <2>1
    <3> QED BY <2>5, <2>6, <2>7, <2>8, <3>1 DEF Lineage
  <2>10. \A b \in 0..k : b = k \/ b \in 0..(k - 1)
    OBVIOUS
  <2>11. \A b \in 0..k : Lineage(Chain[b], b)
    BY <1>2, <2>9, <2>10 DEF q
  <2> QED BY <2>11
<1>3. \A k \in 0..NBlocks : k \in S
  <2> HIDE DEF S
  <2> QED BY <1>1, <1>2, SegmentInduction
<1>4. \A b \in 0..NBlocks : Lineage(Chain[b], b)
  BY <1>3
<1> QED BY <1>4, ChainDef

\* The blocks of a chain have their own chains in it; with a block a chain has all
\* but the block before it.
LEMMA ChainRange ==
  ASSUME NEW b \in Blocks
  PROVE  /\ b \in Range(Chain[b])
         /\ Range(Chain[b]) \subseteq Blocks
         /\ \A c \in Range(Chain[b]) : Range(Chain[c]) \subseteq Range(Chain[b])
         /\ Prev[b] # 0 => Prev[b] \in Blocks /\ Prev[b] \in Range(Chain[b])
         /\ Range(Chain[b]) \subseteq {b} \cup Range(Chain[Prev[b]])
<1> USE BlockAssumption
<1>1. b \in 0..NBlocks /\ b # 0 /\ Prev[b] \in 0..NBlocks
  BY DEF Blocks
<1> DEFINE q == Chain[b]
           p == Chain[Prev[b]]
<1>2. q \in Seq(Blocks) /\ Lineage(q, b) /\ p \in Seq(Blocks) /\ Lineage(p, Prev[b]) /\ q = Append(p, b)
  BY <1>1, ChainFacts, ChainDef
<1> HIDE DEF q, p
<1>3. q # << >> /\ q[Len(q)] = b /\ Len(q) \in DOMAIN q
  BY <1>1, <1>2 DEF Lineage
<1>4. b \in Range(q)
  BY <1>3 DEF Range
<1>5. Range(q) \subseteq Blocks
  BY <1>2 DEF Range
<1>6. ASSUME NEW c \in Range(q) PROVE Range(Chain[c]) \subseteq Range(q)
  <2>1. PICK i \in DOMAIN q : q[i] = c
    BY DEF Range
  <2>2. Len(Chain[c]) = i /\ \A j \in 1..i : Chain[c][j] = q[j]
    BY <1>2, <2>1 DEF Lineage
  <2>3. c \in 0..NBlocks
    BY <1>5 DEF Blocks
  <2>4. Chain[c] \in Seq(Blocks)
    BY <2>3, ChainDef
  <2>5. DOMAIN Chain[c] = 1..i
    BY <2>2, <2>4
  <2>6. \A j \in 1..i : j \in DOMAIN q
    BY <1>2, <2>1
  <2> QED BY <2>2, <2>5, <2>6 DEF Range
<1>7. ASSUME Prev[b] # 0 PROVE Prev[b] \in Blocks /\ Prev[b] \in Range(q)
  <2>1. p # << >> /\ p[Len(p)] = Prev[b]
    BY <1>2, <1>7 DEF Lineage
  <2>2. Len(p) \in DOMAIN q /\ q[Len(p)] = Prev[b]
    BY <1>2, <2>1
  <2> QED BY <1>1, <1>7, <2>2 DEF Range, Blocks
<1>8. Range(q) \subseteq {b} \cup Range(p)
  BY <1>2 DEF Range
<1> QED BY <1>4, <1>5, <1>6, <1>7, <1>8 DEF q, p

-----------------------------------------------------------------------------
(* Blocks linked to a first block.                                         *)

\* A linked block has its whole chain linked, and a stored block whose predecessor
\* is linked is linked itself.
LEMMA LinkedFacts ==
  ASSUME NEW s, s.stored \subseteq Blocks
  PROVE  /\ Linked(s) \subseteq s.stored /\ Linked(s) \subseteq Blocks
         /\ \A b \in Linked(s) : Range(Chain[b]) \subseteq Linked(s)
         /\ \A b \in Linked(s) : Prev[b] \in Linked(s) \cup {0}
         /\ \A b \in s.stored : Prev[b] \in Linked(s) \cup {0} => b \in Linked(s)
<1>1. Linked(s) \subseteq s.stored /\ Linked(s) \subseteq Blocks
  BY DEF Linked
<1>2. ASSUME NEW b \in Linked(s) PROVE Range(Chain[b]) \subseteq Linked(s)
  <2>1. b \in Blocks /\ Range(Chain[b]) \subseteq s.stored
    BY DEF Linked
  <2>2. \A c \in Range(Chain[b]) : Range(Chain[c]) \subseteq s.stored
    BY <2>1, ChainRange
  <2> QED BY <2>1, <2>2 DEF Linked
<1>3. ASSUME NEW b \in Linked(s) PROVE Prev[b] \in Linked(s) \cup {0}
  BY <1>1, <1>2, ChainRange
<1>4. ASSUME NEW b \in s.stored, Prev[b] \in Linked(s) \cup {0} PROVE b \in Linked(s)
  <2>1. Range(Chain[Prev[b]]) \subseteq s.stored
    <3>1. CASE Prev[b] = 0
      <4>1. Range(<< >>) = {}
        BY DEF Range
      <4> QED BY <3>1, <4>1, ChainDef
    <3>2. CASE Prev[b] # 0
      BY <1>4, <3>2 DEF Linked
    <3> QED BY <3>1, <3>2
  <2>2. Range(Chain[b]) \subseteq {b} \cup Range(Chain[Prev[b]])
    BY ChainRange
  <2> QED BY <2>1, <2>2 DEF Linked
<1> QED BY <1>1, <1>2, <1>3, <1>4

\* Storing blocks keeps the linked ones linked.
LEMMA LinkedGrows ==
  ASSUME NEW s, NEW t, s.stored \subseteq t.stored
  PROVE  Linked(s) \subseteq Linked(t)
BY DEF Linked

\* There is one first block, and with any block it is linked.
LEMMA FirstLinked ==
  ASSUME NEW s, s.stored \subseteq Blocks, NEW b \in Linked(s), NEW c \in Blocks, Prev[c] = 0
  PROVE  c \in Linked(s)
<1>1. b \in Blocks /\ Range(Chain[b]) \subseteq Linked(s)
  BY LinkedFacts
<1>2. b \in 0..NBlocks /\ b # 0
  BY <1>1, BlockAssumption DEF Blocks
<1>3. Chain[b] \in Seq(Blocks) /\ Chain[b] # << >> /\ Prev[Chain[b][1]] = 0
  BY <1>2, ChainFacts DEF Lineage
<1>4. 1 \in DOMAIN Chain[b] /\ Chain[b][1] \in Blocks
  BY <1>3
<1>5. Chain[b][1] = c
  BY <1>3, <1>4, BlockAssumption
<1> QED BY <1>1, <1>4, <1>5 DEF Range

-----------------------------------------------------------------------------
(* What a node asks for and what it answers.                               *)

\* What every sequence has.
LEMMA SeqFacts ==
  ASSUME NEW T, NEW q \in Seq(T)
  PROVE  DOMAIN q = 1..Len(q) /\ Len(q) \in Nat /\ \A i \in DOMAIN q : q[i] \in T
OBVIOUS

\* The numbers that a synopsis holds are in its range.
LEMMA HalvingsFacts ==
  ASSUME NEW above \in Nat, NEW high \in Nat, NEW top \in Nat, high <= top
  PROVE  Halvings(above, high, top) \in Seq((above + 1)..high)
<1> DEFINE I == (above + 1)..high
           X == [low: Nat \ {0}, nums: Seq(I)]
           x0 == [low |-> 1, nums |-> << >>]
           op(k, r) == IF r.low > high THEN r
                       ELSE [low  |-> r.low + ((top - r.low + 2) \div 2),
                             nums |-> IF r.low > above THEN Append(r.nums, r.low) ELSE r.nums]
           step == [k \in 1..high |-> [r \in X |-> op(k, r)]]
<1>1. x0 \in X
  OBVIOUS
<1>2. ASSUME NEW k \in 1..high, NEW r \in X PROVE op(k, r) \in X
  <2>1. CASE r.low > high
    BY <2>1
  <2>2. CASE ~(r.low > high)
    <3>1. r.low \in Nat \ {0} /\ r.nums \in Seq(I)
      OBVIOUS
    <3>2. top - r.low + 2 \in Nat
      BY <2>2, <3>1
    <3>3. (top - r.low + 2) \div 2 \in Nat
      <4> DEFINE a == top - r.low + 2
      <4>1. a \in Nat
        BY <3>2
      <4> HIDE DEF a
      <4>2. a \div 2 \in Nat
        BY <4>1
      <4> QED BY <4>2 DEF a
    <3> DEFINE d == (top - r.low + 2) \div 2
    <3> HIDE DEF d
    <3>4. r.low + d \in Nat \ {0}
      BY <3>1, <3>3 DEF d
    <3>5. r.low > above => r.low \in I
      BY <2>2, <3>1
    <3> HIDE DEF I
    <3>6. (IF r.low > above THEN Append(r.nums, r.low) ELSE r.nums) \in Seq(I)
      BY <3>1, <3>5
    <3>7. op(k, r) = [low |-> r.low + d,
                      nums |-> IF r.low > above THEN Append(r.nums, r.low) ELSE r.nums]
      BY <2>2 DEF d
    <3> QED BY <3>4, <3>6, <3>7
  <2> QED BY <2>1, <2>2
<1>3. step \in [1..high -> [X -> X]]
  <2> HIDE DEF X, op
  <2> QED BY <1>2
<1>4. PICK f \in [0..high -> X] : Iterates(f, x0, high, step)
  <2> HIDE DEF X, op, step, x0
  <2> QED BY <1>1, <1>3, Recursion
<1> HIDE DEF X, op
<1>5. ASSUME NEW k \in 1..high PROVE f[k] = op(k, f[k - 1])
  <2>1. k - 1 \in 0..high
    OBVIOUS
  <2> QED BY <1>4, <2>1 DEF Iterates
<1>6. f = [k \in 0..high |-> IF k = 0 THEN x0 ELSE op(k, f[k - 1])]
  <2>1. ASSUME NEW k \in 0..high PROVE f[k] = IF k = 0 THEN x0 ELSE op(k, f[k - 1])
    <3>1. CASE k = 0
      BY <1>4, <3>1 DEF Iterates
    <3>2. CASE k # 0
      BY <1>5, <3>2
    <3> QED BY <3>1, <3>2
  <2> QED BY <2>1
<1> DEFINE R == CHOOSE r : r = [k \in 0..high |-> IF k = 0 THEN x0 ELSE op(k, r[k - 1])]
<1>7. R = [k \in 0..high |-> IF k = 0 THEN x0 ELSE op(k, R[k - 1])]
  BY <1>6
<1>8. Halvings(above, high, top) = R[high].nums
  BY DEF Halvings, op
<1> HIDE DEF R
<1> DEFINE T == {k \in 0..high : R[k] \in X}
<1>9. 0 \in T
  BY <1>1, <1>7
<1>10. ASSUME NEW k \in 1..high, k - 1 \in T PROVE k \in T
  <2>1. k \in 0..high /\ k # 0 /\ R[k - 1] \in X
    BY <1>10
  <2>2. R[k] = op(k, R[k - 1])
    BY <1>7, <2>1
  <2> QED BY <1>2, <2>1, <2>2
<1>11. \A k \in 0..high : k \in T
  <2> HIDE DEF T
  <2> QED BY <1>9, <1>10, SegmentInduction
<1>12. R[high] \in X
  BY <1>11
<1> QED BY <1>8, <1>12 DEF X

\* A synopsis has blocks that are linked, and blocks of the peer's list.
LEMMA ClientSynopsisFacts ==
  ASSUME NEW s, s.stored \subseteq Blocks, s.head \in Linked(s) \cup {0},
         NEW r \in 0..NBlocks, NEW after \in Nat
  PROVE  /\ ClientSynopsis(s, r, after) \in Seq(Blocks)
         /\ Range(ClientSynopsis(s, r, after)) \subseteq Linked(s)
<1> DEFINE e == IF r = 0 THEN s.head ELSE r
           chain == Chain[e]
           n == Len(chain)
           nums == Halvings(0, n, n + after)
           q == [i \in DOMAIN nums |-> chain[nums[i]]]
<1>1. CASE chain = << >> \/ r \notin Linked(s) \cup {0}
  <2>1. ClientSynopsis(s, r, after) = << >>
    BY <1>1 DEF ClientSynopsis
  <2>2. Range(<< >>) = {}
    BY DEF Range
  <2> QED BY <2>1, <2>2
<1>2. CASE ~(chain = << >> \/ r \notin Linked(s) \cup {0})
  <2>1. ClientSynopsis(s, r, after) = q
    BY <1>2 DEF ClientSynopsis
  <2>2. e \in Linked(s)
    <3>1. e \in Linked(s) \cup {0}
      BY <1>2
    <3>2. e # 0
      BY <1>2, ChainDef
    <3> QED BY <3>1, <3>2
  <2>3. e \in Blocks /\ Range(chain) \subseteq Linked(s) /\ e \in 0..NBlocks
    BY <2>2, LinkedFacts, BlockAssumption DEF Blocks
  <2>4. chain \in Seq(Blocks)
    BY <2>3, ChainDef
  <2> HIDE DEF chain, e
  <2>5. n \in Nat /\ n <= n + after /\ n + after \in Nat /\ DOMAIN chain = 1..n
    BY <2>4
  <2>6. nums \in Seq((0 + 1)..n)
    <3> HIDE DEF n
    <3> QED BY <2>5, HalvingsFacts
  <2>7. nums \in Seq(1..n)
    BY <2>6
  <2> HIDE DEF nums, n
  <2>8. DOMAIN nums = 1..Len(nums) /\ Len(nums) \in Nat /\ \A i \in DOMAIN nums : nums[i] \in 1..n
    BY <2>7, SeqFacts
  <2>9. \A i \in DOMAIN nums : chain[nums[i]] \in Blocks /\ chain[nums[i]] \in Range(chain)
    BY <2>4, <2>5, <2>8 DEF Range
  <2>10. q \in Seq(Blocks)
    <3>1. q \in [1..Len(nums) -> Blocks]
      BY <2>8, <2>9
    <3> HIDE DEF q
    <3> QED BY <2>8, <3>1, SeqDef
  <2>11. Range(q) \subseteq Linked(s)
    BY <2>3, <2>9 DEF Range
  <2> HIDE DEF q
  <2> QED BY <2>1, <2>10, <2>11
<1> QED BY <1>1, <1>2

\* create_blockchain_synopsis_for_peer: every block of a synopsis is linked or in the
\* list of that peer.
LEMMA SynopsisFacts ==
  ASSUME NEW s, s.stored \subseteq Blocks, s.head \in Linked(s) \cup {0}, NEW c \in Conns
  PROVE  /\ Synopsis(s, c) \in Seq(Blocks)
         /\ Range(Synopsis(s, c)) \subseteq Linked(s) \cup Range(c.ids)
<1> DEFINE behind == Len(c.ids)
           high == c.lastNum + behind
           nums == Halvings(c.lastNum, high, high)
           q == [i \in DOMAIN nums |-> c.ids[nums[i] - c.lastNum]]
           r == ClientSynopsis(s, c.lastSeen, behind)
<1>1. c.ids \in Seq(Blocks) /\ c.lastNum \in Nat /\ c.lastSeen \in 0..NBlocks
  BY DEF Conns
<1>2. behind \in Nat /\ high \in Nat /\ high <= high
  BY <1>1
<1>3. r \in Seq(Blocks) /\ Range(r) \subseteq Linked(s)
  <2> HIDE DEF behind
  <2> QED BY <1>1, <1>2, ClientSynopsisFacts
<1>4. nums \in Seq((c.lastNum + 1)..high)
  <2> HIDE DEF high
  <2> QED BY <1>1, <1>2, HalvingsFacts
<1> HIDE DEF nums, r
<1>5. DOMAIN nums = 1..Len(nums) /\ Len(nums) \in Nat /\ \A i \in DOMAIN nums : nums[i] \in (c.lastNum + 1)..high
  BY <1>4, SeqFacts
<1>6. ASSUME NEW i \in DOMAIN nums
      PROVE  c.ids[nums[i] - c.lastNum] \in Blocks /\ c.ids[nums[i] - c.lastNum] \in Range(c.ids)
  <2>1. nums[i] \in (c.lastNum + 1)..high
    BY <1>5
  <2>2. nums[i] - c.lastNum \in 1..behind
    BY <1>1, <1>2, <2>1
  <2>3. DOMAIN c.ids = 1..behind
    BY <1>1
  <2> DEFINE k == nums[i] - c.lastNum
  <2> HIDE DEF behind, k
  <2>4. k \in DOMAIN c.ids
    BY <2>2, <2>3 DEF k
  <2>5. c.ids[k] \in Blocks /\ c.ids[k] \in Range(c.ids)
    BY <1>1, <2>4 DEF Range
  <2> QED BY <2>5 DEF k
<1>7. q \in Seq(Blocks)
  <2>1. q \in [1..Len(nums) -> Blocks]
    BY <1>5, <1>6
  <2> HIDE DEF q
  <2> QED BY <1>5, <2>1, SeqDef
<1>8. Range(q) \subseteq Range(c.ids)
  BY <1>6 DEF Range
<1>9. Synopsis(s, c) = r \o q
  BY DEF Synopsis, r, nums
<1> HIDE DEF q
<1>10. r \o q \in Seq(Blocks) /\ Range(r \o q) = Range(r) \cup Range(q)
  BY <1>3, <1>7, ConcatProperties, RangeConcatenation
<1> QED BY <1>3, <1>8, <1>9, <1>10

\* The answer to a synopsis goes on from the last block of it that the chain has, or
\* from the first block.
LEMMA GetItemIdsFacts ==
  ASSUME NEW s, s.head \in 0..NBlocks, NEW syn \in Seq(Blocks), NEW m,
         m = [type |-> "ids", hashes |-> GetItemIds(s, syn).hashes,
              remaining |-> GetItemIds(s, syn).remaining]
  PROVE  m \in Ids /\ \A L, I : Range(syn) \subseteq L \cup I => Answer(m, L, I)
<1> DEFINE chain == Chain[s.head]
           n == Len(chain)
           common == {i \in DOMAIN syn : IsIncluded(s, syn[i])}
           from == IF common = {} THEN 1 ELSE Num(syn[Max(common)])
           after == SubSeq(chain, from, n)
           count == IF Limit < Len(after) THEN Limit ELSE Len(after)
           h == SubSeq(after, 1, count)
<1>1. m.hashes = h /\ m.remaining = Len(after) - count
  BY DEF GetItemIds
<1>2. chain \in Seq(Blocks) /\ n \in Nat /\ Lineage(chain, s.head) /\ DOMAIN chain = 1..n
  BY ChainFacts
<1>3. /\ from \in Nat /\ from >= 1
      /\ from <= n => Prev[chain[from]] = 0 \/ chain[from] \in Range(syn)
      /\ common # {} => from <= n
  <2>1. CASE common = {}
    <3>1. from = 1
      BY <2>1
    <3>2. 1 <= n => Prev[chain[1]] = 0
      <4>1. CASE s.head = 0
        BY <1>2, <4>1 DEF Lineage
      <4>2. CASE s.head # 0
        BY <1>2, <4>2 DEF Lineage
      <4> QED BY <4>1, <4>2
    <3> HIDE DEF from
    <3> QED BY <2>1, <3>1, <3>2
  <2>2. CASE common # {}
    <3>1. common \in SUBSET (0..Len(syn)) /\ Len(syn) \in Nat
      OBVIOUS
    <3>2. Max(common) \in common
      <4> HIDE DEF common
      <4> QED BY <2>2, <3>1, MaxFacts
    <3> DEFINE k == Max(common)
    <3>3. k \in DOMAIN syn /\ syn[k] \in Range(chain)
      BY <3>2 DEF IsIncluded
    <3> HIDE DEF k
    <3>4. PICK i \in DOMAIN chain : chain[i] = syn[k]
      BY <3>3 DEF Range
    <3>5. Len(Chain[syn[k]]) = i
      BY <1>2, <3>4 DEF Lineage
    <3>6. from = i
      BY <2>2, <3>5 DEF Num, k
    <3> HIDE DEF from
    <3>7. syn[k] \in Range(syn)
      BY <3>3 DEF Range
    <3> QED BY <1>2, <3>4, <3>6, <3>7
  <2> QED BY <2>1, <2>2
<1> HIDE DEF chain, common, from
<1>4. /\ after \in Seq(Blocks) /\ Len(after) = (IF from <= n THEN n - from + 1 ELSE 0)
      /\ \A i \in 1..Len(after) : after[i] = chain[from + i - 1]
  BY <1>2, <1>3
<1>5. Limit \in Nat /\ Limit >= 1
  BY BoundAssumption
<1>6. Len(after) \in Nat /\ count \in 0..Len(after) /\ (Len(after) # 0 => count # 0)
  BY <1>4, <1>5
<1> HIDE DEF after, n
<1>7. Len(after) - count \in Nat
  BY <1>6
<1> HIDE DEF count
<1>8. h \in Seq(Blocks) /\ Len(h) = count /\ \A i \in 1..count : h[i] = after[i]
  BY <1>4, <1>6
<1> HIDE DEF h
<1>9. m \in Ids
  BY <1>1, <1>7, <1>8 DEF Ids
<1>10. ASSUME NEW i \in 1..count PROVE h[i] = chain[from + i - 1]
  <2>1. i \in 1..Len(after)
    BY <1>6
  <2> QED BY <1>4, <1>8, <2>1
<1>11. \A i \in 1..count : from + i - 1 \in 1..n
  BY <1>2, <1>3, <1>4, <1>6
<1>12. Segment(h)
  <2> SUFFICES ASSUME NEW i \in 1..(Len(h) - 1) PROVE Prev[h[i + 1]] = h[i]
    BY DEF Segment
  <2>1. i \in 1..count /\ i + 1 \in 1..count
    BY <1>6, <1>8
  <2>2. h[i] = chain[from + i - 1] /\ h[i + 1] = chain[(from + i - 1) + 1]
    <3>1. from + (i + 1) - 1 = (from + i - 1) + 1
      BY <1>3
    <3> QED BY <1>10, <2>1, <3>1
  <2>3. from + i - 1 \in 1..(n - 1)
    <3>1. from + (i + 1) - 1 \in 1..n /\ from + i - 1 \in 1..n
      BY <1>11, <2>1
    <3> QED BY <1>2, <1>3, <3>1
  <2>4. \A j \in 1..(n - 1) : Prev[chain[j + 1]] = chain[j]
    BY <1>2 DEF Lineage, Segment, n
  <2> QED BY <2>2, <2>3, <2>4
<1>13. h = << >> => Len(after) - count = 0
  BY <1>6, <1>8
<1>14. ASSUME h # << >>
       PROVE  /\ Prev[h[1]] = 0 \/ h[1] \in Range(syn)
              /\ h[Len(h)] + (Len(after) - count) <= NBlocks
  <2>1. count \in 1..Len(after) /\ 1 \in 1..count /\ count \in 1..count
    BY <1>6, <1>8, <1>14
  <2>2. from <= n /\ Len(after) = n - from + 1
    BY <1>2, <1>3, <1>4, <2>1
  <2>3. h[1] = chain[from]
    <3>1. from + 1 - 1 = from
      BY <1>3
    <3> QED BY <1>10, <2>1, <3>1
  <2> DEFINE j == from + count - 1
  <2>4. h[Len(h)] = chain[j] /\ j \in 1..n
    BY <1>8, <1>10, <1>11, <2>1
  <2>5. Segment(chain) /\ n \in DOMAIN chain /\ j \in DOMAIN chain /\ j <= n
    BY <1>2, <1>3, <2>2, <2>4 DEF Lineage
  <2>6. chain[j] + (n - j) <= chain[n]
    <3> HIDE DEF j
    <3> QED BY <1>2, <2>5, SegmentSpacing
  <2>7. chain[n] \in Blocks /\ chain[j] \in Blocks
    BY <1>2, <2>5
  <2>8. chain[n] <= NBlocks /\ chain[n] \in Int /\ chain[j] \in Int
    BY <2>7, BlockAssumption DEF Blocks
  <2>9. n - j = Len(after) - count
    BY <1>2, <1>3, <2>1, <2>2
  <2> HIDE DEF j
  <2>10. chain[j] + (Len(after) - count) <= NBlocks
    <3>1. NBlocks \in Int /\ n - j \in Int
      BY <1>2, <2>4, BlockAssumption
    <3> QED BY <2>6, <2>8, <2>9, <3>1
  <2> QED BY <1>3, <2>2, <2>3, <2>4, <2>10
<1>15. ASSUME NEW L, NEW I, Range(syn) \subseteq L \cup I PROVE Answer(m, L, I)
  <2>1. h # << >> => Prev[h[1]] = 0 \/ h[1] \in L \cup I
    BY <1>14, <1>15
  <2> QED BY <1>1, <1>12, <1>13, <1>14, <2>1 DEF Answer
<1> QED BY <1>9, <1>15

-----------------------------------------------------------------------------
(* States of a node that differ in little.                                 *)

\* What the invariant of a node says of, connections and queues apart.
Same(s, t) ==
  /\ t.head = s.head /\ t.stored = s.stored /\ t.known = s.known /\ t.recent = s.recent
  /\ t.blamed = s.blamed /\ t.plan = s.plan /\ t.activeRequests = s.activeRequests
  /\ t.received = s.received /\ t.toFetch = s.toFetch

\* d asks for no more than c.
Lesser(c, d) ==
  /\ d.syncRequested \subseteq c.syncRequested /\ d.itemsRequested \subseteq c.itemsRequested
  /\ d.status = "active" /\ d.itemsRequested # {} => c.status = "active"

\* A state is good if it has the invariant together with what comes in, R.
Good(n, s, R) ==
  /\ NodeInv(n, s)
  /\ R \in [Peers(n) -> Queues]
  /\ \A p \in Peers(n) : Pair(s.conn[p], Linked(s), s.out[p], R[p])

\* t is good, and on the way from s nothing that is asked for has been sent.
Leads(n, s, t, R) ==
  Good(n, t, R) /\ \A p \in Peers(n) : Quiet(s.out[p], t.out[p])

\* The fields of a state that the lemmas use.
LEMMA StateFields ==
  ASSUME NEW n, NEW s \in State(n)
  PROVE  /\ s.head \in 0..NBlocks /\ s.stored \subseteq Blocks /\ s.known \subseteq Blocks
         /\ s.conn \in [Peers(n) -> Conns] /\ s.out \in [Peers(n) -> Queues]
         /\ \A p \in Peers(n) : s.conn[p] \in Conns /\ s.out[p] \in Seq(Messages)
         /\ s.received \in Seq(Blocks) /\ s.toFetch \in Seq(Items) /\ s.plan \in Plans(n)
         /\ s.activeRequests \subseteq Blocks /\ s.recent \subseteq 0..NBlocks
         /\ DOMAIN s.conn = Peers(n) /\ DOMAIN s.out = Peers(n)
BY DEF State, Queues

\* What is linked depends on what is stored.
LEMMA SameLinked ==
  ASSUME NEW s, NEW t, t.stored = s.stored
  PROVE  Linked(t) = Linked(s)
BY DEF Linked

\* A good state stays so if every connection does, and less is asked for.
LEMMA GoodEnds ==
  ASSUME NEW n, NEW s, NEW t \in State(n), NEW R, NEW R2 \in [Peers(n) -> Queues],
         Good(n, s, R), Stock(t), t.blamed = {},
         t.plan = s.plan, t.activeRequests = s.activeRequests, t.toFetch = s.toFetch,
         Range(t.received) \subseteq Range(s.received),
         \A p \in Peers(n) : /\ Lesser(s.conn[p], t.conn[p])
                             /\ ConnInv(t.conn[p], Pending(t, p), Linked(t))
                             /\ Pair(t.conn[p], Linked(t), t.out[p], R2[p])
  PROVE  Good(n, t, R2)
<1>1. s \in State(n) /\ Requests(s) /\ Offers(s)
  BY DEF Good, NodeInv
<1>2. DOMAIN s.conn = Peers(n) /\ DOMAIN t.conn = Peers(n)
  BY <1>1, StateFields
<1>3. Requests(t)
  BY <1>1, <1>2 DEF Requests, Lesser
<1>4. \A p \in Active(t) : t.conn[p].itemsRequested # {} => p \in Active(s)
  BY <1>2 DEF Active, Lesser
<1>5. \A p \in Active(t) : t.conn[p].itemsRequested \subseteq s.conn[p].itemsRequested
  BY <1>2 DEF Active, Lesser
<1>6. Offers(t)
  <2>1. \A i, j \in DOMAIN t.toFetch : i # j => t.toFetch[i] # t.toFetch[j]
    BY <1>1 DEF Offers
  <2>2. ASSUME NEW p \in Active(t) PROVE t.conn[p].itemsRequested \cap Range(t.toFetch) = {}
    BY <1>1, <1>4, <1>5 DEF Offers
  <2>3. ASSUME NEW p \in Active(t), NEW q \in Active(t), p # q
        PROVE  t.conn[p].itemsRequested \cap t.conn[q].itemsRequested = {}
    <3>1. CASE t.conn[p].itemsRequested = {} \/ t.conn[q].itemsRequested = {}
      BY <3>1
    <3>2. CASE t.conn[p].itemsRequested # {} /\ t.conn[q].itemsRequested # {}
      <4>1. p \in Active(s) /\ q \in Active(s)
        BY <1>4, <3>2
      <4>2. s.conn[p].itemsRequested \cap s.conn[q].itemsRequested = {}
        BY <1>1, <2>3, <4>1 DEF Offers
      <4> QED BY <1>5, <4>2
    <3> QED BY <3>1, <3>2
  <2> QED BY <2>1, <2>2, <2>3 DEF Offers
<1> QED BY <1>3, <1>6 DEF Good, NodeInv

\* A connection asks for no more than it does itself.
LEMMA LesserSame ==
  ASSUME NEW c PROVE Lesser(c, c)
BY DEF Lesser

\* The same when one connection changes.
LEMMA GoodEnd ==
  ASSUME NEW n, NEW s, NEW t \in State(n), NEW R, NEW R2 \in [Peers(n) -> Queues], NEW p \in Peers(n),
         Good(n, s, R), Same(s, t),
         \A q \in Peers(n) : q # p => t.conn[q] = s.conn[q] /\ t.out[q] = s.out[q] /\ R2[q] = R[q],
         Lesser(s.conn[p], t.conn[p]),
         ConnInv(t.conn[p], Pending(t, p), Linked(t)),
         Pair(t.conn[p], Linked(t), t.out[p], R2[p])
  PROVE  Good(n, t, R2)
<1>1. Linked(t) = Linked(s)
  BY SameLinked DEF Same
<1>2. Stock(t) /\ t.blamed = {}
  BY <1>1 DEF Good, NodeInv, Stock, Same
<1>3. ASSUME NEW q \in Peers(n), q # p
      PROVE  /\ Lesser(s.conn[q], t.conn[q])
             /\ ConnInv(t.conn[q], Pending(t, q), Linked(t))
             /\ Pair(t.conn[q], Linked(t), t.out[q], R2[q])
  <2>1. Pending(t, q) = Pending(s, q)
    BY <1>3 DEF Pending, Same
  <2>2. ConnInv(s.conn[q], Pending(s, q), Linked(s)) /\ Pair(s.conn[q], Linked(s), s.out[q], R[q])
    BY DEF Good, NodeInv
  <2> QED BY <1>1, <1>3, <2>1, <2>2, LesserSame
<1>4. \A q \in Peers(n) : /\ Lesser(s.conn[q], t.conn[q])
                          /\ ConnInv(t.conn[q], Pending(t, q), Linked(t))
                          /\ Pair(t.conn[q], Linked(t), t.out[q], R2[q])
  BY <1>3
<1>5. t.plan = s.plan /\ t.activeRequests = s.activeRequests /\ t.toFetch = s.toFetch /\ t.received = s.received
  BY DEF Same
<1> QED BY <1>2, <1>4, <1>5, GoodEnds

\* t comes from s by a message to p.
Sent(n, s, t, p, m) ==
  /\ t \in State(n) /\ Same(s, t) /\ t.conn = s.conn
  /\ t.out[p] = Append(s.out[p], m)
  /\ \A q \in Peers(n) : q # p => t.out[q] = s.out[q]

\* Send changes one queue.
LEMMA SendFacts ==
  ASSUME NEW n, NEW s \in State(n), NEW p \in Peers(n), NEW m \in Messages
  PROVE  Sent(n, s, Send(s, p, m), p, m)
<1> DEFINE t == Send(s, p, m)
<1>1. Append(s.out[p], m) \in Queues
  BY DEF State, Queues
<1>2. t \in State(n)
  BY <1>1 DEF State, Send
<1>3. Same(s, t) /\ t.conn = s.conn
  BY DEF State, Send, Same
<1>4. t.out[p] = Append(s.out[p], m) /\ \A q \in Peers(n) : q # p => t.out[q] = s.out[q]
  BY DEF State, Send
<1> HIDE DEF t
<1> QED BY <1>2, <1>3, <1>4 DEF Sent, t

\* t comes from s by a change of the connection to p, which becomes d.
Changed(n, s, t, p, d) ==
  /\ t \in State(n) /\ Same(s, t) /\ t.out = s.out
  /\ t.conn[p] = d
  /\ \A q \in Peers(n) : q # p => t.conn[q] = s.conn[q]

\* Replacing one connection changes nothing else.
LEMMA ChangeFacts ==
  ASSUME NEW n, NEW s \in State(n), NEW p \in Peers(n), NEW d \in Conns
  PROVE  Changed(n, s, [s EXCEPT !.conn[p] = d], p, d)
<1> DEFINE t == [s EXCEPT !.conn[p] = d]
<1>1. t \in State(n)
  BY DEF State
<1>2. Same(s, t) /\ t.out = s.out
  BY DEF State, Same
<1>3. t.conn[p] = d /\ \A q \in Peers(n) : q # p => t.conn[q] = s.conn[q]
  BY DEF State
<1> HIDE DEF t
<1> QED BY <1>1, <1>2, <1>3 DEF Changed, t

-----------------------------------------------------------------------------
(* Asking a peer for the ids of its blocks.                                *)

\* The end of the connection to p is in order, rep being what comes in.
EndInv(s, p, rep) ==
  /\ ConnInv(s.conn[p], Pending(s, p), Linked(s))
  /\ Pair(s.conn[p], Linked(s), s.out[p], rep)

\* v comes from u by what is done and sent at the connection to p only.
Ended(n, u, v, p, rep) ==
  /\ v \in State(n) /\ Same(u, v)
  /\ \A q \in Peers(n) : q # p => v.conn[q] = u.conn[q] /\ v.out[q] = u.out[q]
  /\ Lesser(u.conn[p], v.conn[p])
  /\ EndInv(v, p, rep)
  /\ Quiet(u.out[p], v.out[p])

\* Every connection of a good state has its part of the invariant.
LEMMA GoodEndInv ==
  ASSUME NEW n, NEW s, NEW R, Good(n, s, R), NEW p \in Peers(n)
  PROVE  s \in State(n) /\ Stock(s) /\ EndInv(s, p, R[p])
BY DEF Good, NodeInv, EndInv

\* A good state stays so when only one connection goes on.
LEMMA EndedGood ==
  ASSUME NEW n, NEW s, NEW t, NEW R, NEW p \in Peers(n), Good(n, s, R), Ended(n, s, t, p, R[p])
  PROVE  Leads(n, s, t, R)
<1>1. Good(n, t, R)
  <2>1. R \in [Peers(n) -> Queues]
    BY DEF Good
  <2> QED BY <2>1, GoodEnd DEF Ended, EndInv
<1>2. ASSUME NEW q \in Peers(n) PROVE Quiet(s.out[q], t.out[q])
  <2>1. CASE q = p
    BY <2>1 DEF Ended
  <2>2. CASE q # p
    BY <2>2, QuietSame DEF Ended
  <2> QED BY <2>1, <2>2
<1> QED BY <1>1, <1>2 DEF Leads

\* Lesser is transitive.
LEMMA LesserTwice ==
  ASSUME NEW c, NEW d, NEW e, Lesser(c, d), Lesser(d, e)
  PROVE  Lesser(c, e)
BY DEF Lesser

\* There is a first request for ids, or one for more.
MayAsk(s, p) ==
  LET c == s.conn[p] IN
  /\ c.status = "active" /\ c.weNeed /\ ~c.idsRequested
  /\ c.ids = << >> \/ c.unfetched # 0
  /\ Pending(s, p) = {}

\* What is asked of p depends on the plan and on the connection to p.
LEMMA PendingSame ==
  ASSUME NEW s, NEW t, NEW p, t.plan = s.plan, t.conn[p].syncRequested = s.conn[p].syncRequested
  PROVE  Pending(t, p) = Pending(s, p)
BY DEF Pending

\* fetch_next_batch_of_item_ids_from_peer, called while no request for ids is out
LEMMA FetchEnd ==
  ASSUME NEW n, NEW s \in State(n), NEW p \in Peers(n), NEW rep \in Seq(Messages),
         Stock(s), EndInv(s, p, rep), MayAsk(s, p), NEW v, v = FetchNextBatch(s, p)
  PROVE  Ended(n, s, v, p, rep)
<1> DEFINE c == s.conn[p]
           d == [c EXCEPT !.idsRequested = TRUE]
           u == [s EXCEPT !.conn[p] = d]
           m == [type |-> "fetch_ids", synopsis |-> Synopsis(s, c)]
<1>1. c \in Conns /\ s.out[p] \in Seq(Messages) /\ s.stored \subseteq Blocks
  BY StateFields
<1>2. Synopsis(s, c) \in Seq(Blocks) /\ Range(Synopsis(s, c)) \subseteq Linked(s) \cup Range(c.ids)
  <2> HIDE DEF c
  <2> QED BY <1>1, SynopsisFacts DEF Stock
<1>3. m \in FetchIds /\ m \in Messages /\ m.type = "fetch_ids" /\ m.synopsis = Synopsis(s, c)
  BY <1>2, KindTypes DEF FetchIds
<1>4. /\ d \in Conns /\ d.idsRequested = TRUE /\ d.status = c.status /\ d.ids = c.ids /\ d.unfetched = c.unfetched
      /\ d.weNeed = c.weNeed /\ d.syncRequested = c.syncRequested /\ d.itemsRequested = c.itemsRequested
  <2> HIDE DEF c
  <2> QED BY <1>1 DEF Conns
<1>5. v = Send(u, p, m)
  <2>1. [s EXCEPT !.conn[p].idsRequested = TRUE] = u
    BY DEF State, Conns
  <2> HIDE DEF u, d
  <2> QED BY <2>1 DEF FetchNextBatch
<1> HIDE DEF c, d, m
<1>6. u \in State(n) /\ Same(s, u) /\ u.out = s.out /\ u.conn[p] = d
      /\ \A q \in Peers(n) : q # p => u.conn[q] = s.conn[q]
  BY <1>4, ChangeFacts DEF Changed
<1> HIDE DEF u
<1>7. v \in State(n) /\ Same(u, v) /\ v.conn = u.conn /\ v.out[p] = Append(u.out[p], m)
      /\ \A q \in Peers(n) : q # p => v.out[q] = u.out[q]
  <2>1. Sent(n, u, Send(u, p, m), p, m)
    BY <1>3, <1>6, SendFacts
  <2> QED BY <1>5, <2>1 DEF Sent
<1>8. Same(s, v) /\ \A q \in Peers(n) : q # p => v.conn[q] = s.conn[q] /\ v.out[q] = s.out[q]
  BY <1>6, <1>7 DEF Same
<1>9. v.conn[p] = d /\ v.out[p] = Append(s.out[p], m)
  BY <1>6, <1>7
<1>10. Linked(v) = Linked(s)
  BY <1>8, SameLinked DEF Same
<1>11. Pending(v, p) = Pending(s, p) /\ Pending(s, p) = {}
  <2>1. v.plan = s.plan /\ v.conn[p].syncRequested = s.conn[p].syncRequested
    BY <1>4, <1>8, <1>9 DEF Same, c
  <2> QED BY <2>1, PendingSame DEF MayAsk
<1>12. ConnInv(d, {}, Linked(s))
  BY <1>4, <1>11 DEF ConnInv, EndInv, MayAsk, c
<1>13. Pair(d, Linked(s), Append(s.out[p], m), rep)
  <2>1. Pair(c, Linked(s), s.out[p], rep)
    BY DEF EndInv, c
  <2>2. c.idsRequested = FALSE
    BY <1>1 DEF MayAsk, c, Conns
  <2> QED BY <1>1, <1>2, <1>3, <1>4, <2>1, <2>2, PairAsksIds
<1>14. Quiet(s.out[p], v.out[p])
  BY <1>1, <1>3, <1>9, QuietAppend
<1>15. Lesser(s.conn[p], v.conn[p])
  BY <1>4, <1>9 DEF Lesser, c
<1> QED BY <1>7, <1>8, <1>9, <1>10, <1>11, <1>12, <1>13, <1>14, <1>15 DEF Ended, EndInv

\* Nothing is left to get from p, and nothing is asked of it.
Idle(s, p) ==
  LET c == s.conn[p] IN
  /\ c.status = "active" /\ ~c.idsRequested /\ c.ids = << >> /\ c.unfetched = 0

\* start_synchronizing_with_peer, called while the peer has nothing to get
LEMMA StartEnd ==
  ASSUME NEW n, NEW s \in State(n), NEW p \in Peers(n), NEW rep \in Seq(Messages),
         Stock(s), EndInv(s, p, rep), Idle(s, p), NEW v, v = StartSynchronizing(s, p)
  PROVE  Ended(n, s, v, p, rep)
<1> DEFINE c == s.conn[p]
           d == [c EXCEPT !.weNeed = TRUE, !.lastSeen = 0, !.lastNum = 0]
           u == [s EXCEPT !.conn[p] = d]
<1>1. c \in Conns
  BY StateFields
<1>2. /\ d \in Conns /\ d.weNeed = TRUE /\ d.idsRequested = c.idsRequested /\ d.status = c.status /\ d.ids = c.ids
      /\ d.unfetched = c.unfetched /\ d.syncRequested = c.syncRequested /\ d.itemsRequested = c.itemsRequested
  <2> HIDE DEF c
  <2>1. 0 \in 0..NBlocks /\ 0 \in Nat
    BY BlockAssumption
  <2> QED BY <1>1, <2>1 DEF Conns
<1>3. v = FetchNextBatch(u, p)
  <2>1. [s EXCEPT !.conn[p].weNeed = TRUE, !.conn[p].lastSeen = 0, !.conn[p].lastNum = 0] = u
    BY DEF State, Conns
  <2> HIDE DEF u, d
  <2> QED BY <2>1 DEF StartSynchronizing
<1> HIDE DEF c, d
<1>4. u \in State(n) /\ Same(s, u) /\ u.out = s.out /\ u.conn[p] = d
      /\ \A q \in Peers(n) : q # p => u.conn[q] = s.conn[q]
  BY <1>2, ChangeFacts DEF Changed
<1> HIDE DEF u
<1>5. Linked(u) = Linked(s) /\ Stock(u)
  BY <1>4, SameLinked DEF Same, Stock
<1>6. Pending(u, p) = Pending(s, p)
  <2>1. u.plan = s.plan /\ u.conn[p].syncRequested = s.conn[p].syncRequested
    BY <1>2, <1>4 DEF Same, c
  <2> QED BY <2>1, PendingSame
<1>7. Pending(s, p) = {}
  <2>1. Range(<< >>) = {}
    BY DEF Range
  <2> QED BY <2>1 DEF EndInv, ConnInv, Idle
<1>8. ConnInv(d, Pending(s, p), Linked(s))
  BY <1>2, <1>7 DEF ConnInv, EndInv, Idle, c
<1>9. Pair(d, Linked(s), s.out[p], rep)
  <2>1. Pair(c, Linked(s), s.out[p], rep)
    BY DEF EndInv, c
  <2>2. Follows(c, d, Linked(s)) /\ Greets(d, rep)
    BY <1>2, <2>1 DEF Follows, Pair, Greets
  <2> QED BY <2>1, <2>2, PairGrows
<1>10. EndInv(u, p, rep)
  BY <1>4, <1>5, <1>6, <1>8, <1>9 DEF EndInv
<1>11. MayAsk(u, p)
  BY <1>2, <1>4, <1>6, <1>7 DEF MayAsk, Idle, c
<1>12. Ended(n, u, v, p, rep)
  BY <1>3, <1>4, <1>5, <1>10, <1>11, FetchEnd
<1>13. Same(s, v) /\ \A q \in Peers(n) : q # p => v.conn[q] = s.conn[q] /\ v.out[q] = s.out[q]
  BY <1>4, <1>12 DEF Ended, Same
<1>14. Lesser(s.conn[p], u.conn[p])
  BY <1>2, <1>4 DEF Lesser, c
<1>15. Lesser(s.conn[p], v.conn[p])
  BY <1>12, <1>14, LesserTwice DEF Ended
<1>16. Quiet(s.out[p], v.out[p])
  BY <1>4, <1>12 DEF Ended
<1> QED BY <1>12, <1>13, <1>15, <1>16 DEF Ended

-----------------------------------------------------------------------------
(* Messages: n reads the first message of R[p], and has R2 before it then. *)

Reads(n, s, p, R, R2) ==
  /\ Good(n, s, R) /\ p \in Peers(n) /\ s.conn[p].status # "closed"
  /\ R[p] # << >> /\ R2 = [R EXCEPT ![p] = Tail(R[p])]

\* What the invariant says of a connection that is read from.
LEMMA ReadsFacts ==
  ASSUME NEW n, NEW s, NEW p, NEW R, NEW R2, Reads(n, s, p, R, R2)
  PROVE  /\ R[p] \in Seq(Messages) /\ R[p] # << >> /\ R[p][1] \in Messages
         /\ R2 \in [Peers(n) -> Queues] /\ R2[p] = Tail(R[p]) /\ R2[p] \in Seq(Messages)
         /\ \A q \in Peers(n) : q # p => R2[q] = R[q]
         /\ \A i \in DOMAIN R2[p] : R2[p][i].type # "address"
         /\ s \in State(n) /\ Stock(s) /\ s.conn[p] \in Conns
         /\ ConnInv(s.conn[p], Pending(s, p), Linked(s))
         /\ Pair(s.conn[p], Linked(s), s.out[p], R[p])
<1>1. R[p] \in Seq(Messages) /\ R \in [Peers(n) -> Queues] /\ p \in Peers(n)
  BY DEF Reads, Good, Queues
<1>2. R[p] # << >>
  BY DEF Reads
<1>3. R[p][1] \in Messages /\ Tail(R[p]) \in Seq(Messages)
  BY <1>1, <1>2, TailFacts
<1>4. R2 \in [Peers(n) -> Queues] /\ R2[p] = Tail(R[p]) /\ \A q \in Peers(n) : q # p => R2[q] = R[q]
  BY <1>1, <1>3 DEF Reads, Queues
<1>5. s \in State(n) /\ Stock(s) /\ EndInv(s, p, R[p])
  BY <1>1, GoodEndInv DEF Reads
<1>6. s.conn[p] \in Conns
  BY <1>1, <1>5, StateFields
<1>7. \A i \in DOMAIN Tail(R[p]) : Tail(R[p])[i].type # "address"
  <2>1. Greets(s.conn[p], R[p])
    BY <1>5 DEF EndInv, Pair
  <2> QED BY <1>1, <1>2, <2>1, TailFacts DEF Greets
<1>8. ConnInv(s.conn[p], Pending(s, p), Linked(s)) /\ Pair(s.conn[p], Linked(s), s.out[p], R[p])
  BY <1>5 DEF EndInv
<1> QED BY <1>1, <1>2, <1>3, <1>4, <1>5, <1>6, <1>7, <1>8

\* The connection becomes d when a message is read.
LEMMA ReadChanges ==
  ASSUME NEW n, NEW s, NEW p, NEW R, NEW R2, Reads(n, s, p, R, R2), NEW d \in Conns,
         NEW t, Changed(n, s, t, p, d),
         Lesser(s.conn[p], d), ConnInv(d, Pending(t, p), Linked(s)),
         Pair(d, Linked(s), s.out[p], R2[p])
  PROVE  Leads(n, s, t, R2)
<1>1. t \in State(n) /\ Same(s, t) /\ t.out = s.out /\ t.conn[p] = d
      /\ \A q \in Peers(n) : q # p => t.conn[q] = s.conn[q]
  BY DEF Changed
<1>2. Linked(t) = Linked(s)
  BY <1>1, SameLinked DEF Same
<1>3. R2 \in [Peers(n) -> Queues] /\ \A q \in Peers(n) : q # p => R2[q] = R[q]
  BY ReadsFacts
<1>4. Good(n, s, R) /\ p \in Peers(n)
  BY DEF Reads
<1>5. Good(n, t, R2)
  BY <1>1, <1>2, <1>3, <1>4, GoodEnd
<1>6. \A q \in Peers(n) : Quiet(s.out[q], t.out[q])
  BY <1>1, QuietSame
<1> QED BY <1>5, <1>6 DEF Leads

\* The handshake ends.
LEMMA AddressReads ==
  ASSUME NEW n, NEW s, NEW p, NEW R, NEW R2, Reads(n, s, p, R, R2), NEW x \in {"active", "closed"},
         x = "active" => s.conn[p].status = "handshaking",
         NEW t, t = [s EXCEPT !.conn[p].status = x]
  PROVE  /\ Leads(n, s, t, R2) /\ t.out = s.out
         /\ x = "active" => Idle(t, p)
<1> DEFINE c == s.conn[p]
           d == [c EXCEPT !.status = x]
<1>1. /\ c \in Conns /\ s \in State(n) /\ p \in Peers(n)
      /\ R[p] \in Seq(Messages) /\ R[p] # << >> /\ R2[p] = Tail(R[p])
      /\ ConnInv(c, Pending(s, p), Linked(s)) /\ Pair(c, Linked(s), s.out[p], R[p])
      /\ s.out[p] \in Seq(Messages)
  <2>1. p \in Peers(n)
    BY DEF Reads
  <2>2. /\ c \in Conns /\ s \in State(n)
        /\ R[p] \in Seq(Messages) /\ R[p] # << >> /\ R2[p] = Tail(R[p])
        /\ ConnInv(c, Pending(s, p), Linked(s)) /\ Pair(c, Linked(s), s.out[p], R[p])
    BY ReadsFacts
  <2>3. s.out[p] \in Seq(Messages)
    BY <2>1, <2>2, StateFields
  <2> QED BY <2>1, <2>2, <2>3
<1>2. t = [s EXCEPT !.conn[p] = d]
  BY <1>1 DEF State, Conns
<1> HIDE DEF c
<1>3. /\ d \in Conns /\ d.weNeed = c.weNeed /\ d.idsRequested = c.idsRequested /\ d.status = x /\ d.ids = c.ids
      /\ d.unfetched = c.unfetched /\ d.syncRequested = c.syncRequested /\ d.itemsRequested = c.itemsRequested
  BY <1>1 DEF Conns
<1> HIDE DEF d
<1>4. Changed(n, s, t, p, d)
  BY <1>1, <1>2, <1>3, ChangeFacts
<1>5. Lesser(c, d)
  BY <1>1, <1>3 DEF Lesser, ConnInv, c
<1>6. Pending(t, p) = Pending(s, p)
  <2>1. t.plan = s.plan /\ t.conn[p].syncRequested = s.conn[p].syncRequested
    BY <1>3, <1>4 DEF Changed, Same, c
  <2> QED BY <2>1, PendingSame
<1>7. ConnInv(d, Pending(s, p), Linked(s))
  BY <1>1, <1>3 DEF ConnInv
<1>8. Pair(d, Linked(s), s.out[p], R2[p])
  <2>1. Follows(c, d, Linked(s))
    BY <1>3 DEF Follows
  <2> QED BY <1>1, <2>1, PairReads
<1>9. Leads(n, s, t, R2)
  BY <1>3, <1>4, <1>5, <1>6, <1>7, <1>8, ReadChanges DEF c
<1>10. t.out = s.out /\ t.conn[p] = d
  BY <1>4 DEF Changed
<1>11. x = "active" => Idle(t, p)
  BY <1>1, <1>3, <1>10 DEF Idle, ConnInv, c
<1> QED BY <1>9, <1>10, <1>11

\* on_address_message
LEMMA OnAddressFacts ==
  ASSUME NEW n, NEW s, NEW p, NEW R, NEW R2, Reads(n, s, p, R, R2), R[p][1].type = "address"
  PROVE  Leads(n, s, OnAddress(s, p), R2)
<1> DEFINE t == [s EXCEPT !.conn[p].status = "active"]
           v == StartSynchronizing(t, p)
<1>1. s.conn[p].status = "handshaking"
  <2>1. Greets(s.conn[p], R[p]) /\ 1 \in DOMAIN R[p]
    BY ReadsFacts DEF Pair
  <2> QED BY <2>1 DEF Greets
<1>2. Leads(n, s, t, R2) /\ t.out = s.out /\ Idle(t, p)
  BY <1>1, AddressReads
<1> HIDE DEF t
<1>3. Good(n, t, R2) /\ p \in Peers(n) /\ R2[p] \in Seq(Messages)
  BY <1>2, ReadsFacts DEF Leads, Reads
<1>4. t \in State(n) /\ Stock(t) /\ EndInv(t, p, R2[p])
  BY <1>3, GoodEndInv
<1>5. Ended(n, t, v, p, R2[p])
  BY <1>2, <1>3, <1>4, StartEnd
<1>6. Leads(n, t, v, R2)
  BY <1>3, <1>5, EndedGood
<1>7. Leads(n, s, v, R2)
  BY <1>2, <1>6 DEF Leads
<1> QED BY <1>7 DEF OnAddress, t

\* Connections that differ in what the invariant does not look at.
Alike(c, d) ==
  /\ d.status = c.status /\ d.ids = c.ids /\ d.unfetched = c.unfetched /\ d.weNeed = c.weNeed
  /\ d.idsRequested = c.idsRequested /\ d.syncRequested = c.syncRequested
  /\ d.itemsRequested = c.itemsRequested

\* Connections that are alike have the same parts of the invariant.
LEMMA AlikeFacts ==
  ASSUME NEW c, NEW d, Alike(c, d), NEW P, NEW L, NEW req, NEW rep
  PROVE  /\ Lesser(c, d)
         /\ ConnInv(c, P, L) => ConnInv(d, P, L)
         /\ Pair(c, L, req, rep) => Pair(d, L, req, rep)
<1>1. Lesser(c, d)
  BY DEF Alike, Lesser
<1>2. ConnInv(c, P, L) => ConnInv(d, P, L)
  BY DEF Alike, ConnInv
<1>3. Pair(c, L, req, rep) => Pair(d, L, req, rep)
  BY DEF Alike, Pair, Greets, IdsUnderWay, ItemsUnderWay, Asked, Told
<1> QED BY <1>1, <1>2, <1>3

\* A message whose handler changes nothing that the invariant looks at.
LEMMA ReadAlike ==
  ASSUME NEW n, NEW s, NEW p, NEW R, NEW R2, Reads(n, s, p, R, R2), NEW d \in Conns,
         Alike(s.conn[p], d), NEW t, t = [s EXCEPT !.conn[p] = d]
  PROVE  Leads(n, s, t, R2) /\ Changed(n, s, t, p, d)
<1> DEFINE c == s.conn[p]
<1>1. p \in Peers(n)
  BY DEF Reads
<1>2. /\ s \in State(n) /\ R[p] \in Seq(Messages) /\ R[p] # << >> /\ R2[p] = Tail(R[p])
      /\ ConnInv(c, Pending(s, p), Linked(s)) /\ Pair(c, Linked(s), s.out[p], R[p])
  BY ReadsFacts
<1>3. s.out[p] \in Seq(Messages)
  BY <1>1, <1>2, StateFields
<1>4. Changed(n, s, t, p, d)
  BY <1>1, <1>2, ChangeFacts
<1>5. Pending(t, p) = Pending(s, p)
  <2>1. t.plan = s.plan /\ t.conn[p].syncRequested = s.conn[p].syncRequested
    BY <1>4 DEF Changed, Same, Alike
  <2> QED BY <2>1, PendingSame
<1>6. Pair(c, Linked(s), s.out[p], R2[p])
  <2>1. Follows(c, c, Linked(s))
    BY DEF Follows
  <2> HIDE DEF c
  <2> QED BY <1>2, <1>3, <2>1, PairReads
<1>7. /\ Lesser(c, d) /\ ConnInv(d, Pending(s, p), Linked(s)) /\ Pair(d, Linked(s), s.out[p], R2[p])
  BY <1>2, <1>6, AlikeFacts
<1>8. Leads(n, s, t, R2)
  BY <1>4, <1>5, <1>7, ReadChanges
<1> QED BY <1>4, <1>8

\* A message that changes nothing.
LEMMA ReadNothing ==
  ASSUME NEW n, NEW s, NEW p, NEW R, NEW R2, Reads(n, s, p, R, R2)
  PROVE  Leads(n, s, s, R2)
<1>1. p \in Peers(n) /\ s \in State(n) /\ s.conn[p] \in Conns
  BY ReadsFacts DEF Reads
<1>2. s = [s EXCEPT !.conn[p] = s.conn[p]]
  BY <1>1 DEF State
<1>3. Alike(s.conn[p], s.conn[p])
  BY DEF Alike
<1> QED BY <1>1, <1>2, <1>3, ReadAlike

\* Two stretches of a handler, one after the other.
LEMMA LeadsTwice ==
  ASSUME NEW n, NEW s, NEW t, NEW u, NEW R, NEW R2, Leads(n, s, t, R), Leads(n, t, u, R2)
  PROVE  Leads(n, s, u, R2)
BY QuietTwice DEF Leads

\* A message that asks for nothing is sent in a good state.
LEMMA GoodSends ==
  ASSUME NEW n, NEW s, NEW R, Good(n, s, R), NEW p \in Peers(n), NEW m \in Messages,
         m.type \notin {"fetch_ids", "fetch"}
  PROVE  Good(n, Send(s, p, m), R) /\ Sent(n, s, Send(s, p, m), p, m)
<1> DEFINE t == Send(s, p, m)
<1>1. s \in State(n) /\ EndInv(s, p, R[p]) /\ R \in [Peers(n) -> Queues]
  BY GoodEndInv DEF Good
<1>2. s.out[p] \in Seq(Messages)
  BY <1>1, StateFields
<1>3. Sent(n, s, t, p, m)
  BY <1>1, SendFacts
<1> HIDE DEF t
<1>4. t \in State(n) /\ Same(s, t) /\ t.conn = s.conn /\ t.out[p] = Append(s.out[p], m)
      /\ \A q \in Peers(n) : q # p => t.out[q] = s.out[q]
  BY <1>3 DEF Sent
<1>5. Linked(t) = Linked(s)
  BY <1>4, SameLinked DEF Same
<1>6. Pending(t, p) = Pending(s, p)
  BY <1>4, PendingSame DEF Same
<1>7. Pair(s.conn[p], Linked(s), Append(s.out[p], m), R[p])
  BY <1>1, <1>2, PairTells DEF EndInv
<1>8. ConnInv(t.conn[p], Pending(t, p), Linked(t)) /\ Pair(t.conn[p], Linked(t), t.out[p], R[p])
  BY <1>1, <1>4, <1>5, <1>6, <1>7 DEF EndInv
<1>9. Lesser(s.conn[p], t.conn[p])
  BY <1>4, LesserSame
<1>10. Good(n, t, R)
  BY <1>1, <1>4, <1>8, <1>9, GoodEnd
<1> QED BY <1>3, <1>10 DEF t

\* t is good, and the answer a is what p gets on the way from s.
Answered(n, s, t, p, R, a) ==
  /\ Good(n, t, R)
  /\ \A q \in Peers(n) : q # p => Quiet(s.out[q], t.out[q])
  /\ \E r \in Seq(Messages) : Quiet(s.out[p], r) /\ Quiet(Append(r, a), t.out[p])

\* The handler goes on after its answer.
LEMMA AnsweredThen ==
  ASSUME NEW n, NEW s, NEW t, NEW u, NEW p \in Peers(n), NEW R, NEW a, Answered(n, s, t, p, R, a), Leads(n, t, u, R)
  PROVE  Answered(n, s, u, p, R, a)
<1>1. \A q \in Peers(n) : q # p => Quiet(s.out[q], u.out[q])
  BY QuietTwice DEF Answered, Leads
<1>2. \E r \in Seq(Messages) : Quiet(s.out[p], r) /\ Quiet(Append(r, a), u.out[p])
  BY QuietTwice DEF Answered, Leads
<1> QED BY <1>1, <1>2 DEF Answered, Leads

\* The handler answers in a good state.
LEMMA AnswerAfter ==
  ASSUME NEW n, NEW s, NEW t, NEW p \in Peers(n), NEW R, NEW a \in Messages, Leads(n, s, t, R),
         a.type \notin {"fetch_ids", "fetch"}
  PROVE  Answered(n, s, Send(t, p, a), p, R, a)
<1> DEFINE u == Send(t, p, a)
<1>1. Good(n, u, R) /\ Sent(n, t, u, p, a)
  BY GoodSends DEF Leads
<1>2. t.out[p] \in Seq(Messages)
  BY StateFields DEF Leads, Good, NodeInv
<1> HIDE DEF u
<1>3. u.out[p] = Append(t.out[p], a) /\ \A q \in Peers(n) : q # p => u.out[q] = t.out[q]
  BY <1>1 DEF Sent
<1>4. Quiet(Append(t.out[p], a), u.out[p])
  BY <1>3, QuietSame
<1>5. \E r \in Seq(Messages) : Quiet(s.out[p], r) /\ Quiet(Append(r, a), u.out[p])
  BY <1>2, <1>4 DEF Leads
<1>6. \A q \in Peers(n) : q # p => Quiet(s.out[q], u.out[q])
  BY <1>3 DEF Leads
<1>7. Answered(n, s, u, p, R, a)
  BY <1>1, <1>5, <1>6 DEF Answered
<1> QED BY <1>7 DEF u

\* The request m for ids has its answer on the way from s to t.
AnswersIds(n, s, t, p, R, m) ==
  \E a \in Ids : /\ Answered(n, s, t, p, R, a)
                 /\ \A L, I : Range(m.synopsis) \subseteq L \cup I => Answer(a, L, I)

\* on_fetch_blockchain_item_ids_message
LEMMA OnFetchIdsFacts ==
  ASSUME NEW n, NEW s, NEW p, NEW R, NEW R2, Reads(n, s, p, R, R2), R[p][1] \in FetchIds
  PROVE  AnswersIds(n, s, OnFetchIds(s, p, R[p][1]), p, R2, R[p][1])
<1> DEFINE m == R[p][1]
           c == s.conn[p]
           reply == GetItemIds(s, m.synopsis)
           a == [type |-> "ids", hashes |-> reply.hashes, remaining |-> reply.remaining]
           inSync == \/ reply.hashes = << >>
                     \/ /\ m.synopsis # << >>
                        /\ reply.hashes = <<Last(m.synopsis)>>
           d == [c EXCEPT !.peerNeeds = ~inSync]
           t == [s EXCEPT !.conn[p] = d]
           restart == /\ ~s.conn[p].weNeed
                      /\ m.synopsis # << >>
                      /\ ~HasItem(s, Last(m.synopsis))
           r == IF restart THEN StartSynchronizing(t, p) ELSE t
           u == Send(r, p, a)
           w == [u EXCEPT !.conn[p].status = "active"]
           first == s.conn[p].inbound /\ s.conn[p].status = "handshaking"
           v == IF first THEN StartSynchronizing(w, p) ELSE u
<1>0. m.synopsis \in Seq(Blocks)
  BY DEF FetchIds
<1>1. p \in Peers(n) /\ c.status # "closed"
  BY DEF Reads
<1>2. /\ s \in State(n) /\ c \in Conns /\ R2[p] \in Seq(Messages)
      /\ ConnInv(c, Pending(s, p), Linked(s))
      /\ \A i \in DOMAIN R2[p] : R2[p][i].type # "address"
  BY ReadsFacts
<1>3. a \in Ids /\ \A L, I : Range(m.synopsis) \subseteq L \cup I => Answer(a, L, I)
  <2>1. s.head \in 0..NBlocks
    BY <1>2, StateFields
  <2> HIDE DEF m
  <2> QED BY <1>0, <2>1, GetItemIdsFacts
<1>4. a \in Messages /\ a.type = "ids"
  BY <1>3, KindTypes DEF Ids
<1>5. OnFetchIds(s, p, m) = v
  <2>1. [s EXCEPT !.conn[p].peerNeeds = ~inSync] = t
    BY <1>1, <1>2 DEF State, Conns
  <2> QED BY <2>1 DEF OnFetchIds
<1>6. d \in Conns /\ Alike(c, d)
  <2> HIDE DEF c
  <2>1. (~inSync) \in BOOLEAN
    OBVIOUS
  <2> HIDE DEF inSync
  <2> QED BY <1>2, <2>1 DEF Conns, Alike
<1> HIDE DEF d, m, reply, a, inSync
<1>7. Leads(n, s, t, R2) /\ Changed(n, s, t, p, d)
  BY <1>6, ReadAlike
<1>8. t.conn[p] = d /\ Good(n, t, R2)
  BY <1>7 DEF Changed, Leads
<1>9. Leads(n, s, r, R2) /\ (c.weNeed => r = t)
  <2> HIDE DEF t
  <2>1. CASE restart
    <3>1. ~c.weNeed
      BY <2>1
    <3>2. c.status = "active"
      BY <1>1, <1>2, <3>1 DEF ConnInv, Conns
    <3>3. Idle(t, p)
      BY <1>2, <1>6, <1>8, <3>1, <3>2 DEF Idle, Alike, ConnInv
    <3>4. t \in State(n) /\ Stock(t) /\ EndInv(t, p, R2[p])
      BY <1>1, <1>8, GoodEndInv
    <3> HIDE DEF restart
    <3>5. r = StartSynchronizing(t, p)
      BY <2>1
    <3> HIDE DEF r
    <3>6. Ended(n, t, r, p, R2[p])
      BY <1>1, <1>2, <3>3, <3>4, <3>5, StartEnd
    <3>7. Leads(n, t, r, R2)
      BY <1>1, <1>8, <3>6, EndedGood
    <3> QED BY <1>7, <3>1, <3>7, LeadsTwice
  <2>2. CASE ~restart
    BY <1>7, <2>2
  <2> QED BY <2>1, <2>2
<1> HIDE DEF r, restart, t
<1>10. Answered(n, s, u, p, R2, a) /\ Good(n, u, R2) /\ Sent(n, r, u, p, a)
  <2>1. Answered(n, s, u, p, R2, a)
    BY <1>1, <1>4, <1>9, AnswerAfter
  <2>2. Good(n, u, R2) /\ Sent(n, r, u, p, a)
    BY <1>1, <1>4, <1>9, GoodSends DEF Leads
  <2> QED BY <2>1, <2>2
<1> HIDE DEF u
<1>11. Answered(n, s, v, p, R2, a)
  <2>1. CASE first
    <3>1. c.weNeed /\ c.status = "handshaking"
      BY <1>2, <2>1 DEF ConnInv
    <3>2. r = t /\ u.conn = t.conn
      BY <1>9, <1>10, <3>1 DEF Sent
    <3>3. u.conn[p] = d /\ d.status = "handshaking"
      BY <1>6, <1>8, <3>1, <3>2 DEF Alike
    <3>4. u \in State(n) /\ Stock(u) /\ EndInv(u, p, R2[p]) /\ R2 \in [Peers(n) -> Queues]
      BY <1>1, <1>10, GoodEndInv DEF Good
    <3> DEFINE e == [d EXCEPT !.status = "active"]
    <3>5. /\ e \in Conns /\ e.weNeed = d.weNeed /\ e.idsRequested = d.idsRequested /\ e.status = "active" /\ e.ids = d.ids
          /\ e.unfetched = d.unfetched /\ e.syncRequested = d.syncRequested /\ e.itemsRequested = d.itemsRequested
      BY <1>6 DEF Conns
    <3>6. w = [u EXCEPT !.conn[p] = e]
      BY <1>1, <3>3, <3>4 DEF State, Conns
    <3> HIDE DEF e, w
    <3>7. Changed(n, u, w, p, e)
      BY <1>1, <3>4, <3>5, <3>6, ChangeFacts
    <3>8. ConnInv(d, Pending(u, p), Linked(u)) /\ Pair(d, Linked(u), u.out[p], R2[p])
      BY <3>3, <3>4 DEF EndInv
    <3>9. Pending(w, p) = Pending(u, p) /\ Linked(w) = Linked(u)
      <4>1. w.plan = u.plan /\ w.stored = u.stored /\ w.conn[p].syncRequested = u.conn[p].syncRequested
        BY <3>3, <3>5, <3>7 DEF Changed, Same
      <4> QED BY <4>1, PendingSame, SameLinked
    <3>10. ConnInv(e, Pending(w, p), Linked(w))
      BY <3>3, <3>5, <3>8, <3>9 DEF ConnInv
    <3>11. Greets(e, R2[p])
      BY <1>2 DEF Greets
    <3>12. Pair(e, Linked(w), w.out[p], R2[p])
      <4>1. Follows(d, e, Linked(u)) /\ w.out = u.out
        BY <3>5, <3>7 DEF Follows, Changed
      <4> QED BY <3>8, <3>9, <3>11, <4>1, PairGrows
    <3>13. Lesser(d, e)
      BY <3>3, <3>5, <3>8 DEF Lesser, ConnInv
    <3>14. Good(n, w, R2)
      BY <1>1, <1>10, <3>3, <3>4, <3>7, <3>10, <3>12, <3>13, GoodEnd DEF Changed
    <3>15. Leads(n, u, w, R2) /\ w.conn[p] = e /\ w \in State(n)
      <4>1. w.out = u.out /\ w.conn[p] = e /\ w \in State(n)
        BY <3>7 DEF Changed
      <4> QED BY <3>14, <4>1, QuietSame DEF Leads
    <3>16. Idle(w, p)
      BY <3>3, <3>5, <3>8, <3>15 DEF Idle, ConnInv
    <3>17. w \in State(n) /\ Stock(w) /\ EndInv(w, p, R2[p])
      BY <1>1, <3>14, GoodEndInv
    <3>18. v = StartSynchronizing(w, p)
      BY <2>1
    <3> HIDE DEF v
    <3>19. Ended(n, w, v, p, R2[p])
      BY <1>1, <1>2, <3>16, <3>17, <3>18, StartEnd
    <3>20. Leads(n, w, v, R2)
      BY <1>1, <3>14, <3>19, EndedGood
    <3>21. Leads(n, u, v, R2)
      BY <3>15, <3>20, LeadsTwice
    <3> QED BY <1>1, <1>10, <3>21, AnsweredThen
  <2>2. CASE ~first
    BY <1>10, <2>2
  <2> QED BY <2>1, <2>2
<1> HIDE DEF v
<1> QED BY <1>3, <1>5, <1>11 DEF m, AnswersIds

\* Fields that the invariant does not look at may change.
LEMMA GoodSame ==
  ASSUME NEW n, NEW s, NEW t \in State(n), NEW R, Good(n, s, R), Same(s, t),
         t.conn = s.conn, t.out = s.out
  PROVE  Leads(n, s, t, R)
<1>1. s \in State(n) /\ R \in [Peers(n) -> Queues]
  BY DEF Good, NodeInv
<1>2. Linked(t) = Linked(s)
  BY SameLinked DEF Same
<1>3. \A p : Pending(t, p) = Pending(s, p)
  BY DEF Same, Pending
<1>4. Stock(t) /\ t.blamed = {}
  BY <1>2 DEF Same, Stock, Good, NodeInv
<1>5. \A p \in Peers(n) : /\ Lesser(s.conn[p], t.conn[p])
                          /\ ConnInv(t.conn[p], Pending(t, p), Linked(t))
                          /\ Pair(t.conn[p], Linked(t), t.out[p], R[p])
  BY <1>2, <1>3, LesserSame DEF Good, NodeInv
<1>6. t.plan = s.plan /\ t.activeRequests = s.activeRequests /\ t.toFetch = s.toFetch /\ t.received = s.received
  BY DEF Same
<1>7. Good(n, t, R)
  BY <1>1, <1>4, <1>5, <1>6, GoodEnds
<1> QED BY <1>7, QuietSame DEF Leads

\* Waking one of the loops changes nothing else.
LEMMA TriggerFacts ==
  ASSUME NEW n, NEW s, NEW R, Good(n, s, R)
  PROVE  Leads(n, s, TriggerSync(s), R) /\ Leads(n, s, TriggerItems(s), R)
<1>1. s \in State(n)
  BY DEF Good, NodeInv
<1>2. TriggerSync(s) \in State(n) /\ TriggerItems(s) \in State(n)
  BY <1>1 DEF TriggerSync, TriggerItems, State
<1>3. /\ Same(s, TriggerSync(s)) /\ TriggerSync(s).conn = s.conn /\ TriggerSync(s).out = s.out
      /\ Same(s, TriggerItems(s)) /\ TriggerItems(s).conn = s.conn /\ TriggerItems(s).out = s.out
  BY <1>1 DEF TriggerSync, TriggerItems, State, Same
<1> QED BY <1>2, <1>3, GoodSame

\* on_fetch_items_message
LEMMA OnFetchFacts ==
  ASSUME NEW n, NEW s, NEW p, NEW R, NEW R2, Reads(n, s, p, R, R2),
         NEW x \in Items, R[p][1] \in Fetches(x)
  PROVE  \E a \in Replies(x) : Answered(n, s, OnFetch(s, p, R[p][1]), p, R2, a)
<1> DEFINE m == R[p][1]
           available == IF m.sync THEN m.item \in s.stored ELSE m.item \in DOMAIN s.cache
           a == IF available THEN [type |-> "item", item |-> m.item]
                ELSE [type |-> "not_available", sync |-> m.sync, item |-> m.item]
<1>1. m.item = x /\ m.sync \in BOOLEAN
  BY DEF Fetches
<1>2. OnFetch(s, p, m) = Send(s, p, a)
  BY DEF OnFetch
<1> HIDE DEF m, available
<1>3. a \in Replies(x) /\ a.type \notin {"fetch_ids", "fetch"}
  BY <1>1 DEF Replies
<1>4. a \in Messages
  BY <1>3, KindTypes
<1> HIDE DEF a
<1>5. Leads(n, s, s, R2) /\ p \in Peers(n)
  BY ReadNothing DEF Reads
<1>6. Answered(n, s, Send(s, p, a), p, R2, a)
  BY <1>3, <1>4, <1>5, AnswerAfter
<1> QED BY <1>2, <1>3, <1>6 DEF m

\* The answer to a request for x is read, and one flag goes.
Unflagged(c, d, x) ==
  /\ d.status = c.status /\ d.ids = c.ids /\ d.unfetched = c.unfetched /\ d.weNeed = c.weNeed
  /\ d.idsRequested = c.idsRequested
  /\ \/ d.syncRequested = c.syncRequested /\ d.itemsRequested = c.itemsRequested \ {x}
     \/ d.syncRequested = c.syncRequested \ {x} /\ d.itemsRequested = c.itemsRequested

\* A reply for x is read, and one of the flags for x goes: as many replies as flags
\* are left.
LEMMA ReadReply ==
  ASSUME NEW n, NEW s, NEW p, NEW R, NEW R2, Reads(n, s, p, R, R2),
         NEW x \in Items, R[p][1] \in Replies(x), NEW d \in Conns, Unflagged(s.conn[p], d, x)
  PROVE  /\ Leads(n, s, [s EXCEPT !.conn[p] = d], R2)
         /\ Changed(n, s, [s EXCEPT !.conn[p] = d], p, d)
<1> DEFINE c == s.conn[p]
           t == [s EXCEPT !.conn[p] = d]
<1>1. p \in Peers(n)
  BY DEF Reads
<1>2. /\ s \in State(n) /\ R[p] \in Seq(Messages) /\ R[p] # << >> /\ R2[p] = Tail(R[p])
      /\ ConnInv(c, Pending(s, p), Linked(s)) /\ Pair(c, Linked(s), s.out[p], R[p])
  BY ReadsFacts
<1>3. s.out[p] \in Seq(Messages)
  BY <1>1, <1>2, StateFields
<1>4. Changed(n, s, t, p, d)
  BY <1>1, <1>2, ChangeFacts
<1> HIDE DEF t
<1>5. Pending(t, p) \subseteq Pending(s, p)
  <2>1. t.plan = s.plan /\ t.conn[p].syncRequested \subseteq s.conn[p].syncRequested
    BY <1>4 DEF Changed, Same, Unflagged
  <2> QED BY <2>1 DEF Pending
<1>6. Pair(d, Linked(s), s.out[p], R2[p])
  <2> HIDE DEF c
  <2>1. Spends(c, d, x)
    BY DEF c, Unflagged, Spends
  <2> QED BY <1>2, <1>3, <2>1, PairReadsReply
<1>7. ConnInv(d, Pending(t, p), Linked(s))
  BY <1>2, <1>5 DEF ConnInv, Unflagged
<1>8. Lesser(c, d)
  BY DEF Lesser, Unflagged
<1>9. Leads(n, s, t, R2)
  BY <1>4, <1>6, <1>7, <1>8, ReadChanges
<1> QED BY <1>4, <1>9 DEF t

\* A block or a transaction that comes had been asked for.
LEMMA ReplyAsked ==
  ASSUME NEW n, NEW s, NEW p, NEW R, NEW R2, Reads(n, s, p, R, R2),
         NEW x \in Items, R[p][1] \in Replies(x)
  PROVE  x \in s.conn[p].syncRequested \/ x \in s.conn[p].itemsRequested
<1>1. p \in Peers(n)
  BY DEF Reads
<1>2. /\ s \in State(n) /\ R[p] \in Seq(Messages) /\ R[p] # << >>
      /\ Pair(s.conn[p], Linked(s), s.out[p], R[p])
  BY ReadsFacts
<1>3. s.out[p] \in Seq(Messages)
  BY <1>1, <1>2, StateFields
<1> QED BY <1>2, <1>3, PairReadsReply

\* The two ways for a flag to go.
LEMMA UnflagItem ==
  ASSUME NEW n, NEW s \in State(n), NEW p \in Peers(n), NEW x
  PROVE  LET d == [s.conn[p] EXCEPT !.itemsRequested = @ \ {x}] IN
         /\ d \in Conns /\ Unflagged(s.conn[p], d, x)
         /\ [s EXCEPT !.conn[p].itemsRequested = @ \ {x}] = [s EXCEPT !.conn[p] = d]
<1>1. s.conn[p] \in Conns
  BY StateFields
<1> DEFINE c == s.conn[p]
           d == [c EXCEPT !.itemsRequested = @ \ {x}]
<1>2. [s EXCEPT !.conn[p].itemsRequested = @ \ {x}] = [s EXCEPT !.conn[p] = d]
  BY DEF State, Conns
<1>3. d \in Conns /\ Unflagged(c, d, x)
  <2> HIDE DEF c
  <2>1. c \in Conns
    BY <1>1 DEF c
  <2> QED BY <2>1 DEF Conns, Unflagged
<1> QED BY <1>2, <1>3

\* The same for a flag of fetch_sync_items_loop.
LEMMA UnflagSync ==
  ASSUME NEW n, NEW s \in State(n), NEW p \in Peers(n), NEW x
  PROVE  LET d == [s.conn[p] EXCEPT !.syncRequested = @ \ {x}] IN
         /\ d \in Conns /\ Unflagged(s.conn[p], d, x)
         /\ [s EXCEPT !.conn[p].syncRequested = @ \ {x}] = [s EXCEPT !.conn[p] = d]
<1>1. s.conn[p] \in Conns
  BY StateFields
<1> DEFINE c == s.conn[p]
           d == [c EXCEPT !.syncRequested = @ \ {x}]
<1>2. [s EXCEPT !.conn[p].syncRequested = @ \ {x}] = [s EXCEPT !.conn[p] = d]
  BY DEF State, Conns
<1>3. d \in Conns /\ Unflagged(c, d, x)
  <2> HIDE DEF c
  <2>1. c \in Conns
    BY <1>1 DEF c
  <2> QED BY <2>1 DEF Conns, Unflagged
<1> QED BY <1>2, <1>3

\* on_item_not_available_message
LEMMA OnNotAvailableFacts ==
  ASSUME NEW n, NEW s, NEW p, NEW R, NEW R2, Reads(n, s, p, R, R2),
         NEW x \in Items, R[p][1] \in Replies(x)
  PROVE  Leads(n, s, OnNotAvailable(s, p, R[p][1]), R2)
<1> DEFINE m == R[p][1]
           di == [s.conn[p] EXCEPT !.itemsRequested = @ \ {x}]
           ds == [s.conn[p] EXCEPT !.syncRequested = @ \ {x}]
           ti == [s EXCEPT !.conn[p].itemsRequested = @ \ {x}]
           ts == [s EXCEPT !.conn[p].syncRequested = @ \ {x}]
<1>1. p \in Peers(n) /\ s \in State(n) /\ m \in Messages
  BY ReadsFacts DEF Reads
<1>2. m.item = x
  BY <1>1, Kinds
<1>3. Leads(n, s, ti, R2)
  <2>1. di \in Conns /\ Unflagged(s.conn[p], di, x) /\ ti = [s EXCEPT !.conn[p] = di]
    BY <1>1, UnflagItem
  <2> HIDE DEF di, ti
  <2> QED BY <2>1, ReadReply
<1>4. Leads(n, s, ts, R2)
  <2>1. ds \in Conns /\ Unflagged(s.conn[p], ds, x) /\ ts = [s EXCEPT !.conn[p] = ds]
    BY <1>1, UnflagSync
  <2> HIDE DEF ds, ts
  <2> QED BY <2>1, ReadReply
<1>5. OnNotAvailable(s, p, m) \in {s, TriggerItems(ti), TriggerSync(ts)}
  BY <1>2 DEF OnNotAvailable
<1> HIDE DEF ti, ts
<1>6. Leads(n, s, TriggerItems(ti), R2) /\ Leads(n, s, TriggerSync(ts), R2)
  <2>1. Leads(n, ti, TriggerItems(ti), R2) /\ Leads(n, ts, TriggerSync(ts), R2)
    BY <1>3, <1>4, TriggerFacts DEF Leads
  <2> QED BY <1>3, <1>4, <2>1, LeadsTwice
<1>7. Leads(n, s, s, R2)
  BY ReadNothing
<1> QED BY <1>5, <1>6, <1>7

\* There are finitely many items, so a set of them can be queued.
LEMMA ItemsFinite == IsFiniteSet(Items)
<1>1. IsFiniteSet(Blocks)
  BY BlockAssumption, FS_Interval DEF Blocks
<1>2. IsFiniteSet(TrxIds)
  <2> DEFINE f == [t \in Trxs |-> t[2]]
  <2>1. f \in Surjection(Trxs, TrxIds)
    BY DEF Surjection, TrxIds
  <2> HIDE DEF f
  <2>2. IsFiniteSet(Trxs)
    BY BoundAssumption
  <2> QED BY <2>1, <2>2, FS_Surjection
<1> QED BY <1>1, <1>2, FS_Union DEF Items

\* Two lists without repetitions and without a common element, joined.
LEMMA JoinFacts ==
  ASSUME NEW T, NEW a \in Seq(T), NEW b \in Seq(T), Range(a) \cap Range(b) = {},
         \A i, j \in DOMAIN a : i # j => a[i] # a[j],
         \A i, j \in DOMAIN b : i # j => b[i] # b[j]
  PROVE  /\ a \o b \in Seq(T) /\ Range(a \o b) = Range(a) \cup Range(b)
         /\ \A i, j \in DOMAIN (a \o b) : i # j => (a \o b)[i] # (a \o b)[j]
<1> DEFINE c == a \o b
           k == Len(a)
           l == Len(b)
<1>1. c \in Seq(T) /\ Range(c) = Range(a) \cup Range(b)
  BY ConcatProperties, RangeConcatenation
<1>2. /\ k \in Nat /\ l \in Nat /\ DOMAIN c = 1..(k + l) /\ DOMAIN a = 1..k /\ DOMAIN b = 1..l
      /\ \A i \in 1..k : c[i] = a[i]
      /\ \A i \in (k + 1)..(k + l) : c[i] = b[i - k]
  OBVIOUS
<1> HIDE DEF c, k, l
<1>3. ASSUME NEW i \in 1..(k + l), NEW j \in 1..(k + l), i # j PROVE c[i] # c[j]
  <2>1. CASE i <= k /\ j <= k
    <3>1. i \in 1..k /\ j \in 1..k
      BY <1>2, <2>1
    <3> QED BY <1>2, <1>3, <3>1
  <2>2. CASE i > k /\ j > k
    <3>1. i \in (k + 1)..(k + l) /\ j \in (k + 1)..(k + l) /\ i - k \in 1..l /\ j - k \in 1..l /\ i - k # j - k
      BY <1>2, <1>3, <2>2
    <3> QED BY <1>2, <3>1
  <2>3. CASE i <= k /\ j > k
    <3>1. i \in 1..k /\ j \in (k + 1)..(k + l) /\ j - k \in 1..l
      BY <1>2, <2>3
    <3>2. c[i] \in Range(a) /\ c[j] \in Range(b)
      BY <1>2, <3>1 DEF Range
    <3> QED BY <3>2
  <2>4. CASE i > k /\ j <= k
    <3>1. j \in 1..k /\ i \in (k + 1)..(k + l) /\ i - k \in 1..l
      BY <1>2, <2>4
    <3>2. c[j] \in Range(a) /\ c[i] \in Range(b)
      BY <1>2, <3>1 DEF Range
    <3> QED BY <3>2
  <2> QED BY <1>2, <2>1, <2>2, <2>3, <2>4
<1> QED BY <1>1, <1>2, <1>3 DEF c

\* Items that wait nowhere and are asked of nobody may be put in the queue.
LEMMA FetchMore ==
  ASSUME NEW n, NEW s, NEW R, Good(n, s, R), NEW q \in Seq(Items),
         \A i, j \in DOMAIN q : i # j => q[i] # q[j],
         Range(s.toFetch) \cap Range(q) = {},
         \A p \in Active(s) : s.conn[p].itemsRequested \cap Range(q) = {}
  PROVE  Leads(n, s, [s EXCEPT !.toFetch = @ \o q], R)
<1> DEFINE f == s.toFetch \o q
           t == [s EXCEPT !.toFetch = @ \o q]
<1>1. s \in State(n) /\ s.toFetch \in Seq(Items) /\ Offers(s) /\ Requests(s) /\ Stock(s) /\ s.blamed = {}
      /\ DOMAIN s.conn = Peers(n)
  <2>1. s \in State(n)
    BY DEF Good, NodeInv
  <2> QED BY <2>1, StateFields DEF Good, NodeInv
<1>2. /\ f \in Seq(Items) /\ Range(f) = Range(s.toFetch) \cup Range(q)
      /\ \A i, j \in DOMAIN f : i # j => f[i] # f[j]
  BY <1>1, JoinFacts DEF Offers
<1> HIDE DEF f
<1>3. t \in State(n) /\ t.toFetch = f
  BY <1>1, <1>2 DEF State, f
<1>4. /\ t.head = s.head /\ t.stored = s.stored /\ t.known = s.known /\ t.recent = s.recent
      /\ t.blamed = s.blamed /\ t.plan = s.plan /\ t.activeRequests = s.activeRequests
      /\ t.received = s.received /\ t.conn = s.conn /\ t.out = s.out
  BY <1>1 DEF State
<1> HIDE DEF t
<1>5. Linked(t) = Linked(s)
  BY <1>4, SameLinked
<1>6. Offers(t)
  BY <1>1, <1>2, <1>3, <1>4 DEF Offers, Active
<1>7. Requests(t)
  BY <1>1, <1>4 DEF Requests
<1>8. Stock(t)
  BY <1>1, <1>4, <1>5 DEF Stock
<1>9. \A p \in Peers(n) : ConnInv(t.conn[p], Pending(t, p), Linked(t))
  BY <1>4, <1>5 DEF Good, NodeInv, Pending
<1>10. NodeInv(n, t)
  BY <1>1, <1>3, <1>4, <1>6, <1>7, <1>8, <1>9 DEF NodeInv
<1>11. Good(n, t, R)
  BY <1>4, <1>5, <1>10 DEF Good
<1>12. Leads(n, s, t, R)
  BY <1>4, <1>11, QuietSame DEF Leads
<1> QED BY <1>12 DEF t

\* on_item_ids_inventory_message
LEMMA OnInventoryFacts ==
  ASSUME NEW n, NEW s, NEW p, NEW R, NEW R2, Reads(n, s, p, R, R2), R[p][1].type = "inventory"
  PROVE  Leads(n, s, OnInventory(s, p, R[p][1]), R2)
<1> DEFINE m == R[p][1]
           c == s.conn[p]
           ours == UNION {s.conn[q].advertised : q \in Active(s)}
           asked == UNION {s.conn[q].itemsRequested : q \in Active(s)}
           new == m.items \ ours
           wanted == new \ (asked \cup Range(s.toFetch))
           d == [c EXCEPT !.advertisedToUs = @ \cup new]
           u == [s EXCEPT !.conn[p] = d]
           q == SetToSeq(wanted)
           t == [u EXCEPT !.toFetch = @ \o q]
<1>1. p \in Peers(n)
  BY DEF Reads
<1>2. s \in State(n) /\ c \in Conns /\ m \in Messages
  BY ReadsFacts
<1>3. m.items \subseteq Items
  <2> HIDE DEF m
  <2>1. m.type = "inventory"
    BY DEF m
  <2> QED BY <1>2, <2>1 DEF Messages
<1>4. OnInventory(s, p, m) \in {t, TriggerItems(t)}
  <2>1. [s EXCEPT !.conn[p].advertisedToUs = @ \cup new, !.toFetch = @ \o SetToSeq(wanted)] = t
    <3> HIDE DEF new, wanted
    <3> QED BY <1>1, <1>2 DEF State, Conns
  <2> HIDE DEF t
  <2> QED BY <2>1 DEF OnInventory
<1> HIDE DEF m
<1>5. new \subseteq Items /\ wanted \subseteq new
  BY <1>3
<1>6. wanted \cap Range(s.toFetch) = {} /\ \A k \in Active(s) : s.conn[k].itemsRequested \cap wanted = {}
  OBVIOUS
<1> HIDE DEF new, wanted
<1>7. d \in Conns /\ Alike(c, d)
  <2> HIDE DEF c
  <2> QED BY <1>2, <1>5 DEF Conns, Alike
<1> HIDE DEF d
<1>8. Leads(n, s, u, R2) /\ Changed(n, s, u, p, d)
  BY <1>7, ReadAlike
<1> HIDE DEF u
<1>9. u.toFetch = s.toFetch /\ u \in State(n) /\ Good(n, u, R2)
  BY <1>8 DEF Changed, Same, Leads
<1>10. \A k \in Active(u) : k \in Active(s) /\ u.conn[k].itemsRequested = s.conn[k].itemsRequested
  <2>1. DOMAIN u.conn = Peers(n) /\ DOMAIN s.conn = Peers(n)
    BY <1>2, <1>9, StateFields
  <2> QED BY <1>7, <1>8, <2>1 DEF Active, Changed, Alike
<1>11. /\ q \in Seq(wanted) /\ \A i, j \in DOMAIN q : i # j => q[i] # q[j]
  <2>1. IsFiniteSet(wanted)
    BY <1>5, ItemsFinite, FS_Subset
  <2> QED BY <2>1, SetToSeqFacts
<1> HIDE DEF q
<1>12. q \in Seq(Items) /\ Range(q) \subseteq wanted
  BY <1>5, <1>11 DEF Range
<1>13. Leads(n, u, t, R2)
  BY <1>6, <1>9, <1>10, <1>11, <1>12, FetchMore
<1>14. Leads(n, s, t, R2)
  BY <1>8, <1>13, LeadsTwice
<1> HIDE DEF t
<1>15. Leads(n, s, TriggerItems(t), R2)
  <2>1. Leads(n, t, TriggerItems(t), R2)
    BY <1>14, TriggerFacts DEF Leads
  <2> QED BY <1>14, <2>1, LeadsTwice
<1> QED BY <1>4, <1>14, <1>15 DEF m

-----------------------------------------------------------------------------
(* The list of a peer after its answer.                                    *)

\* The leading blocks that the client has are off.
LEMMA DropFacts ==
  ASSUME NEW s, s.stored \subseteq Blocks, s.known \subseteq s.stored,
         NEW h \in Seq(Blocks), h # << >>, Segment(h), Prev[h[1]] = 0 \/ h[1] \in Linked(s),
         NEW r, r = DropKnown(s, h)
  PROVE  /\ r \in Seq(Blocks) /\ Segment(r) /\ Len(h) - Len(r) \in 0..Len(h)
         /\ r # << >> => Prev[r[1]] \in Linked(s) \cup {0} /\ r[Len(r)] = h[Len(h)]
<1> DEFINE new == {i \in DOMAIN h : ~HasItem(s, h[i])}
           L == Linked(s)
           N == Len(h)
<1>0. N \in Nat /\ N >= 1 /\ DOMAIN h = 1..N /\ \A i \in 1..N : h[i] \in Blocks
  OBVIOUS
<1>1. CASE new = {}
  <2>1. r = << >>
    BY <1>1 DEF DropKnown
  <2>2. Segment(<< >>)
    BY DEF Segment
  <2> QED BY <1>0, <2>1, <2>2
<1>2. CASE new # {}
  <2>1. new \in SUBSET Nat
    BY <1>0
  <2>2. Min(new) \in new /\ \A i \in new : Min(new) <= i
    <3> HIDE DEF new
    <3> QED BY <1>2, <2>1, MinFacts
  <2> DEFINE k == Min(new)
  <2>3. r = SubSeq(h, k, N)
    BY <1>2 DEF DropKnown
  <2>4. k \in 1..N /\ \A i \in 1..N : i < k => h[i] \in s.known
    <3>1. k \in 1..N
      BY <1>0, <2>2
    <3>2. ASSUME NEW i \in 1..N, i < k PROVE h[i] \in s.known
      <4>1. i \notin new
        <5> HIDE DEF new
        <5>1. i \in new => k <= i
          BY <2>2
        <5>2. i \in Int /\ k \in Int
          BY <1>0, <3>1
        <5> HIDE DEF k
        <5> QED BY <3>2, <5>1, <5>2
      <4> QED BY <1>0, <4>1 DEF HasItem
    <3> QED BY <3>1, <3>2
  <2> HIDE DEF k, new
  <2>5. r \in Seq(Blocks) /\ Len(r) = N - k + 1 /\ \A i \in 1..(N - k + 1) : r[i] = h[k + i - 1]
    BY <1>0, <2>3, <2>4
  <2>6. Segment(r)
    <3> SUFFICES ASSUME NEW i \in 1..(Len(r) - 1) PROVE Prev[r[i + 1]] = r[i]
      BY DEF Segment
    <3>1. i \in 1..(N - k + 1) /\ i + 1 \in 1..(N - k + 1) /\ k + (i + 1) - 1 = (k + i - 1) + 1 /\ k + i - 1 \in 1..(N - 1)
      BY <1>0, <2>4, <2>5
    <3>2. r[i] = h[k + i - 1] /\ r[i + 1] = h[(k + i - 1) + 1]
      BY <2>5, <3>1
    <3>3. \A j \in 1..(N - 1) : Prev[h[j + 1]] = h[j]
      BY DEF Segment
    <3> QED BY <3>1, <3>2, <3>3
  <2>7. r[1] = h[k] /\ r[Len(r)] = h[N]
    <3>1. 1 \in 1..(N - k + 1) /\ k + 1 - 1 = k /\ N - k + 1 \in 1..(N - k + 1) /\ k + (N - k + 1) - 1 = N
      BY <1>0, <2>4
    <3> QED BY <2>5, <3>1
  <2>8. Prev[h[k]] \in L \cup {0}
    <3> DEFINE S == {i \in 0..(k - 1) : i # 0 => h[i] \in L}
    <3>1. 0 \in S
      BY <1>0, <2>4
    <3>2. ASSUME NEW i \in 1..(k - 1), i - 1 \in S PROVE i \in S
      <4>1. i \in 1..N /\ i < k /\ i \in 0..(k - 1)
        BY <1>0, <2>4
      <4>2. h[i] \in s.stored
        BY <2>4, <4>1
      <4>3. Prev[h[i]] \in L \cup {0}
        <5>1. CASE i = 1
          BY <5>1, LinkedFacts
        <5>2. CASE i # 1
          <6>1. i - 1 \in 1..(N - 1) /\ (i - 1) + 1 = i
            BY <1>0, <4>1, <5>2
          <6>2. Prev[h[i]] = h[i - 1]
            BY <6>1 DEF Segment
          <6>3. h[i - 1] \in L
            BY <3>2, <6>1
          <6> QED BY <6>2, <6>3
        <5> QED BY <5>1, <5>2
      <4>4. h[i] \in L
        BY <4>2, <4>3, LinkedFacts
      <4> QED BY <4>1, <4>4
    <3>3. k - 1 \in Nat /\ k - 1 \in 0..(k - 1)
      BY <1>0, <2>4
    <3>4. k - 1 \in S
      <4> DEFINE j == k - 1
      <4>1. j \in Nat /\ 0 \in S /\ \A i \in 1..j : i - 1 \in S => i \in S
        BY <3>1, <3>2, <3>3
      <4> HIDE DEF S, j
      <4>2. \A i \in 0..j : i \in S
        BY <4>1, SegmentInduction
      <4>3. j \in 0..j
        BY <4>1
      <4> QED BY <4>2, <4>3 DEF j
    <3>5. CASE k = 1
      BY <3>5, LinkedFacts
    <3>6. CASE k # 1
      <4>1. k - 1 \in 1..(N - 1) /\ (k - 1) + 1 = k
        BY <1>0, <2>4, <3>6
      <4>2. Prev[h[k]] = h[k - 1]
        BY <4>1 DEF Segment
      <4>3. h[k - 1] \in L
        BY <3>4, <4>1
      <4> QED BY <4>2, <4>3
    <3> QED BY <3>5, <3>6
  <2>9. N - Len(r) \in 0..N
    BY <1>0, <2>4, <2>5
  <2> QED BY <2>5, <2>6, <2>7, <2>8, <2>9
<1> QED BY <1>1, <1>2

\* The first n blocks of q follow on from one another.
Run(q, n) == \A j \in 1..(n - 1) : Prev[q[j + 1]] = q[j]

\* r is l blocks of q and then the N blocks of h.
Splice(q, h, r, l, N) ==
  /\ \A i \in 1..(l + 1) : r[i] = q[i]
  /\ \A i \in (l + 1)..(l + N) : r[i] = h[i - l]

\* Two runs of blocks that share the block they meet in are one run.
LEMMA SpliceRun ==
  ASSUME NEW q, NEW h, NEW r, NEW l \in Int, NEW N \in Int, NEW M \in Int, l >= 0, l < M,
         Splice(q, h, r, l, N), Run(q, M), Run(h, N)
  PROVE  Run(r, l + N)
<1> USE DEF Run, Splice
<1> SUFFICES ASSUME NEW i \in 1..((l + N) - 1) PROVE Prev[r[i + 1]] = r[i]
  OBVIOUS
<1>1. CASE i <= l
  <2>1. i \in 1..(l + 1) /\ i + 1 \in 1..(l + 1) /\ i \in 1..(M - 1)
    BY <1>1
  <2> QED BY <2>1
<1>2. CASE i > l
  <2> DEFINE j == i - l
  <2>1. i \in (l + 1)..(l + N) /\ i + 1 \in (l + 1)..(l + N) /\ (i + 1) - l = j + 1 /\ j \in 1..(N - 1)
    BY <1>2
  <2>2. r[i] = h[j] /\ r[i + 1] = h[j + 1]
    BY <2>1
  <2> QED BY <2>1, <2>2
<1> QED BY <1>1, <1>2

\* r begins as q does and ends as h does.
Spliced(q, h, r) ==
  r \in Seq(Blocks) /\ r # << >> /\ Segment(r) /\ r[1] = q[1] /\ r[Len(r)] = h[Len(h)]

\* A list that goes on from a block of another.
LEMMA SplicedAt ==
  ASSUME NEW q \in Seq(Blocks), NEW h \in Seq(Blocks), Segment(q), Segment(h), h # << >>,
         NEW k \in DOMAIN q, q[k] = h[1], NEW r, r = SubSeq(q, 1, k - 1) \o h
  PROVE  Spliced(q, h, r)
<1> DEFINE a == SubSeq(q, 1, k - 1)
           N == Len(h)
           M == Len(q)
<1>0. \A j \in 1..(M - 1) : Prev[q[j + 1]] = q[j]
  BY DEF Segment
<1>00. \A j \in 1..(N - 1) : Prev[h[j + 1]] = h[j]
  BY DEF Segment
<1>1. N \in Nat /\ N >= 1 /\ M \in Nat /\ k \in 1..M
  OBVIOUS
<1>2. a \in Seq(Blocks) /\ Len(a) = k - 1 /\ \A i \in 1..(k - 1) : a[i] = q[i]
  BY <1>1
<1>3. r = a \o h
  OBVIOUS
<1> HIDE DEF a
<1>4. /\ r \in Seq(Blocks) /\ Len(r) = (k - 1) + N
      /\ \A i \in 1..(k - 1) : r[i] = q[i]
      /\ \A i \in k..((k - 1) + N) : r[i] = h[i - (k - 1)]
  BY <1>1, <1>2, <1>3
<1> HIDE DEF N, M
<1>k. PICK l \in Int : l = k - 1 /\ k = l + 1 /\ l >= 0 /\ l < M
  BY <1>1
<1>n. N \in Int /\ N >= 1 /\ M \in Int
  BY <1>1
<1>5. r[k] = q[k]
  <2>1. k \in k..((k - 1) + N) /\ k - (k - 1) = 1
    BY <1>1
  <2> QED BY <1>4, <2>1
<1>6. \A i \in 1..k : r[i] = q[i]
  <2>1. \A i \in 1..k : i = k \/ i \in 1..(k - 1)
    BY <1>1
  <2> QED BY <1>4, <1>5, <2>1
<1>7. Segment(r)
  <2>1. Len(r) = l + N
    BY <1>k, <1>4
  <2>2. \A i \in (l + 1)..(l + N) : r[i] = h[i - l]
    BY <1>k, <1>4
  <2>3. \A i \in 1..(l + 1) : r[i] = q[i]
    BY <1>k, <1>6
  <2>4. Splice(q, h, r, l, N)
    BY <2>2, <2>3 DEF Splice
  <2>5. Run(q, M) /\ Run(h, N)
    BY <1>0, <1>00 DEF Run
  <2>6. Run(r, l + N)
    BY <1>n, <1>k, <2>4, <2>5, SpliceRun
  <2> QED BY <2>1, <2>6 DEF Segment, Run
<1>8. r[1] = q[1]
  <2>1. 1 \in 1..k
    BY <1>1
  <2> QED BY <1>6, <2>1
<1>9. r[Len(r)] = h[N] /\ r # << >>
  <2>0. l + N \in (l + 1)..(l + N) /\ (l + N) - l = N
    BY <1>n, <1>k
  <2>1. (k - 1) + N \in k..((k - 1) + N) /\ ((k - 1) + N) - (k - 1) = N
    BY <1>k, <2>0
  <2>2. Len(r) # 0
    BY <1>1, <1>4
  <2> QED BY <1>4, <2>1, <2>2
<1> QED BY <1>4, <1>7, <1>8, <1>9 DEF N, Spliced

\* The list that MergeIds makes of two lists that overlap.
LEMMA SpliceFacts ==
  ASSUME NEW q \in Seq(Blocks), NEW h \in Seq(Blocks), Segment(q), Segment(h), h # << >>,
         NEW k \in DOMAIN q, q[k] = h[1]
  PROVE  Spliced(q, h, SubSeq(q, 1, k - 1) \o h)
<1> DEFINE r == SubSeq(q, 1, k - 1) \o h
<1>1. r = SubSeq(q, 1, k - 1) \o h
  OBVIOUS
<1> HIDE DEF r
<1>2. Spliced(q, h, r)
  BY <1>1, SplicedAt
<1> QED BY <1>1, <1>2

\* The rest of a list.
LEMMA SegmentTail ==
  ASSUME NEW q \in Seq(Blocks), q # << >>, Segment(q)
  PROVE  /\ Tail(q) \in Seq(Blocks) /\ Segment(Tail(q))
         /\ Range(q) = {q[1]} \cup Range(Tail(q))
         /\ Tail(q) # << >> => Prev[Tail(q)[1]] = q[1] /\ Tail(q)[Len(Tail(q))] = q[Len(q)]
<1> DEFINE r == Tail(q)
           N == Len(q)
<1>1. N \in Nat /\ N >= 1 /\ r \in Seq(Blocks) /\ Len(r) = N - 1 /\ \A i \in 1..(N - 1) : r[i] = q[i + 1]
  OBVIOUS
<1> HIDE DEF r
<1>2. \A j \in 1..(N - 1) : Prev[q[j + 1]] = q[j]
  BY DEF Segment
<1>3. Segment(r)
  <2> SUFFICES ASSUME NEW i \in 1..(Len(r) - 1) PROVE Prev[r[i + 1]] = r[i]
    BY DEF Segment
  <2>1. i \in 1..(N - 1) /\ i + 1 \in 1..(N - 1)
    BY <1>1
  <2>2. r[i] = q[i + 1] /\ r[i + 1] = q[(i + 1) + 1] /\ Prev[q[(i + 1) + 1]] = q[i + 1]
    BY <1>1, <1>2, <2>1
  <2> QED BY <2>2
<1>4. ASSUME r # << >> PROVE Prev[r[1]] = q[1] /\ r[Len(r)] = q[N]
  <2>1. 1 \in 1..(N - 1) /\ N - 1 \in 1..(N - 1) /\ (N - 1) + 1 = N
    BY <1>1, <1>4
  <2>2. r[1] = q[1 + 1] /\ r[N - 1] = q[(N - 1) + 1] /\ Prev[q[1 + 1]] = q[1]
    BY <1>1, <1>2, <2>1
  <2> QED BY <1>1, <2>1, <2>2
<1>5. Range(q) = {q[1]} \cup Range(r)
  <2>1. DOMAIN q = 1..N /\ DOMAIN r = 1..(N - 1)
    BY <1>1
  <2>2. \A i \in 1..N : i = 1 \/ (i - 1 \in 1..(N - 1) /\ (i - 1) + 1 = i)
    BY <1>1
  <2>3. ASSUME NEW b \in Range(q) PROVE b \in {q[1]} \cup Range(r)
    <3>1. PICK i \in 1..N : b = q[i]
      BY <2>1 DEF Range
    <3>2. CASE i = 1
      BY <3>1, <3>2
    <3>3. CASE i # 1
      <4>1. i - 1 \in 1..(N - 1) /\ r[i - 1] = q[i]
        BY <1>1, <2>2, <3>3
      <4> QED BY <2>1, <3>1, <4>1 DEF Range
    <3> QED BY <3>2, <3>3
  <2>4. \A i \in 1..(N - 1) : i + 1 \in 1..N
    BY <1>1
  <2>5. 1 \in 1..N
    BY <1>1
  <2>6. {q[1]} \cup Range(r) \subseteq Range(q)
    BY <1>1, <2>1, <2>4, <2>5 DEF Range
  <2> QED BY <2>3, <2>6
<1> QED BY <1>1, <1>3, <1>4, <1>5 DEF r

\* d is c with a list that leaves room for k more blocks.
Merged(c, d, L, k) ==
  /\ d \in Conns
  /\ d.status = c.status /\ d.weNeed = c.weNeed /\ d.idsRequested = c.idsRequested
  /\ d.syncRequested = c.syncRequested /\ d.itemsRequested = c.itemsRequested
  /\ ListOn(d.ids, L, k)

\* In each of its cases MergeIds gives a list that begins after a linked block, goes
\* on without a gap and leaves room for what the peer says remains.
LEMMA MergeFacts ==
  ASSUME NEW n, NEW s \in State(n), NEW p \in Peers(n), Stock(s),
         \A q \in Peers(n) : ListOn(s.conn[q].ids, Linked(s), s.conn[q].unfetched),
         NEW m \in Ids, Answer(m, Linked(s), Range(s.conn[p].ids))
  PROVE  Merged(s.conn[p], MergeIds(s, p, m.hashes), Linked(s), m.remaining)
<1> DEFINE c == s.conn[p]
           h == m.hashes
           k == m.remaining
           L == Linked(s)
           firstElsewhere == \E q \in Active(s) \ {p} :
             s.conn[q].ids # << >> /\ s.conn[q].ids[1] = h[1]
           left == DropKnown(s, h)
           dropped == Len(h) - Len(left)
           same == {i \in DOMAIN c.ids : c.ids[i] = h[1]}
           d1 == [c EXCEPT !.ids = h]
           d2 == [c EXCEPT !.ids = left, !.lastNum = @ + dropped,
                           !.lastSeen = IF dropped = 0 THEN @ ELSE h[dropped]]
           d3 == [c EXCEPT !.ids = Tail(h), !.lastSeen = h[1], !.lastNum = Num(h[1])]
           d4 == [c EXCEPT !.ids = SubSeq(@, 1, Max(same) - 1) \o h]
<1>1. c \in Conns /\ s.stored \subseteq Blocks /\ s.known \subseteq s.stored
  BY StateFields DEF Stock
<1>2. h \in Seq(Blocks) /\ k \in Nat
  BY DEF Ids
<1>3. MergeIds(s, p, h) = IF h = << >> THEN c
                          ELSE IF c.ids = << >> THEN IF firstElsewhere THEN d1 ELSE d2
                          ELSE IF same = {} THEN d3 ELSE d4
  BY DEF MergeIds
<1>4. ListOn(c.ids, L, c.unfetched) /\ Answer(m, L, Range(c.ids))
  OBVIOUS
<1>5. /\ Segment(h) /\ (h = << >> => k = 0)
      /\ h # << >> => /\ Prev[h[1]] = 0 \/ h[1] \in L \cup Range(c.ids)
                      /\ h[Len(h)] + k <= NBlocks
  BY <1>4 DEF Answer
<1>6. \A b \in Blocks : b \in 0..NBlocks /\ b \in Nat
  BY BlockAssumption DEF Blocks
<1>7. c.ids \in Seq(Blocks) /\ c.unfetched \in Nat
  <2> HIDE DEF c
  <2> QED BY <1>1, BlockAssumption DEF Conns
<1>8. \A q \in Peers(n) : s.conn[q].ids # << >> => Prev[s.conn[q].ids[1]] \in L \cup {0}
  BY DEF ListOn
<1>9. DOMAIN s.conn = Peers(n)
  BY StateFields
<1>10. CASE h = << >>
  <2>1. ListOn(c.ids, L, 0)
    <3>1. ASSUME c.ids # << >> PROVE c.ids[Len(c.ids)] + 0 <= NBlocks
      <4>1. c.ids[Len(c.ids)] \in Nat
        <5>1. c.ids[Len(c.ids)] \in Blocks
          <6> HIDE DEF c
          <6> QED BY <1>7, <3>1
        <5> QED BY <1>6, <5>1
      <4>2. c.ids[Len(c.ids)] + c.unfetched <= NBlocks
        BY <1>4, <3>1 DEF ListOn
      <4> HIDE DEF c
      <4> QED BY <1>7, <4>1, <4>2, BlockAssumption
    <3> QED BY <1>4, <3>1 DEF ListOn
  <2> QED BY <1>1, <1>3, <1>5, <1>10, <2>1 DEF Merged
<1>11. CASE h # << >>
  <2>0. h[1] \in Blocks /\ 1 \in DOMAIN h
    BY <1>2, <1>11
  <2>1. CASE c.ids = << >> /\ firstElsewhere
    <3>1. PICK q \in Active(s) \ {p} : s.conn[q].ids # << >> /\ s.conn[q].ids[1] = h[1]
      BY <2>1
    <3>2. q \in Peers(n)
      BY <1>9 DEF Active
    <3>3. Prev[h[1]] \in L \cup {0}
      BY <1>8, <3>1, <3>2
    <3>4. ListOn(h, L, k)
      BY <1>5, <1>11, <3>3 DEF ListOn
    <3>5. MergeIds(s, p, h) = d1
      BY <1>3, <1>11, <2>1
    <3> HIDE DEF c, h
    <3>6. d1 \in Conns /\ d1.ids = h /\ d1.status = c.status /\ d1.weNeed = c.weNeed /\ d1.idsRequested = c.idsRequested
          /\ d1.syncRequested = c.syncRequested /\ d1.itemsRequested = c.itemsRequested
      BY <1>1, <1>2 DEF Conns
    <3> HIDE DEF d1
    <3>7. Merged(c, d1, L, k)
      BY <3>4, <3>6 DEF Merged
    <3> QED BY <3>5, <3>7 DEF c, h
  <2>2. CASE c.ids = << >> /\ ~firstElsewhere
    <3>1. Range(c.ids) = {}
      BY <2>2 DEF Range
    <3>2. Prev[h[1]] = 0 \/ h[1] \in L
      BY <1>5, <1>11, <3>1
    <3>3. /\ left \in Seq(Blocks) /\ Segment(left) /\ dropped \in 0..Len(h)
          /\ left # << >> => Prev[left[1]] \in L \cup {0} /\ left[Len(left)] = h[Len(h)]
      <4> HIDE DEF h
      <4> QED BY <1>1, <1>2, <1>5, <1>11, <3>2, DropFacts
    <3>4. ListOn(left, L, k)
      BY <1>5, <1>11, <3>3 DEF ListOn
    <3>5. MergeIds(s, p, h) = d2
      BY <1>3, <1>11, <2>2
    <3>6. dropped # 0 => h[dropped] \in 0..NBlocks
      <4> HIDE DEF dropped, h
      <4>1. dropped # 0 => dropped \in 1..Len(h)
        BY <1>2, <3>3
      <4>2. dropped # 0 => h[dropped] \in Blocks
        BY <1>2, <4>1
      <4> QED BY <1>6, <4>2
    <3> HIDE DEF c, left, dropped, h
    <3>7. dropped \in Nat
      BY <1>2, <3>3
    <3>8. c.lastNum + dropped \in Nat /\ (IF dropped = 0 THEN c.lastSeen ELSE h[dropped]) \in 0..NBlocks
      BY <1>1, <3>6, <3>7 DEF Conns
    <3>9. d2 \in Conns /\ d2.ids = left /\ d2.status = c.status /\ d2.weNeed = c.weNeed /\ d2.idsRequested = c.idsRequested
          /\ d2.syncRequested = c.syncRequested /\ d2.itemsRequested = c.itemsRequested
      BY <1>1, <3>3, <3>8 DEF Conns
    <3> HIDE DEF d2
    <3>10. Merged(c, d2, L, k)
      BY <3>4, <3>9 DEF Merged
    <3> QED BY <3>5, <3>10 DEF c, h
  <2>3. CASE c.ids # << >> /\ same = {}
    <3>1. h[1] \notin Range(c.ids)
      BY <2>3 DEF Range
    <3>2. h[1] \in L
      <4>1. CASE h[1] \in L
        BY <4>1
      <4>2. CASE Prev[h[1]] = 0
        <5>1. c.ids[1] \in Blocks /\ c.ids[1] \in Range(c.ids) /\ Prev[c.ids[1]] \in L \cup {0}
          <6>1. Prev[c.ids[1]] \in L \cup {0}
            BY <1>8, <2>3
          <6> HIDE DEF c
          <6> QED BY <1>7, <2>3, <6>1 DEF Range
        <5>2. Prev[c.ids[1]] # 0
          BY <2>0, <3>1, <4>2, <5>1, BlockAssumption
        <5>3. Prev[c.ids[1]] \in Linked(s)
          BY <5>1, <5>2
        <5> HIDE DEF h, c
        <5> QED BY <1>1, <2>0, <4>2, <5>3, FirstLinked
      <4> QED BY <1>5, <1>11, <3>1, <4>1, <4>2
    <3>3. /\ Tail(h) \in Seq(Blocks) /\ Segment(Tail(h))
          /\ Tail(h) # << >> => Prev[Tail(h)[1]] = h[1] /\ Tail(h)[Len(Tail(h))] = h[Len(h)]
      <4> HIDE DEF h
      <4> QED BY <1>2, <1>5, <1>11, SegmentTail
    <3>4. ListOn(Tail(h), L, k)
      BY <1>5, <1>11, <3>2, <3>3 DEF ListOn
    <3>5. MergeIds(s, p, h) = d3
      BY <1>3, <1>11, <2>3
    <3>6. Num(h[1]) \in Nat /\ h[1] \in 0..NBlocks
      <4> HIDE DEF h
      <4>1. h[1] \in 0..NBlocks
        BY <1>6, <2>0
      <4>2. Chain[h[1]] \in Seq(Blocks)
        BY <4>1, ChainDef
      <4> QED BY <4>1, <4>2 DEF Num
    <3> HIDE DEF c, h
    <3>7. d3 \in Conns /\ d3.ids = Tail(h) /\ d3.status = c.status /\ d3.weNeed = c.weNeed /\ d3.idsRequested = c.idsRequested
          /\ d3.syncRequested = c.syncRequested /\ d3.itemsRequested = c.itemsRequested
      BY <1>1, <3>3, <3>6 DEF Conns
    <3> HIDE DEF d3
    <3>8. Merged(c, d3, L, k)
      BY <3>4, <3>7 DEF Merged
    <3> QED BY <3>5, <3>8 DEF c, h
  <2>4. CASE c.ids # << >> /\ same # {}
    <3>1. same \in SUBSET (0..Len(c.ids)) /\ Len(c.ids) \in Nat
      <4> HIDE DEF c, h
      <4> QED BY <1>7
    <3>2. Max(same) \in same
      <4> DEFINE x == Len(c.ids)
      <4>1. same \in SUBSET (0..x) /\ x \in Nat /\ same # {}
        BY <2>4, <3>1
      <4> HIDE DEF same, x
      <4> QED BY <4>1, MaxFacts
    <3> DEFINE j == Max(same)
               r == SubSeq(c.ids, 1, j - 1) \o h
    <3>3. j \in DOMAIN c.ids /\ c.ids[j] = h[1]
      BY <3>2
    <3>4. Segment(c.ids)
      BY <1>4 DEF ListOn
    <3>5. MergeIds(s, p, h) = d4 /\ d4 = [c EXCEPT !.ids = r]
      BY <1>3, <1>11, <2>4
    <3> HIDE DEF j, c, h, d4
    <3>6. r \in Seq(Blocks) /\ r # << >> /\ Segment(r) /\ r[1] = c.ids[1] /\ r[Len(r)] = h[Len(h)]
      <4> DEFINE z == c.ids
      <4>1. z \in Seq(Blocks) /\ Segment(z) /\ j \in DOMAIN z /\ z[j] = h[1] /\ r = SubSeq(z, 1, j - 1) \o h
        BY <1>7, <3>3, <3>4
      <4>2. h \in Seq(Blocks) /\ Segment(h) /\ h # << >>
        BY <1>2, <1>5, <1>11
      <4> HIDE DEF z, r
      <4>3. Spliced(z, h, SubSeq(z, 1, j - 1) \o h)
        BY <4>1, <4>2, SpliceFacts
      <4>4. Spliced(z, h, r)
        BY <4>1, <4>3
      <4> QED BY <4>4 DEF z, Spliced
    <3>7. Prev[c.ids[1]] \in L \cup {0}
      BY <1>8, <2>4 DEF c
    <3> HIDE DEF r
    <3>8. ListOn(r, L, k)
      BY <1>5, <1>11, <3>6, <3>7 DEF ListOn
    <3>9. d4 \in Conns /\ d4.ids = r /\ d4.status = c.status /\ d4.weNeed = c.weNeed /\ d4.idsRequested = c.idsRequested
          /\ d4.syncRequested = c.syncRequested /\ d4.itemsRequested = c.itemsRequested
      BY <1>1, <3>5, <3>6 DEF Conns
    <3>10. Merged(c, d4, L, k)
      BY <3>8, <3>9 DEF Merged
    <3> QED BY <3>5, <3>10 DEF c, h
  <2> QED BY <2>1, <2>2, <2>3, <2>4
<1> QED BY <1>10, <1>11

\* calculate_unsynced_block_count_from_all_peers returns a uint32_t.
LEMMA UnsyncedFacts ==
  ASSUME NEW n, NEW s \in State(n), NEW R, Good(n, s, R)
  PROVE  Unsynced(s) \in 0..UintMax
<1> DEFINE S == {Len(s.conn[p].ids) + s.conn[p].unfetched : p \in Active(s)}
           T == {0} \cup S
<1>1. ASSUME NEW p \in Active(s) PROVE Len(s.conn[p].ids) + s.conn[p].unfetched \in 0..NBlocks
  <2> DEFINE c == s.conn[p]
             N == Len(c.ids)
             l == c.ids[N]
             k == c.unfetched
  <2>1. p \in Peers(n)
    BY StateFields DEF Active
  <2>2. c \in Conns
    BY <2>1, StateFields
  <2>3. ListOn(c.ids, Linked(s), c.unfetched)
    BY <2>1 DEF Good, NodeInv, ConnInv
  <2> HIDE DEF c
  <2>4. N \in Nat /\ k \in 0..NBlocks /\ c.ids \in Seq(Blocks) /\ NBlocks \in Nat
    BY <2>2, BlockAssumption DEF Conns
  <2>5. CASE c.ids = << >>
    <3>1. N = 0
      BY <2>5
    <3> HIDE DEF N, k
    <3>2. N + k \in 0..NBlocks
      BY <2>4, <3>1
    <3> QED BY <3>2 DEF N, k, c
  <2>6. CASE c.ids # << >>
    <3>1. N <= l
      BY <2>3, <2>4, <2>6, SegmentLength DEF ListOn
    <3>2. l + k <= NBlocks
      BY <2>3, <2>6 DEF ListOn
    <3>3. l \in Blocks
      BY <2>4, <2>6
    <3>4. l \in Int
      BY <3>3, BlockAssumption DEF Blocks
    <3> HIDE DEF N, k, l
    <3>5. N + k \in 0..NBlocks
      BY <2>4, <3>1, <3>2, <3>4
    <3> QED BY <3>5 DEF N, k, c
  <2> QED BY <2>5, <2>6
<1>2. S \subseteq 0..NBlocks /\ NBlocks \in Nat
  BY <1>1, BlockAssumption
<1> HIDE DEF S
<1>3. T \in SUBSET (0..NBlocks) /\ T # {}
  BY <1>2
<1>4. Unsynced(s) = Max(T)
  BY DEF Unsynced, S
<1> HIDE DEF T
<1>5. Max(T) \in T
  BY <1>2, <1>3, MaxFacts
<1>6. Unsynced(s) \in 0..NBlocks
  BY <1>3, <1>4, <1>5
<1> QED BY <1>2, <1>6, BoundAssumption

\* The count of blocks to get is made anew.
LEMMA Counted ==
  ASSUME NEW n, NEW s, NEW R, Good(n, s, R)
  PROVE  /\ Leads(n, s, [s EXCEPT !.total = Unsynced(s)], R)
         /\ [s EXCEPT !.total = Unsynced(s)].conn = s.conn
         /\ [s EXCEPT !.total = Unsynced(s)].plan = s.plan
<1> DEFINE t == [s EXCEPT !.total = Unsynced(s)]
<1>1. s \in State(n)
  BY DEF Good, NodeInv
<1>2. Unsynced(s) \in 0..UintMax
  BY <1>1, UnsyncedFacts
<1>3. t \in State(n)
  BY <1>1, <1>2 DEF State
<1>4. Same(s, t) /\ t.conn = s.conn /\ t.out = s.out /\ t.plan = s.plan
  BY <1>1 DEF State, Same
<1> HIDE DEF t
<1>5. Leads(n, s, t, R)
  BY <1>3, <1>4, GoodSame
<1> QED BY <1>4, <1>5 DEF t

\* An answer to a request for ids is read by an active end that has asked for it.
LEMMA ReadIds ==
  ASSUME NEW n, NEW s, NEW p, NEW R, NEW R2, Reads(n, s, p, R, R2), R[p][1] \in Ids
  PROVE  /\ s.conn[p].idsRequested /\ s.conn[p].status = "active" /\ s.conn[p].weNeed
         /\ Pending(s, p) = {}
         /\ Answer(R[p][1], Linked(s), Range(s.conn[p].ids))
<1> DEFINE c == s.conn[p]
<1>1. p \in Peers(n) /\ c.status # "closed"
  BY DEF Reads
<1>2. /\ s \in State(n) /\ c \in Conns /\ R[p] \in Seq(Messages) /\ R[p] # << >>
      /\ ConnInv(c, Pending(s, p), Linked(s)) /\ Pair(c, Linked(s), s.out[p], R[p])
  BY ReadsFacts
<1>3. s.out[p] \in Seq(Messages)
  BY <1>1, <1>2, StateFields
<1> HIDE DEF c
<1>4. c.idsRequested /\ Answer(R[p][1], Linked(s), Range(c.ids))
  BY <1>2, <1>3, PairReadsIds
<1>5. c.status = "active" /\ c.weNeed /\ Pending(s, p) = {}
  <2>1. c.status \in {"handshaking", "active", "closed"}
    BY <1>2 DEF Conns
  <2> QED BY <1>1, <1>2, <1>4, <2>1 DEF ConnInv
<1> QED BY <1>4, <1>5 DEF c

\* The end d that is in order after the answer.
LEMMA ReadIdsEnd ==
  ASSUME NEW n, NEW s, NEW p, NEW R, NEW R2, Reads(n, s, p, R, R2), R[p][1] \in Ids,
         NEW d \in Conns, NEW t, Changed(n, s, t, p, d),
         d.status = "active", ~d.idsRequested, ~d.weNeed => d.ids = << >> /\ d.unfetched = 0,
         d.syncRequested = s.conn[p].syncRequested, d.itemsRequested = s.conn[p].itemsRequested,
         ListOn(d.ids, Linked(s), d.unfetched)
  PROVE  Leads(n, s, t, R2) /\ Pending(t, p) = {}
<1> DEFINE c == s.conn[p]
<1>1. p \in Peers(n)
  BY DEF Reads
<1>2. /\ s \in State(n) /\ R[p] \in Seq(Messages) /\ R[p] # << >> /\ R2[p] = Tail(R[p])
      /\ Pair(c, Linked(s), s.out[p], R[p])
  BY ReadsFacts
<1>3. s.out[p] \in Seq(Messages)
  BY <1>1, <1>2, StateFields
<1>4. Pending(s, p) = {} /\ c.status = "active"
  BY ReadIds
<1>5. Pending(t, p) = Pending(s, p)
  <2>1. t.plan = s.plan /\ t.conn[p].syncRequested = s.conn[p].syncRequested
    BY DEF Changed, Same
  <2> QED BY <2>1, PendingSame
<1>6. Lesser(c, d)
  BY <1>4 DEF Lesser
<1>7. ConnInv(d, {}, Linked(s))
  BY DEF ConnInv
<1> HIDE DEF c
<1>8. Pair(d, Linked(s), s.out[p], Tail(R[p]))
  <2>1. d.syncRequested = c.syncRequested /\ d.itemsRequested = c.itemsRequested
    BY DEF c
  <2> QED BY <1>2, <1>3, <2>1, PairReadsIds
<1> QED BY <1>2, <1>4, <1>5, <1>6, <1>7, <1>8, ReadChanges DEF c

\* The parts of on_blockchain_item_ids_inventory_message: the flag is cleared, and
\* the list is joined to the answer.
Unasked(s, p) == [s EXCEPT !.conn[p].idsRequested = FALSE]
JoinedEnd(s, p, m) == [MergeIds(Unasked(s, p), p, m.hashes) EXCEPT !.unfetched = m.remaining]
Joined(s, p, m) == [Unasked(s, p) EXCEPT !.conn[p] = JoinedEnd(s, p, m)]

\* The list that the answer leaves.
LEMMA OnIdsMerges ==
  ASSUME NEW n, NEW s, NEW p, NEW R, NEW R2, Reads(n, s, p, R, R2), R[p][1] \in Ids
  PROVE  LET t == Joined(s, p, R[p][1]) IN
         /\ Leads(n, s, t, R2) /\ Pending(t, p) = {}
         /\ t.conn[p].status = "active" /\ t.conn[p].weNeed /\ ~t.conn[p].idsRequested
         /\ t.conn[p].unfetched = R[p][1].remaining
<1> DEFINE m == R[p][1]
           c == s.conn[p]
           d0 == [c EXCEPT !.idsRequested = FALSE]
           a == Unasked(s, p)
           e == MergeIds(a, p, m.hashes)
           d == JoinedEnd(s, p, m)
           t == Joined(s, p, m)
<1>1. p \in Peers(n)
  BY DEF Reads
<1>2. s \in State(n) /\ c \in Conns /\ Stock(s)
  BY ReadsFacts
<1>3. c.idsRequested /\ c.status = "active" /\ c.weNeed /\ Answer(m, Linked(s), Range(c.ids))
  BY ReadIds
<1>4. a = [s EXCEPT !.conn[p] = d0]
  BY <1>1, <1>2 DEF State, Conns, Unasked
<1>5. \A q \in Peers(n) : ListOn(s.conn[q].ids, Linked(s), s.conn[q].unfetched)
  BY DEF Reads, Good, NodeInv, ConnInv
<1>6. d0 \in Conns /\ d0.idsRequested = FALSE /\ d0.status = c.status /\ d0.weNeed = c.weNeed
      /\ d0.ids = c.ids /\ d0.unfetched = c.unfetched
      /\ d0.syncRequested = c.syncRequested /\ d0.itemsRequested = c.itemsRequested
  <2> HIDE DEF c
  <2> QED BY <1>2 DEF Conns
<1> HIDE DEF c, d0, m, a
<1>7. a \in State(n) /\ Same(s, a) /\ a.out = s.out /\ a.conn[p] = d0
      /\ \A q \in Peers(n) : q # p => a.conn[q] = s.conn[q]
  BY <1>1, <1>2, <1>4, <1>6, ChangeFacts DEF Changed
<1>8. Linked(a) = Linked(s) /\ Stock(a)
  BY <1>2, <1>7, SameLinked DEF Same, Stock
<1>9. \A q \in Peers(n) : ListOn(a.conn[q].ids, Linked(a), a.conn[q].unfetched)
  BY <1>5, <1>6, <1>7, <1>8 DEF c
<1>10. m \in Ids /\ Answer(m, Linked(a), Range(a.conn[p].ids))
  BY <1>3, <1>6, <1>7, <1>8 DEF m
<1>11. Merged(a.conn[p], e, Linked(a), m.remaining)
  BY <1>1, <1>7, <1>8, <1>9, <1>10, MergeFacts
<1>12. e \in Conns /\ e.status = "active" /\ e.weNeed /\ ~e.idsRequested
       /\ e.syncRequested = c.syncRequested /\ e.itemsRequested = c.itemsRequested
       /\ ListOn(e.ids, Linked(s), m.remaining)
  BY <1>3, <1>6, <1>7, <1>8, <1>11 DEF Merged
<1>13. m.remaining \in 0..NBlocks
  <2> DEFINE h == m.hashes
             k == m.remaining
             l == h[Len(h)]
  <2>1. h \in Seq(Blocks) /\ k \in Nat /\ NBlocks \in Nat
    BY <1>10, BlockAssumption DEF Ids
  <2>2. h = << >> => k = 0
    BY <1>10 DEF Answer
  <2>3. h # << >> => l + k <= NBlocks /\ l \in Blocks
    <3>1. h # << >> => l + k <= NBlocks
      BY <1>10 DEF Answer
    <3>2. h # << >> => l \in Blocks
      <4> HIDE DEF h
      <4> QED BY <2>1
    <3> QED BY <3>1, <3>2
  <2>4. h # << >> => l \in Nat
    <3> HIDE DEF h, l
    <3> QED BY <2>1, <2>3 DEF Blocks
  <2> HIDE DEF k, l, h
  <2>5. k \in 0..NBlocks
    BY <2>1, <2>2, <2>3, <2>4
  <2> QED BY <2>5 DEF k
<1> HIDE DEF e
<1>14. d = [e EXCEPT !.unfetched = m.remaining] /\ t = [a EXCEPT !.conn[p] = d]
  BY DEF e, a, JoinedEnd, Joined
<1> HIDE DEF d, t
<1>15. /\ d \in Conns /\ d.status = "active" /\ d.weNeed /\ ~d.idsRequested /\ d.unfetched = m.remaining
       /\ d.syncRequested = c.syncRequested /\ d.itemsRequested = c.itemsRequested
       /\ d.ids = e.ids
  <2> DEFINE k == m.remaining
  <2>1. k \in 0..NBlocks
    BY <1>13
  <2> HIDE DEF k
  <2>2. d = [e EXCEPT !.unfetched = k]
    BY <1>14 DEF k
  <2>3. d \in Conns /\ d.status = e.status /\ d.weNeed = e.weNeed /\ d.idsRequested = e.idsRequested /\ d.unfetched = k
        /\ d.syncRequested = e.syncRequested /\ d.itemsRequested = e.itemsRequested /\ d.ids = e.ids
    BY <1>12, <2>1, <2>2 DEF Conns
  <2> QED BY <1>12, <2>3 DEF k
<1>16. ListOn(d.ids, Linked(s), d.unfetched)
  BY <1>12, <1>15
<1>17. Changed(n, a, t, p, d)
  BY <1>1, <1>7, <1>14, <1>15, ChangeFacts
<1>18. Changed(n, s, t, p, d)
  BY <1>7, <1>17 DEF Changed, Same
<1>19. Leads(n, s, t, R2) /\ Pending(t, p) = {}
  BY <1>15, <1>16, <1>18, ReadIdsEnd DEF c
<1>20. t.conn[p] = d
  BY <1>18 DEF Changed
<1> QED BY <1>15, <1>19, <1>20 DEF t, m

\* on_blockchain_item_ids_inventory_message
LEMMA OnIdsFacts ==
  ASSUME NEW n, NEW s, NEW p, NEW R, NEW R2, Reads(n, s, p, R, R2), R[p][1] \in Ids
  PROVE  Leads(n, s, OnIds(s, p, R[p][1]), R2)
<1> DEFINE m == R[p][1]
           c == s.conn[p]
           a == [s EXCEPT !.conn[p].idsRequested = FALSE]
           t == Joined(s, p, m)
           u == [t EXCEPT !.total = Unsynced(t)]
           x == [a EXCEPT !.conn[p].weNeed = FALSE]
           y == [x EXCEPT !.total = Unsynced(x)]
           v == IF UpToDate(s, c, m) THEN y
                ELSE IF m.remaining = 0 /\ u.conn[p].ids # << >> THEN TriggerSync(u)
                ELSE FetchNextBatch(u, p)
<1>1. p \in Peers(n)
  BY DEF Reads
<1>2. s \in State(n) /\ c \in Conns /\ R2[p] \in Seq(Messages)
  BY ReadsFacts
<1>3. c.idsRequested /\ c.status = "active" /\ c.weNeed
  BY ReadIds
<1>4. OnIds(s, p, m) = v
  BY <1>3 DEF OnIds, TriggerSync, Joined, JoinedEnd, Unasked
<1>5. CASE UpToDate(s, c, m)
  <2> DEFINE d1 == [c EXCEPT !.idsRequested = FALSE, !.weNeed = FALSE]
  <2>1. x = [s EXCEPT !.conn[p] = d1]
    BY <1>1, <1>2 DEF State, Conns
  <2>2. d1 \in Conns /\ d1.status = c.status /\ ~d1.idsRequested /\ d1.ids = c.ids /\ d1.unfetched = c.unfetched
        /\ d1.syncRequested = c.syncRequested /\ d1.itemsRequested = c.itemsRequested
    <3> HIDE DEF c
    <3> QED BY <1>2 DEF Conns
  <2> HIDE DEF d1, x
  <2>3. Changed(n, s, x, p, d1)
    BY <1>1, <1>2, <2>1, <2>2, ChangeFacts
  <2>4. d1.ids = << >> /\ d1.unfetched = 0
    BY <1>5, <2>2 DEF UpToDate
  <2>5. ListOn(d1.ids, Linked(s), d1.unfetched)
    BY <1>1, <2>2 DEF Reads, Good, NodeInv, ConnInv
  <2>6. Leads(n, s, x, R2)
    BY <1>3, <2>2, <2>3, <2>4, <2>5, ReadIdsEnd
  <2>7. Leads(n, x, y, R2)
    BY <2>6, Counted DEF Leads
  <2>8. Leads(n, s, y, R2)
    BY <2>6, <2>7, LeadsTwice
  <2> QED BY <1>4, <1>5, <2>8
<1>6. CASE ~UpToDate(s, c, m)
  <2>1. Leads(n, s, t, R2) /\ Pending(t, p) = {}
        /\ t.conn[p].status = "active" /\ t.conn[p].weNeed /\ ~t.conn[p].idsRequested
        /\ t.conn[p].unfetched = m.remaining
    BY OnIdsMerges
  <2> HIDE DEF t
  <2>2. Leads(n, t, u, R2) /\ u.conn = t.conn /\ u.plan = t.plan
    BY <2>1, Counted DEF Leads
  <2> HIDE DEF u
  <2>3. Leads(n, s, u, R2) /\ Good(n, u, R2)
    <3>1. Leads(n, s, u, R2)
      BY <2>1, <2>2, LeadsTwice
    <3> QED BY <3>1 DEF Leads
  <2>4. CASE m.remaining = 0 /\ u.conn[p].ids # << >>
    <3>1. Leads(n, u, TriggerSync(u), R2)
      BY <2>3, TriggerFacts
    <3>2. Leads(n, s, TriggerSync(u), R2)
      BY <2>3, <3>1, LeadsTwice
    <3> QED BY <1>4, <1>6, <2>4, <3>2
  <2>5. CASE ~(m.remaining = 0 /\ u.conn[p].ids # << >>)
    <3>1. u \in State(n) /\ Stock(u) /\ EndInv(u, p, R2[p])
      BY <1>1, <2>3, GoodEndInv
    <3>2. Pending(u, p) = {}
      BY <2>1, <2>2, PendingSame
    <3>3. MayAsk(u, p)
      BY <2>1, <2>2, <2>5, <3>2 DEF MayAsk
    <3> DEFINE w == FetchNextBatch(u, p)
    <3>4. w = FetchNextBatch(u, p)
      OBVIOUS
    <3> HIDE DEF w
    <3>5. Ended(n, u, w, p, R2[p])
      BY <1>1, <1>2, <3>1, <3>3, <3>4, FetchEnd
    <3>6. Leads(n, u, w, R2)
      BY <1>1, <2>3, <3>5, EndedGood
    <3>7. Leads(n, s, w, R2)
      BY <2>3, <3>6, LeadsTwice
    <3>8. v = FetchNextBatch(u, p)
      BY <1>6, <2>5
    <3> QED BY <1>4, <3>4, <3>7, <3>8
  <2> QED BY <2>4, <2>5
<1> QED BY <1>5, <1>6

-----------------------------------------------------------------------------
(* Blocks that arrive.                                                     *)

\* What is linked may grow.
LEMMA ConnGrows ==
  ASSUME NEW c, NEW P, NEW L, NEW L2, ConnInv(c, P, L), L \subseteq L2
  PROVE  ConnInv(c, P, L2)
<1>1. ListOn(c.ids, L2, c.unfetched)
  BY DEF ConnInv, ListOn
<1> QED BY <1>1 DEF ConnInv

\* t has the blocks of s and perhaps more, and connections that are like those of s.
Grows(n, s, t) ==
  /\ t \in State(n) /\ Stock(t) /\ s.stored \subseteq t.stored
  /\ t.blamed = s.blamed /\ t.plan = s.plan /\ t.activeRequests = s.activeRequests /\ t.toFetch = s.toFetch
  /\ t.out = s.out /\ Range(t.received) \subseteq Range(s.received)
  /\ \A p \in Peers(n) : Alike(s.conn[p], t.conn[p])

\* A good state stays so when blocks are stored.
LEMMA GoodGrows ==
  ASSUME NEW n, NEW s, NEW t, NEW R, Good(n, s, R), Grows(n, s, t)
  PROVE  Leads(n, s, t, R)
<1>1. Linked(s) \subseteq Linked(t)
  BY LinkedGrows DEF Grows
<1>2. ASSUME NEW p \in Peers(n)
      PROVE  /\ Lesser(s.conn[p], t.conn[p])
             /\ ConnInv(t.conn[p], Pending(t, p), Linked(t))
             /\ Pair(t.conn[p], Linked(t), t.out[p], R[p])
  <2> DEFINE c == s.conn[p]
             d == t.conn[p]
  <2>1. Alike(c, d) /\ t.out[p] = s.out[p]
    BY DEF Grows
  <2>2. ConnInv(c, Pending(s, p), Linked(s)) /\ Pair(c, Linked(s), s.out[p], R[p])
    BY DEF Good, NodeInv
  <2>3. Pending(t, p) = Pending(s, p)
    <3>1. t.plan = s.plan /\ t.conn[p].syncRequested = s.conn[p].syncRequested
      BY <2>1 DEF Grows, Alike
    <3> QED BY <3>1, PendingSame
  <2> HIDE DEF c, d
  <2>4. ConnInv(c, Pending(s, p), Linked(t))
    BY <1>1, <2>2, ConnGrows
  <2>5. Pair(c, Linked(t), s.out[p], R[p])
    <3>1. Follows(c, c, Linked(t)) /\ Greets(c, R[p])
      BY <2>2 DEF Follows, Pair
    <3> QED BY <1>1, <2>2, <3>1, PairGrows
  <2>6. /\ Lesser(c, d) /\ ConnInv(d, Pending(s, p), Linked(t))
        /\ Pair(d, Linked(t), s.out[p], R[p])
    BY <2>1, <2>4, <2>5, AlikeFacts
  <2> QED BY <2>1, <2>3, <2>6 DEF c, d
<1>3. t \in State(n) /\ Stock(t) /\ t.plan = s.plan /\ t.activeRequests = s.activeRequests /\ t.toFetch = s.toFetch
      /\ Range(t.received) \subseteq Range(s.received) /\ t.out = s.out
  BY DEF Grows
<1>4. t.blamed = {} /\ R \in [Peers(n) -> Queues]
  BY DEF Grows, Good, NodeInv
<1>5. Good(n, t, R)
  BY <1>2, <1>3, <1>4, GoodEnds
<1> QED BY <1>3, <1>5, QuietSame DEF Leads

\* Every connection is like itself.
LEMMA AlikeSame ==
  ASSUME NEW c PROVE Alike(c, c)
BY DEF Alike

\* client_impl::on_new_block leaves the node alone.
Handled(n, s, t, b) ==
  /\ t \in State(n) /\ Stock(t) /\ b \in t.stored /\ s.stored \subseteq t.stored
  /\ t.conn = s.conn /\ t.out = s.out /\ t.blamed = s.blamed /\ t.plan = s.plan
  /\ t.activeRequests = s.activeRequests /\ t.toFetch = s.toFetch /\ t.received = s.received
  /\ t.recent = s.recent

\* push_block stores the block; the new head, if there is one, is linked.
LEMMA PushFacts ==
  ASSUME NEW n, NEW s \in State(n), Stock(s), NEW b \in Blocks
  PROVE  Handled(n, s, PushBlock(s, b), b)
<1> DEFINE known == IF \E c \in s.stored : Prev[c] = b THEN s.known ELSE s.known \cup {b}
           t == [s EXCEPT !.stored = @ \cup {b}, !.known = known]
           h == IF b \in Linked(t) /\ (Prev[b] = s.head \/ Num(b) > Num(s.head)) THEN b ELSE s.head
           u == [t EXCEPT !.head = h]
<1>1. PushBlock(s, b) = u
  <2>1. t = [s EXCEPT !.stored = @ \cup {b},
                      !.known = IF \E c \in s.stored : Prev[c] = b THEN @ ELSE @ \cup {b}]
    BY DEF State
  <2>2. t.head = s.head
    BY DEF State
  <2> QED BY <2>1, <2>2 DEF PushBlock, State
<1>2. s.head \in Linked(s) \cup {0} /\ s.known \subseteq s.stored /\ s.recent \subseteq s.stored \cup {0}
  BY DEF Stock
<1>3. known \subseteq s.stored \cup {b} /\ known \subseteq Blocks
  BY <1>2, StateFields
<1>4. s.stored \cup {b} \subseteq Blocks /\ s.head \in 0..NBlocks /\ b \in 0..NBlocks
  <2>1. b \in 0..NBlocks
    BY BlockAssumption DEF Blocks
  <2> QED BY <2>1, StateFields
<1> HIDE DEF known
<1>5. t \in State(n) /\ t.stored = s.stored \cup {b} /\ t.known = known /\ t.recent = s.recent
      /\ t.conn = s.conn /\ t.out = s.out /\ t.blamed = s.blamed /\ t.plan = s.plan
      /\ t.activeRequests = s.activeRequests /\ t.toFetch = s.toFetch /\ t.received = s.received
  BY <1>3, <1>4 DEF State
<1> HIDE DEF t
<1>6. h \in Linked(t) \cup {0} /\ h \in 0..NBlocks
  <2>1. Linked(s) \subseteq Linked(t)
    BY <1>5, LinkedGrows
  <2> QED BY <1>2, <1>4, <2>1
<1> HIDE DEF h
<1>7. u \in State(n) /\ u.head = h /\ u.stored = t.stored /\ u.known = t.known /\ u.recent = t.recent
      /\ u.conn = t.conn /\ u.out = t.out /\ u.blamed = t.blamed /\ u.plan = t.plan
      /\ u.activeRequests = t.activeRequests /\ u.toFetch = t.toFetch /\ u.received = t.received
  BY <1>5, <1>6 DEF State
<1> HIDE DEF u
<1>8. Linked(u) = Linked(t)
  BY <1>7, SameLinked
<1>9. Stock(u)
  BY <1>2, <1>3, <1>5, <1>6, <1>7, <1>8 DEF Stock
<1> QED BY <1>1, <1>5, <1>7, <1>9 DEF Handled

\* A block that was accepted, or is handled now, is stored.
LEMMA HandleFacts ==
  ASSUME NEW n, NEW s \in State(n), Stock(s), NEW b \in Blocks
  PROVE  Handled(n, s, IF b \in s.recent THEN s ELSE HandleBlock(s, b), b)
<1> DEFINE t == IF b \in s.recent THEN s ELSE HandleBlock(s, b)
<1>1. b # 0
  BY BlockAssumption DEF Blocks
<1>2. CASE b \in s.recent \/ HasItem(s, b)
  <2>1. t = s
    BY <1>2 DEF HandleBlock
  <2>2. b \in s.stored
    BY <1>1, <1>2 DEF Stock, HasItem
  <2> HIDE DEF t
  <2>3. Handled(n, s, t, b)
    BY <2>1, <2>2 DEF Handled
  <2> QED BY <2>3 DEF t
<1>3. CASE b \notin s.recent /\ ~HasItem(s, b)
  <2>1. t = PushBlock(s, b)
    BY <1>3 DEF HandleBlock
  <2> HIDE DEF t
  <2>2. Handled(n, s, t, b)
    BY <2>1, PushFacts
  <2> QED BY <2>2 DEF t
<1> QED BY <1>2, <1>3

\* The client's handling of a block leads to a good state.
LEMMA HandledGood ==
  ASSUME NEW n, NEW s, NEW t, NEW R, Good(n, s, R), NEW b, Handled(n, s, t, b)
  PROVE  Leads(n, s, t, R)
<1>1. Grows(n, s, t)
  BY AlikeSame DEF Handled, Grows
<1> QED BY <1>1, GoodGrows

\* broadcast, of a transaction or of a block that is stored
LEMMA BroadcastFacts ==
  ASSUME NEW n, NEW s, NEW R, Good(n, s, R), NEW i \in Items, i \in Blocks => i \in s.stored
  PROVE  Leads(n, s, Broadcast(s, i), R)
<1> DEFINE r == IF i \in Blocks THEN s.recent \cup {i} ELSE s.recent
           k == [x \in DOMAIN s.cache \cup {i} |-> IF x \in DOMAIN s.cache THEN s.cache[x] ELSE s.clock]
           t == [s EXCEPT !.recent = r, !.cache = k, !.newInventory = @ \cup {i}]
<1>1. s \in State(n) /\ Stock(s)
  BY DEF Good, NodeInv
<1>2. Broadcast(s, i) = t
  BY <1>1 DEF Broadcast, State
<1>3. r \subseteq 0..NBlocks /\ r \subseteq s.stored \cup {0}
  <2>1. s.recent \subseteq 0..NBlocks
    BY <1>1, StateFields
  <2>2. i \in Blocks => i \in 0..NBlocks
    BY BlockAssumption DEF Blocks
  <2> QED BY <1>1, <2>1, <2>2 DEF Stock
<1>4. k \in Caches
  <2>1. s.cache \in Caches /\ s.clock \in Nat
    BY <1>1 DEF State
  <2>2. PICK D \in SUBSET Items : s.cache \in [D -> Nat]
    BY <2>1 DEF Caches
  <2>3. k \in [D \cup {i} -> Nat] /\ D \cup {i} \in SUBSET Items
    BY <2>1, <2>2
  <2> HIDE DEF k
  <2> QED BY <2>3 DEF Caches
<1> HIDE DEF r, k
<1>5. t \in State(n) /\ t.recent = r
  BY <1>1, <1>3, <1>4 DEF State
<1>6. t.head = s.head /\ t.stored = s.stored /\ t.known = s.known /\ t.blamed = s.blamed /\ t.plan = s.plan
      /\ t.activeRequests = s.activeRequests /\ t.received = s.received /\ t.toFetch = s.toFetch
      /\ t.conn = s.conn /\ t.out = s.out
  BY <1>1 DEF State
<1> HIDE DEF t
<1>7. Stock(t)
  BY <1>1, <1>3, <1>5, <1>6, SameLinked DEF Stock
<1>8. Grows(n, s, t)
  BY <1>5, <1>6, <1>7, AlikeSame DEF Grows
<1> QED BY <1>2, <1>8, GoodGrows

\* blockchain_tied_message_cache::block_accepted
LEMMA BlockAcceptedFacts ==
  ASSUME NEW n, NEW s, NEW R, Good(n, s, R)
  PROVE  Leads(n, s, BlockAccepted(s), R)
<1> DEFINE now == s.clock + 1
           kept == {x \in DOMAIN s.cache : now <= CacheDuration \/ s.cache[x] >= now - CacheDuration}
           k == [x \in kept |-> s.cache[x]]
           t == [s EXCEPT !.clock = now, !.cache = k]
<1>1. s \in State(n)
  BY DEF Good, NodeInv
<1>2. BlockAccepted(s) = t
  BY <1>1 DEF BlockAccepted, State
<1>3. s.cache \in Caches /\ s.clock \in Nat
  BY <1>1 DEF State
<1>4. k \in Caches
  <2>1. PICK D \in SUBSET Items : s.cache \in [D -> Nat]
    BY <1>3 DEF Caches
  <2>2. kept \subseteq D
    BY <2>1
  <2> HIDE DEF kept
  <2>3. k \in [kept -> Nat] /\ kept \in SUBSET Items
    BY <2>1, <2>2
  <2> HIDE DEF k
  <2> QED BY <2>3 DEF Caches
<1>5. now \in Nat
  BY <1>3
<1> HIDE DEF k, now
<1>6. t \in State(n)
  BY <1>1, <1>4, <1>5 DEF State
<1>7. Same(s, t) /\ t.conn = s.conn /\ t.out = s.out
  BY <1>1 DEF State, Same
<1> HIDE DEF t
<1> QED BY <1>2, <1>6, <1>7, GoodSame

\* process_block_during_normal_operation
LEMMA NormalBlockFacts ==
  ASSUME NEW n, NEW s, NEW R, Good(n, s, R), NEW b \in Blocks
  PROVE  Leads(n, s, NormalBlock(s, b), R)
<1> DEFINE h == IF b \in s.recent THEN s ELSE HandleBlock(s, b)
           t == TriggerItems(h)
           offered == {p \in Active(t) : b \in t.conn[p].advertisedToUs}
           end(p) == IF p \notin offered THEN t.conn[p]
                     ELSE [t.conn[p] EXCEPT !.advertisedToUs = @ \ {b}, !.advertised = @ \cup {b}]
           conn == [p \in Peers(n) |-> end(p)]
           u == [t EXCEPT !.conn = conn]
           v == Broadcast(u, b)
<1>1. s \in State(n) /\ Stock(s)
  BY DEF Good, NodeInv
<1>2. Handled(n, s, h, b)
  BY <1>1, HandleFacts
<1> HIDE DEF h
<1>3. Leads(n, s, h, R) /\ Good(n, h, R)
  BY <1>2, HandledGood DEF Leads
<1>4. Leads(n, h, t, R) /\ Good(n, t, R)
  BY <1>3, TriggerFacts DEF Leads
<1>5. t \in State(n) /\ Stock(t) /\ t.stored = h.stored
  <2>1. t.stored = h.stored
    BY <1>2 DEF TriggerItems, Handled, State
  <2> QED BY <1>4, <2>1 DEF Good, NodeInv
<1>6. NormalBlock(s, b) = BlockAccepted(v)
  <2>1. DOMAIN t.conn = Peers(n)
    BY <1>5, StateFields
  <2>2. u = [t EXCEPT !.conn = [p \in DOMAIN @ |-> end(p)]]
    <3> HIDE DEF t, offered, end
    <3> QED BY <2>1
  <2> QED BY <2>2 DEF NormalBlock, h
<1> HIDE DEF t
<1>7. ASSUME NEW p \in Peers(n) PROVE end(p) \in Conns /\ Alike(t.conn[p], end(p))
  <2> DEFINE c == t.conn[p]
  <2>1. c \in Conns
    BY <1>5, StateFields
  <2>2. b \in Items
    BY DEF Items
  <2> HIDE DEF offered
  <2>3. CASE p \notin offered
    BY <2>1, <2>3, AlikeSame
  <2>4. CASE p \in offered
    <3> DEFINE e == [c EXCEPT !.advertisedToUs = @ \ {b}, !.advertised = @ \cup {b}]
    <3>1. end(p) = e
      BY <2>4
    <3> HIDE DEF c
    <3>2. e \in Conns
      BY <2>1, <2>2 DEF Conns
    <3>3. Alike(c, e)
      BY <2>1 DEF Conns, Alike
    <3> HIDE DEF e, end
    <3> QED BY <3>1, <3>2, <3>3 DEF c
  <2> QED BY <2>3, <2>4
<1> HIDE DEF end
<1>8. conn \in [Peers(n) -> Conns] /\ \A p \in Peers(n) : Alike(t.conn[p], conn[p])
  BY <1>7
<1> HIDE DEF conn
<1>9. u \in State(n) /\ u.conn = conn
  BY <1>5, <1>8 DEF State
<1>10. u.head = t.head /\ u.stored = t.stored /\ u.known = t.known /\ u.blamed = t.blamed /\ u.plan = t.plan
       /\ u.activeRequests = t.activeRequests /\ u.received = t.received /\ u.toFetch = t.toFetch
       /\ u.recent = t.recent /\ u.out = t.out
  BY <1>5 DEF State
<1> HIDE DEF u
<1>11. Grows(n, t, u)
  <2>1. Stock(u)
    BY <1>5, <1>10, SameLinked DEF Stock
  <2> QED BY <1>8, <1>9, <1>10, <2>1 DEF Grows
<1>12. Leads(n, t, u, R)
  BY <1>4, <1>11, GoodGrows
<1>13. Leads(n, u, v, R)
  <2>1. b \in u.stored /\ b \in Items
    BY <1>2, <1>5, <1>10 DEF Handled, Items
  <2> QED BY <1>12, <2>1, BroadcastFacts DEF Leads
<1> HIDE DEF v
<1>14. Leads(n, v, BlockAccepted(v), R)
  BY <1>13, BlockAcceptedFacts DEF Leads
<1>15. Leads(n, s, u, R)
  <2>1. Leads(n, s, t, R)
    BY <1>3, <1>4, LeadsTwice
  <2> QED BY <1>12, <2>1, LeadsTwice
<1>16. Leads(n, s, BlockAccepted(v), R)
  <2>1. Leads(n, s, v, R)
    BY <1>13, <1>15, LeadsTwice
  <2> QED BY <1>14, <2>1, LeadsTwice
<1> QED BY <1>6, <1>16

\* process_ordinary_message
LEMMA OnTrxFacts ==
  ASSUME NEW n, NEW s, NEW p, NEW R, NEW R2, Reads(n, s, p, R, R2),
         NEW x \in TrxIds, R[p][1] \in Replies(x)
  PROVE  Leads(n, s, OnTrx(s, p, x), R2)
<1> DEFINE d == [s.conn[p] EXCEPT !.itemsRequested = @ \ {x}]
           t == [s EXCEPT !.conn[p].itemsRequested = @ \ {x}]
           u == [t EXCEPT !.pool = @ \cup {x}]
<1>1. p \in Peers(n) /\ s \in State(n)
  BY ReadsFacts DEF Reads
<1>2. x \in Items /\ x \notin Blocks
  BY BoundAssumption, BlockAssumption DEF Items, Blocks
<1>3. Leads(n, s, t, R2)
  <2>1. d \in Conns /\ Unflagged(s.conn[p], d, x) /\ t = [s EXCEPT !.conn[p] = d]
    BY <1>1, UnflagItem
  <2> HIDE DEF d, t
  <2> QED BY <1>2, <2>1, ReadReply
<1>4. x \in s.conn[p].itemsRequested
  <2>1. s.conn[p] \in Conns
    BY <1>1, StateFields
  <2>2. s.conn[p].syncRequested \subseteq Blocks
    BY <2>1 DEF Conns
  <2> QED BY <1>2, <2>2, ReplyAsked
<1>5. OnTrx(s, p, x) = Broadcast(TriggerItems(u), x)
  <2>1. [s EXCEPT !.conn[p].itemsRequested = @ \ {x}, !.pool = @ \cup {x}] = u
    BY <1>1 DEF State
  <2> HIDE DEF u
  <2> QED BY <1>4, <2>1 DEF OnTrx
<1> HIDE DEF t
<1>6. t \in State(n) /\ Good(n, t, R2)
  BY <1>3 DEF Leads, Good, NodeInv
<1>7. u \in State(n) /\ Same(t, u) /\ u.conn = t.conn /\ u.out = t.out
  BY <1>6 DEF State, Same
<1> HIDE DEF u
<1>8. Leads(n, t, u, R2)
  BY <1>6, <1>7, GoodSame
<1>9. Leads(n, u, TriggerItems(u), R2)
  BY <1>8, TriggerFacts DEF Leads
<1>10. Leads(n, TriggerItems(u), Broadcast(TriggerItems(u), x), R2)
  BY <1>2, <1>9, BroadcastFacts DEF Leads
<1>11. Leads(n, s, TriggerItems(u), R2)
  <2>1. Leads(n, s, u, R2)
    BY <1>3, <1>8, LeadsTwice
  <2> QED BY <1>9, <2>1, LeadsTwice
<1>12. Leads(n, s, Broadcast(TriggerItems(u), x), R2)
  BY <1>10, <1>11, LeadsTwice
<1> QED BY <1>5, <1>12

\* Every connection may go on by itself: f[p] is what becomes of it.
Together(n, s, f) ==
  [s EXCEPT !.conn = [p \in Peers(n) |-> f[p].conn[p]], !.out = [p \in Peers(n) |-> f[p].out[p]]]

\* A good state stays so when every connection goes on by itself.
LEMMA EndedTogether ==
  ASSUME NEW n, NEW s, NEW R, Good(n, s, R), NEW f,
         \A p \in Peers(n) : Ended(n, s, f[p], p, R[p])
  PROVE  Leads(n, s, Together(n, s, f), R)
<1> DEFINE t == Together(n, s, f)
           conn == [p \in Peers(n) |-> f[p].conn[p]]
           out == [p \in Peers(n) |-> f[p].out[p]]
<1>1. s \in State(n) /\ Stock(s) /\ s.blamed = {} /\ R \in [Peers(n) -> Queues]
  BY DEF Good, NodeInv
<1>2. ASSUME NEW p \in Peers(n) PROVE f[p].conn[p] \in Conns /\ f[p].out[p] \in Queues
  <2>1. f[p] \in State(n)
    BY DEF Ended
  <2> QED BY <2>1, StateFields DEF Queues
<1>3. conn \in [Peers(n) -> Conns] /\ out \in [Peers(n) -> Queues]
  BY <1>2
<1>4. \A p \in Peers(n) : conn[p] = f[p].conn[p] /\ out[p] = f[p].out[p]
  OBVIOUS
<1>5. t = [s EXCEPT !.conn = conn, !.out = out]
  BY DEF Together
<1> HIDE DEF t, conn, out
<1>6. t \in State(n) /\ t.conn = conn /\ t.out = out
  BY <1>1, <1>3, <1>5 DEF State
<1>7. Same(s, t)
  BY <1>1, <1>5 DEF State, Same
<1>8. Linked(t) = Linked(s) /\ Stock(t) /\ t.blamed = {}
  BY <1>1, <1>7, SameLinked DEF Same, Stock
<1>9. ASSUME NEW p \in Peers(n)
      PROVE  /\ Lesser(s.conn[p], t.conn[p])
             /\ ConnInv(t.conn[p], Pending(t, p), Linked(t))
             /\ Pair(t.conn[p], Linked(t), t.out[p], R[p])
             /\ Quiet(s.out[p], t.out[p])
  <2> DEFINE v == f[p]
  <2>1. Ended(n, s, v, p, R[p])
    OBVIOUS
  <2>2. t.conn[p] = v.conn[p] /\ t.out[p] = v.out[p]
    BY <1>4, <1>6
  <2> HIDE DEF v
  <2>3. Same(s, v) /\ Lesser(s.conn[p], v.conn[p]) /\ EndInv(v, p, R[p]) /\ Quiet(s.out[p], v.out[p])
    BY <2>1 DEF Ended
  <2>4. Linked(v) = Linked(s)
    BY <2>3, SameLinked DEF Same
  <2>5. Pending(t, p) = Pending(v, p)
    <3>1. t.plan = v.plan /\ t.conn[p].syncRequested = v.conn[p].syncRequested
      BY <1>7, <2>2, <2>3 DEF Same
    <3> QED BY <3>1, PendingSame
  <2> QED BY <1>8, <2>2, <2>3, <2>4, <2>5 DEF EndInv
<1>10. t.plan = s.plan /\ t.activeRequests = s.activeRequests /\ t.toFetch = s.toFetch /\ t.received = s.received
  BY <1>7 DEF Same
<1>11. Good(n, t, R)
  BY <1>1, <1>6, <1>8, <1>9, <1>10, GoodEnds
<1>12. Leads(n, s, t, R)
  BY <1>9, <1>11 DEF Leads
<1> QED BY <1>12 DEF t

\* A connection that does not go on.
LEMMA EndedSelf ==
  ASSUME NEW n, NEW s, NEW R, Good(n, s, R), NEW p \in Peers(n)
  PROVE  Ended(n, s, s, p, R[p])
<1>1. s \in State(n) /\ EndInv(s, p, R[p])
  BY GoodEndInv
<1>2. Same(s, s)
  BY DEF Same
<1> QED BY <1>1, <1>2, LesserSame, QuietSame DEF Ended

-----------------------------------------------------------------------------
\* b, which is linked now and is not asked for, leaves the lists it begins.
TakenEnd(s, p, b) ==
  IF p \notin Offering(s, b) THEN s.conn[p]
  ELSE [s.conn[p] EXCEPT !.ids = Tail(@), !.lastSeen = b, !.lastNum = @ + 1]

Taken(s, b) ==
  [s EXCEPT !.total = Decrement(@), !.recent = @ \cup {b},
            !.conn = [p \in DOMAIN @ |-> TakenEnd(s, p, b)]]

Accepts(n, s, R, b) ==
  /\ Good(n, s, R) /\ b \in Blocks /\ b \in Linked(s)
  /\ \A p \in Peers(n) : b \notin Pending(s, p)

\* The connection c to a peer that has b next becomes d.
Popped(c, d, b) ==
  /\ d \in Conns /\ d.ids = Tail(c.ids) /\ d.unfetched = c.unfetched /\ d.status = c.status
  /\ d.weNeed = c.weNeed /\ d.idsRequested = c.idsRequested
  /\ d.syncRequested = c.syncRequested /\ d.itemsRequested = c.itemsRequested

\* A peer that has b next loses it from its list, and nothing else.
LEMMA PoppedFacts ==
  ASSUME NEW n, NEW s \in State(n), NEW b \in Blocks, NEW p \in Offering(s, b)
  PROVE  /\ p \in Peers(n) /\ s.conn[p].status = "active"
         /\ s.conn[p].ids # << >> /\ s.conn[p].ids[1] = b
         /\ Popped(s.conn[p], TakenEnd(s, p, b), b)
<1> DEFINE c == s.conn[p]
           d == [c EXCEPT !.ids = Tail(@), !.lastSeen = b, !.lastNum = @ + 1]
<1>1. p \in Peers(n)
  BY StateFields DEF Offering, Active
<1>2. c \in Conns /\ c.status = "active" /\ c.ids # << >> /\ c.ids[1] = b
  BY <1>1, StateFields DEF Offering, Active
<1>3. TakenEnd(s, p, b) = d
  BY DEF TakenEnd
<1> HIDE DEF c
<1>4. c.ids \in Seq(Blocks) /\ c.lastNum \in Nat
  BY <1>2 DEF Conns
<1>5. Tail(c.ids) \in Seq(Blocks) /\ c.lastNum + 1 \in Nat /\ b \in 0..NBlocks
  <2>1. Tail(c.ids) \in Seq(Blocks)
    BY <1>2, <1>4
  <2>2. b \in 0..NBlocks
    BY BlockAssumption DEF Blocks
  <2> QED BY <1>4, <2>1, <2>2
<1>6. d \in Conns
  BY <1>2, <1>5 DEF Conns
<1>7. d.ids = Tail(c.ids) /\ d.unfetched = c.unfetched /\ d.status = c.status
      /\ d.weNeed = c.weNeed /\ d.idsRequested = c.idsRequested
      /\ d.syncRequested = c.syncRequested /\ d.itemsRequested = c.itemsRequested
  BY <1>2 DEF Conns
<1> HIDE DEF d
<1>8. Popped(c, d, b)
  BY <1>6, <1>7 DEF Popped
<1> QED BY <1>1, <1>2, <1>3, <1>8 DEF c

\* A popped end is in order.
LEMMA PoppedEnd ==
  ASSUME NEW c \in Conns, NEW d, NEW b \in Blocks, Popped(c, d, b), c.ids # << >>, c.ids[1] = b,
         c.status = "active",
         NEW P, NEW L, ConnInv(c, P, L), b \in L, b \notin P, NEW req, NEW rep, Pair(c, L, req, rep)
  PROVE  ConnInv(d, P, L) /\ Pair(d, L, req, rep) /\ Lesser(c, d)
<1>1. c.ids \in Seq(Blocks)
  BY DEF Conns
<1>2. Segment(c.ids) /\ c.ids[Len(c.ids)] + c.unfetched <= NBlocks
  BY DEF ConnInv, ListOn
<1> DEFINE q == c.ids
<1>3. /\ Tail(q) \in Seq(Blocks) /\ Segment(Tail(q)) /\ Range(q) = {q[1]} \cup Range(Tail(q))
      /\ Tail(q) # << >> => Prev[Tail(q)[1]] = q[1] /\ Tail(q)[Len(Tail(q))] = q[Len(q)]
  <2>1. q \in Seq(Blocks) /\ q # << >> /\ Segment(q)
    BY <1>1, <1>2
  <2> HIDE DEF q
  <2> QED BY <2>1, SegmentTail
<1>4. ListOn(d.ids, L, d.unfetched)
  BY <1>2, <1>3 DEF ListOn, Popped
<1>5. P \subseteq Range(d.ids)
  BY <1>3 DEF Popped, ConnInv
<1>6. c.weNeed /\ (c.idsRequested => c.unfetched # 0) /\ (P # {} => ~c.idsRequested)
  BY DEF ConnInv
<1>7. ConnInv(d, P, L)
  BY <1>4, <1>5, <1>6 DEF ConnInv, Popped
<1>8. Pair(d, L, req, rep)
  <2>1. Follows(c, d, L)
    BY <1>3 DEF Follows, Popped
  <2>2. Greets(d, rep)
    BY DEF Pair, Greets, Popped
  <2> QED BY <2>1, <2>2, PairGrows
<1>9. Lesser(c, d)
  BY DEF Lesser, Popped
<1> QED BY <1>7, <1>8, <1>9

\* b leaves the lists that begin with it, in a good state that has b linked.
LEMMA TakenFacts ==
  ASSUME NEW n, NEW s, NEW R, NEW b, Accepts(n, s, R, b)
  PROVE  /\ Leads(n, s, Taken(s, b), R)
         /\ Taken(s, b).plan = s.plan
         /\ \A p \in Peers(n) : Taken(s, b).conn[p] = TakenEnd(s, p, b)
<1> DEFINE t == Taken(s, b)
           k == Decrement(s.total)
           conn == [p \in Peers(n) |-> TakenEnd(s, p, b)]
<1>1. s \in State(n) /\ Stock(s) /\ s.blamed = {} /\ R \in [Peers(n) -> Queues] /\ Good(n, s, R)
  BY DEF Accepts, Good, NodeInv
<1>2. b \in Blocks /\ b \in Linked(s) /\ \A p \in Peers(n) : b \notin Pending(s, p)
  BY DEF Accepts
<1>3. ASSUME NEW p \in Peers(n)
      PROVE  /\ TakenEnd(s, p, b) \in Conns /\ Lesser(s.conn[p], TakenEnd(s, p, b))
             /\ ConnInv(TakenEnd(s, p, b), Pending(s, p), Linked(s))
             /\ Pair(TakenEnd(s, p, b), Linked(s), s.out[p], R[p])
             /\ TakenEnd(s, p, b).syncRequested = s.conn[p].syncRequested
  <2> DEFINE c == s.conn[p]
             d == TakenEnd(s, p, b)
  <2>1. c \in Conns
    BY <1>1, StateFields
  <2>2. ConnInv(c, Pending(s, p), Linked(s)) /\ Pair(c, Linked(s), s.out[p], R[p])
    BY <1>1 DEF Good, NodeInv
  <2>3. CASE p \notin Offering(s, b)
    <3>1. d = c
      BY <2>3 DEF TakenEnd
    <3> HIDE DEF d
    <3>2. d \in Conns /\ Lesser(c, d) /\ ConnInv(d, Pending(s, p), Linked(s)) /\ Pair(d, Linked(s), s.out[p], R[p])
      BY <2>1, <2>2, <3>1, LesserSame
    <3> QED BY <3>1, <3>2 DEF d
  <2>4. CASE p \in Offering(s, b)
    <3>1. c.status = "active" /\ c.ids # << >> /\ c.ids[1] = b /\ Popped(c, d, b)
      BY <1>1, <1>2, <2>4, PoppedFacts
    <3> HIDE DEF c, d
    <3>2. ConnInv(d, Pending(s, p), Linked(s)) /\ Pair(d, Linked(s), s.out[p], R[p]) /\ Lesser(c, d)
      BY <1>2, <2>1, <2>2, <3>1, PoppedEnd
    <3>3. d \in Conns /\ d.syncRequested = c.syncRequested
      BY <3>1 DEF Popped
    <3> QED BY <3>2, <3>3 DEF c, d
  <2> QED BY <2>3, <2>4
<1>4. conn \in [Peers(n) -> Conns] /\ \A p \in Peers(n) : conn[p] = TakenEnd(s, p, b)
  BY <1>3
<1>5. k \in 0..UintMax
  <2>1. s.total \in 0..UintMax /\ UintMax \in Nat
    BY <1>1, BoundAssumption DEF State
  <2> QED BY <2>1 DEF Decrement
<1>6. t = [s EXCEPT !.total = k, !.recent = @ \cup {b}, !.conn = conn]
  <2>1. DOMAIN s.conn = Peers(n)
    BY <1>1, StateFields
  <2> QED BY <2>1 DEF Taken
<1>7. b \in 0..NBlocks /\ b \in s.stored
  <2>1. b \in 0..NBlocks
    BY <1>2, BlockAssumption DEF Blocks
  <2> QED BY <1>2, <2>1 DEF Linked
<1> HIDE DEF t, conn, k
<1>8. t \in State(n) /\ t.conn = conn /\ t.recent = s.recent \cup {b}
  BY <1>1, <1>4, <1>5, <1>6, <1>7 DEF State
<1>9. t.head = s.head /\ t.stored = s.stored /\ t.known = s.known /\ t.blamed = s.blamed /\ t.plan = s.plan
      /\ t.activeRequests = s.activeRequests /\ t.received = s.received /\ t.toFetch = s.toFetch
      /\ t.out = s.out
  BY <1>1, <1>6 DEF State
<1>10. Linked(t) = Linked(s)
  BY <1>9, SameLinked
<1>11. Stock(t) /\ t.blamed = {}
  BY <1>1, <1>7, <1>8, <1>9, <1>10 DEF Stock
<1>12. ASSUME NEW p \in Peers(n)
       PROVE  /\ Lesser(s.conn[p], t.conn[p])
              /\ ConnInv(t.conn[p], Pending(t, p), Linked(t))
              /\ Pair(t.conn[p], Linked(t), t.out[p], R[p])
  <2>1. t.conn[p] = TakenEnd(s, p, b)
    BY <1>4, <1>8
  <2>2. Pending(t, p) = Pending(s, p)
    BY <1>3, <1>9, <2>1, PendingSame
  <2> QED BY <1>3, <1>9, <1>10, <2>1, <2>2
<1>13. Good(n, t, R)
  BY <1>1, <1>8, <1>9, <1>11, <1>12, GoodEnds
<1>14. Leads(n, s, t, R)
  BY <1>9, <1>13, QuietSame DEF Leads
<1> QED BY <1>4, <1>8, <1>9, <1>14 DEF t

\* The end of process_backlog_of_sync_blocks's handling of b: each peer whose list
\* has run out is asked for more, each that is in sync gets a new round.
Round(s, t, b, p) ==
  IF p \in Offering(s, b) /\ t.conn[p].ids = << >> /\ s.conn[p].unfetched = 0 THEN FetchNextBatch(t, p)
  ELSE IF p \in Active(s) /\ s.conn[p].ids = << >> /\ ~s.conn[p].peerNeeds /\ ~s.conn[p].weNeed
  THEN StartSynchronizing(t, p) ELSE t

\* The new round with p may begin: nothing is asked of p, and no ids are on their way.
LEMMA RoundEnds ==
  ASSUME NEW n, NEW s, NEW R, NEW b, Accepts(n, s, R, b), NEW p \in Peers(n)
  PROVE  Ended(n, Taken(s, b), Round(s, Taken(s, b), b, p), p, R[p])
<1> DEFINE t == Taken(s, b)
           c == s.conn[p]
           v == Round(s, t, b, p)
<1>1. s \in State(n) /\ b \in Blocks /\ ConnInv(c, Pending(s, p), Linked(s)) /\ R \in [Peers(n) -> Queues]
  BY DEF Accepts, Good, NodeInv
<1>2. Good(n, t, R) /\ t.plan = s.plan /\ t.conn[p] = TakenEnd(s, p, b)
  BY TakenFacts DEF Leads
<1>3. t \in State(n) /\ Stock(t) /\ EndInv(t, p, R[p]) /\ R[p] \in Seq(Messages)
  <2>1. R[p] \in Seq(Messages)
    BY <1>1 DEF Queues
  <2> QED BY <1>2, <2>1, GoodEndInv
<1> HIDE DEF t
<1>4. CASE p \in Offering(s, b) /\ t.conn[p].ids = << >> /\ s.conn[p].unfetched = 0
  <2> DEFINE d == TakenEnd(s, p, b)
  <2>1. c.status = "active" /\ c.ids # << >> /\ Popped(c, d, b)
    BY <1>1, <1>4, PoppedFacts
  <2>2. d.status = "active" /\ d.weNeed = c.weNeed /\ d.idsRequested = c.idsRequested /\ d.unfetched = c.unfetched
    BY <2>1 DEF Popped
  <2>3. c.weNeed /\ ~c.idsRequested
    BY <1>1, <1>4, <2>1 DEF ConnInv
  <2>4. Pending(t, p) = {}
    <3>1. Range(<< >>) = {}
      BY DEF Range
    <3> QED BY <1>3, <1>4, <3>1 DEF EndInv, ConnInv
  <2> HIDE DEF d
  <2>5. t.conn[p] = d
    BY <1>2 DEF d
  <2>6. MayAsk(t, p)
    BY <1>4, <2>2, <2>3, <2>4, <2>5 DEF MayAsk
  <2>7. v = FetchNextBatch(t, p)
    BY <1>4 DEF Round
  <2> HIDE DEF v
  <2>8. Ended(n, t, v, p, R[p])
    BY <1>3, <2>6, <2>7, FetchEnd
  <2> QED BY <2>8 DEF v, t
<1>5. CASE /\ ~(p \in Offering(s, b) /\ t.conn[p].ids = << >> /\ s.conn[p].unfetched = 0)
           /\ p \in Active(s) /\ c.ids = << >> /\ ~c.peerNeeds /\ ~c.weNeed
  <2>1. p \notin Offering(s, b)
    BY <1>5 DEF Offering
  <2>2. t.conn[p] = c
    BY <1>2, <2>1 DEF TakenEnd
  <2>3. c.status = "active" /\ ~c.idsRequested /\ c.unfetched = 0
    BY <1>1, <1>5 DEF ConnInv, Active
  <2>4. Idle(t, p)
    BY <1>5, <2>2, <2>3 DEF Idle
  <2>5. v = StartSynchronizing(t, p)
    BY <1>5 DEF Round
  <2> HIDE DEF v
  <2>6. Ended(n, t, v, p, R[p])
    BY <1>3, <2>4, <2>5, StartEnd
  <2> QED BY <2>6 DEF v, t
<1>6. CASE /\ ~(p \in Offering(s, b) /\ t.conn[p].ids = << >> /\ s.conn[p].unfetched = 0)
           /\ ~(p \in Active(s) /\ c.ids = << >> /\ ~c.peerNeeds /\ ~c.weNeed)
  <2>1. v = t
    BY <1>6 DEF Round
  <2>2. Ended(n, t, t, p, R[p])
    BY <1>2, EndedSelf
  <2> QED BY <2>1, <2>2 DEF t
<1> QED BY <1>4, <1>5, <1>6

\* process_backlog_of_sync_blocks, for a block that the client took
LEMMA SyncAcceptedFacts ==
  ASSUME NEW n, NEW s, NEW R, NEW b, Accepts(n, s, R, b)
  PROVE  Leads(n, s, SyncAccepted(s, b), R)
<1> DEFINE t == Taken(s, b)
           f == [p \in Peers(n) |-> Round(s, t, b, p)]
<1>1. Leads(n, s, t, R) /\ Good(n, t, R) /\ t \in State(n) /\ s \in State(n)
  BY TakenFacts DEF Leads, Good, NodeInv, Accepts
<1>2. DOMAIN t.conn = Peers(n) /\ DOMAIN t.out = Peers(n) /\ DOMAIN s.conn = Peers(n)
  BY <1>1, StateFields
<1>3. SyncAccepted(s, b) = Together(n, t, f)
  <2> DEFINE popped == Offering(s, b)
             end(p) == IF p \notin popped THEN s.conn[p]
                       ELSE [s.conn[p] EXCEPT !.ids = Tail(@), !.lastSeen = b, !.lastNum = @ + 1]
             taken == [s EXCEPT !.total = Decrement(@), !.recent = @ \cup {b},
                                !.conn = [p \in DOMAIN @ |-> end(p)]]
             newlyEmpty == {p \in popped : taken.conn[p].ids = << >> /\ s.conn[p].unfetched = 0}
             uninformed == {p \in Active(s) : /\ s.conn[p].ids = << >>
                                              /\ ~s.conn[p].peerNeeds
                                              /\ ~s.conn[p].weNeed}
             round(p) == IF p \in newlyEmpty THEN FetchNextBatch(taken, p)
                         ELSE IF p \in uninformed THEN StartSynchronizing(taken, p) ELSE taken
             v == [taken EXCEPT !.conn = [p \in DOMAIN @ |-> round(p).conn[p]],
                                !.out = [p \in DOMAIN @ |-> round(p).out[p]]]
  <2>1. SyncAccepted(s, b) = v
    BY DEF SyncAccepted
  <2>2. taken = t
    BY DEF Taken, TakenEnd
  <2> HIDE DEF taken, t
  <2>3. \A p : round(p) = Round(s, t, b, p)
    BY <2>2 DEF Round
  <2> HIDE DEF round
  <2>4. [p \in DOMAIN t.conn |-> round(p).conn[p]] = [p \in Peers(n) |-> f[p].conn[p]]
    BY <1>2, <2>3
  <2>5. [p \in DOMAIN t.out |-> round(p).out[p]] = [p \in Peers(n) |-> f[p].out[p]]
    BY <1>2, <2>3
  <2> HIDE DEF f
  <2> QED BY <2>1, <2>2, <2>4, <2>5 DEF Together
<1>4. \A p \in Peers(n) : f[p] = Round(s, t, b, p)
  OBVIOUS
<1> HIDE DEF f
<1>5. \A p \in Peers(n) : Ended(n, t, f[p], p, R[p])
  BY <1>4, RoundEnds
<1> HIDE DEF t
<1>6. Leads(n, t, Together(n, t, f), R)
  BY <1>1, <1>5, EndedTogether
<1> QED BY <1>1, <1>3, <1>6, LeadsTwice

\* One iteration of process_backlog_of_sync_blocks never rejects a block.
LEMMA BacklogStepFacts ==
  ASSUME NEW n, NEW s, NEW R, Good(n, s, R)
  PROVE  Leads(n, s, BacklogStep(s).state, R) /\ BacklogStep(s).more \in BOOLEAN
<1> DEFINE next == {i \in DOMAIN s.received : Offering(s, s.received[i]) # {}}
           k == Min(next)
           b == s.received[k]
           q == RemoveAt(s.received, k)
           rest == [s EXCEPT !.received = q]
           t == IF b \in s.recent THEN rest ELSE HandleBlock(rest, b)
<1>1. s \in State(n) /\ Stock(s) /\ Requests(s)
  BY DEF Good, NodeInv
<1>2. s.received \in Seq(Blocks) /\ DOMAIN s.conn = Peers(n) /\ s.plan \in Plans(n)
  BY <1>1, StateFields
<1>3. CASE next = {}
  <2>1. BacklogStep(s) = [state |-> s, more |-> FALSE]
    BY <1>3 DEF BacklogStep
  <2>2. Leads(n, s, s, R)
    BY QuietSame DEF Leads
  <2> QED BY <2>1, <2>2
<1>4. CASE next # {}
  <2>1. k \in next
    <3>1. next \in SUBSET Nat
      BY <1>2
    <3> HIDE DEF next
    <3> QED BY <1>4, <3>1, MinFacts
  <2> HIDE DEF k
  <2>2. k \in DOMAIN s.received /\ Offering(s, b) # {} /\ b \in Range(s.received) /\ b \in Blocks
    <3>1. k \in DOMAIN s.received /\ Offering(s, b) # {}
      BY <2>1
    <3>2. b \in Blocks
      BY <1>2, <3>1
    <3> QED BY <3>1, <3>2 DEF Range
  <2> HIDE DEF next
  <2>3. q \in Seq(Blocks) /\ Range(q) \subseteq Range(s.received)
    <3> DEFINE r == s.received
    <3>1. r \in Seq(Blocks) /\ k \in 1..Len(r)
      BY <1>2, <2>2
    <3> HIDE DEF r
    <3>2. RemoveAt(r, k) \in Seq(Blocks) /\ Without(r, k, RemoveAt(r, k))
      BY <3>1, RemoveAtFacts
    <3> QED BY <3>2 DEF Without, Range, r
  <2>4. BacklogStep(s) = IF b \notin s.recent /\ SyncRejects(t, b)
                         THEN [state |-> SyncRejected(t, b), more |-> FALSE]
                         ELSE [state |-> SyncAccepted(t, b), more |-> TRUE]
    BY <1>4 DEF BacklogStep, k, next
  <2> HIDE DEF b, q
  <2>5. rest \in State(n) /\ rest.received = q /\ rest.conn = s.conn /\ rest.recent = s.recent /\ rest.stored = s.stored
        /\ rest.head = s.head /\ rest.known = s.known /\ rest.blamed = s.blamed /\ rest.plan = s.plan
        /\ rest.activeRequests = s.activeRequests /\ rest.toFetch = s.toFetch /\ rest.out = s.out
    BY <1>1, <2>3 DEF State
  <2> HIDE DEF rest
  <2>6. Stock(rest)
    BY <1>1, <2>5, SameLinked DEF Stock
  <2>7. Handled(n, rest, t, b)
    <3>1. Handled(n, rest, IF b \in rest.recent THEN rest ELSE HandleBlock(rest, b), b)
      BY <2>2, <2>5, <2>6, HandleFacts
    <3> QED BY <2>5, <3>1
  <2> HIDE DEF t
  <2>8. Grows(n, s, t)
    BY <2>3, <2>5, <2>7, AlikeSame DEF Grows, Handled
  <2>9. Leads(n, s, t, R) /\ Good(n, t, R)
    BY <2>8, GoodGrows DEF Leads
  <2>10. b \in Linked(t)
    <3>1. PICK p \in Offering(s, b) : TRUE
      BY <2>2
    <3>2. p \in Peers(n) /\ s.conn[p].ids # << >> /\ s.conn[p].ids[1] = b
      BY <1>2 DEF Offering, Active
    <3>3. Prev[b] \in Linked(s) \cup {0}
      BY <3>2 DEF Good, NodeInv, ConnInv, ListOn
    <3>4. t \in State(n) /\ b \in t.stored /\ s.stored \subseteq t.stored
      BY <2>7, <2>8 DEF Handled, Grows
    <3>5. Linked(s) \subseteq Linked(t) /\ t.stored \subseteq Blocks
      BY <3>4, LinkedGrows, StateFields
    <3> QED BY <3>3, <3>4, <3>5, LinkedFacts
  <2>11. ASSUME NEW p \in Peers(n) PROVE b \notin Pending(t, p)
    <3>1. t.plan = s.plan /\ t.conn[p].syncRequested = s.conn[p].syncRequested
      BY <2>8 DEF Grows, Alike
    <3>2. b \notin s.conn[p].syncRequested /\ b \in s.activeRequests
      BY <1>1, <1>2, <2>2 DEF Requests
    <3>3. \A x \in DOMAIN s.plan : s.plan[x] # b
      BY <1>1, <3>2 DEF Requests
    <3> QED BY <3>1, <3>2, <3>3 DEF Pending
  <2>12. Accepts(n, t, R, b)
    BY <2>2, <2>9, <2>10, <2>11 DEF Accepts
  <2>13. BacklogStep(s) = [state |-> SyncAccepted(t, b), more |-> TRUE]
    BY <2>4, <2>10 DEF SyncRejects
  <2>14. Leads(n, t, SyncAccepted(t, b), R)
    BY <2>12, SyncAcceptedFacts
  <2>15. Leads(n, s, SyncAccepted(t, b), R)
    BY <2>9, <2>14, LeadsTwice
  <2> QED BY <2>13, <2>15
<1> QED BY <1>3, <1>4

\* process_backlog_of_sync_blocks
LEMMA ProcessBacklogFacts ==
  ASSUME NEW n, NEW s, NEW R, Good(n, s, R)
  PROVE  Leads(n, s, ProcessBacklog(s), R)
<1> DEFINE N == Len(s.received)
           X == {r \in [state: State(n), more: BOOLEAN] : Leads(n, s, r.state, R)}
           x0 == [state |-> s, more |-> TRUE]
           op(r) == IF r.more THEN BacklogStep(r.state) ELSE r
           step == [k \in 1..N |-> [r \in X |-> op(r)]]
<1>0. s \in State(n) /\ N \in Nat
  BY StateFields DEF Good, NodeInv
<1>1. x0 \in X
  <2>1. Leads(n, s, s, R)
    BY QuietSame DEF Leads
  <2> QED BY <1>0, <2>1
<1>2. ASSUME NEW r \in X PROVE op(r) \in X
  <2>1. r \in [state: State(n), more: BOOLEAN] /\ Leads(n, s, r.state, R)
    OBVIOUS
  <2>2. CASE r.more
    <3> DEFINE u == BacklogStep(r.state)
    <3>1. Leads(n, r.state, u.state, R) /\ u.more \in BOOLEAN
      BY <2>1, BacklogStepFacts DEF Leads
    <3>2. Leads(n, s, u.state, R)
      BY <2>1, <3>1, LeadsTwice
    <3>3. u.state \in State(n)
      BY <3>2 DEF Leads, Good, NodeInv
    <3>4. u = [state |-> u.state, more |-> u.more]
      BY DEF BacklogStep
    <3> HIDE DEF u
    <3>5. u \in [state: State(n), more: BOOLEAN]
      BY <3>1, <3>3, <3>4
    <3>6. u \in X
      BY <3>2, <3>5
    <3> QED BY <2>2, <3>6 DEF u
  <2>3. CASE ~r.more
    BY <2>3
  <2> QED BY <2>2, <2>3
<1> HIDE DEF X, op, x0
<1>3. step \in [1..N -> [X -> X]]
  BY <1>2
<1>4. PICK f \in [0..N -> X] : Iterates(f, x0, N, step)
  <2> HIDE DEF step, N
  <2> QED BY <1>0, <1>1, <1>3, Recursion
<1>5. ASSUME NEW k \in 1..N PROVE f[k] = op(f[k - 1])
  <2>1. k - 1 \in 0..N
    BY <1>0
  <2> QED BY <1>4, <2>1 DEF Iterates
<1>6. f = [k \in 0..N |-> IF k = 0 THEN x0 ELSE op(f[k - 1])]
  <2>1. ASSUME NEW k \in 0..N PROVE f[k] = IF k = 0 THEN x0 ELSE op(f[k - 1])
    <3>1. CASE k = 0
      BY <1>4, <3>1 DEF Iterates
    <3>2. CASE k # 0
      <4>1. k \in 1..N
        BY <1>0, <3>2
      <4> QED BY <1>5, <3>2, <4>1
    <3> QED BY <3>1, <3>2
  <2> QED BY <2>1
<1> DEFINE F == CHOOSE r : r = [k \in 0..N |-> IF k = 0 THEN x0 ELSE op(r[k - 1])]
<1>7. F = [k \in 0..N |-> IF k = 0 THEN x0 ELSE op(F[k - 1])]
  BY <1>6
<1>8. ProcessBacklog(s) = F[N].state
  BY DEF ProcessBacklog, op, x0
<1> HIDE DEF F, N
<1> DEFINE T == {k \in 0..N : F[k] \in X}
<1>9. 0 \in T
  BY <1>0, <1>1, <1>7
<1>10. ASSUME NEW k \in 1..N, k - 1 \in T PROVE k \in T
  <2>1. k \in 0..N /\ k # 0 /\ F[k - 1] \in X
    BY <1>0, <1>10
  <2>2. F[k] = op(F[k - 1])
    BY <1>7, <2>1
  <2> QED BY <1>2, <2>1, <2>2
<1>11. \A k \in 0..N : k \in T
  <2> HIDE DEF T
  <2> QED BY <1>0, <1>9, <1>10, SegmentInduction
<1>12. F[N] \in X
  BY <1>0, <1>11
<1> QED BY <1>8, <1>12 DEF X

\* A block that was asked for in sync is kept.
LEMMA GoodReceives ==
  ASSUME NEW n, NEW s, NEW R, Good(n, s, R), NEW b \in s.activeRequests,
         \A p \in Peers(n) : b \notin s.conn[p].syncRequested
  PROVE  Leads(n, s, [s EXCEPT !.received = <<b>> \o @], R)
<1> DEFINE q == <<b>> \o s.received
           t == [s EXCEPT !.received = q]
<1>1. s \in State(n) /\ Stock(s) /\ s.blamed = {} /\ Requests(s) /\ Offers(s)
  BY DEF Good, NodeInv
<1>2. s.received \in Seq(Blocks) /\ s.activeRequests \subseteq Blocks /\ DOMAIN s.conn = Peers(n)
  BY <1>1, StateFields
<1>3. q \in Seq(Blocks) /\ Range(q) \subseteq {b} \cup Range(s.received)
  <2> DEFINE r == s.received
  <2>1. r \in Seq(Blocks) /\ b \in Blocks
    BY <1>2
  <2> HIDE DEF r
  <2>2. <<b>> \o r \in Seq(Blocks) /\ Len(<<b>> \o r) = 1 + Len(r) /\ Len(r) \in Nat
    BY <2>1
  <2>3. \A i \in 1..(1 + Len(r)) : (<<b>> \o r)[i] = IF i = 1 THEN b ELSE r[i - 1]
    BY <2>1
  <2>4. ASSUME NEW i \in 1..(1 + Len(r)) PROVE i = 1 \/ i - 1 \in 1..Len(r)
    BY <2>2
  <2>5. DOMAIN r = 1..Len(r) /\ DOMAIN (<<b>> \o r) = 1..(1 + Len(r))
    BY <2>1, <2>2
  <2>6. Range(<<b>> \o r) \subseteq {b} \cup Range(r)
    <3> DEFINE u == <<b>> \o r
    <3>1. DOMAIN u = 1..(1 + Len(r)) /\ \A i \in 1..(1 + Len(r)) : u[i] = IF i = 1 THEN b ELSE r[i - 1]
      BY <2>3, <2>5
    <3> HIDE DEF u
    <3>2. \A i \in DOMAIN u : u[i] = b \/ u[i] \in Range(r)
      BY <2>4, <2>5, <3>1 DEF Range
    <3>3. Range(u) \subseteq {b} \cup Range(r)
      BY <3>2 DEF Range
    <3> QED BY <3>3 DEF u
  <2> QED BY <2>2, <2>6 DEF r
<1> HIDE DEF q
<1>4. t \in State(n) /\ t.received = q
  BY <1>1, <1>3 DEF State
<1>5. t.head = s.head /\ t.stored = s.stored /\ t.known = s.known /\ t.blamed = s.blamed /\ t.plan = s.plan
      /\ t.activeRequests = s.activeRequests /\ t.recent = s.recent /\ t.toFetch = s.toFetch
      /\ t.out = s.out /\ t.conn = s.conn
  BY <1>1 DEF State
<1> HIDE DEF t
<1>6. Linked(t) = Linked(s)
  BY <1>5, SameLinked
<1>7. Stock(t) /\ Offers(t) /\ t.blamed = {}
  BY <1>1, <1>5, <1>6 DEF Stock, Offers, Active
<1>8. Requests(t)
  <2>1. \A p \in DOMAIN t.conn : /\ t.conn[p].syncRequested \subseteq t.activeRequests
                                 /\ t.conn[p].syncRequested \cap Range(t.received) = {}
    BY <1>1, <1>2, <1>3, <1>4, <1>5 DEF Requests
  <2>2. Range(t.received) \subseteq t.activeRequests
    BY <1>1, <1>3, <1>4, <1>5 DEF Requests
  <2> QED BY <1>1, <1>5, <2>1, <2>2 DEF Requests
<1>9. \A p \in Peers(n) : ConnInv(t.conn[p], Pending(t, p), Linked(t)) /\ Pair(t.conn[p], Linked(t), t.out[p], R[p])
  <2>1. \A p \in Peers(n) : Pending(t, p) = Pending(s, p)
    BY <1>5 DEF Pending
  <2> QED BY <1>5, <1>6, <2>1 DEF Good, NodeInv
<1>10. Good(n, t, R)
  BY <1>4, <1>7, <1>8, <1>9 DEF Good, NodeInv
<1>11. Leads(n, s, t, R)
  BY <1>5, <1>10, QuietSame DEF Leads
<1> QED BY <1>11 DEF t, q

\* process_block_message
LEMMA OnBlockFacts ==
  ASSUME NEW n, NEW s, NEW p, NEW R, NEW R2, Reads(n, s, p, R, R2),
         NEW b \in Blocks, R[p][1] \in Replies(b)
  PROVE  Leads(n, s, OnBlock(s, p, b), R2)
<1> DEFINE di == [s.conn[p] EXCEPT !.itemsRequested = @ \ {b}]
           ds == [s.conn[p] EXCEPT !.syncRequested = @ \ {b}]
           ti == [s EXCEPT !.conn[p].itemsRequested = @ \ {b}]
           ts == [s EXCEPT !.conn[p].syncRequested = @ \ {b}]
<1>1. p \in Peers(n) /\ s \in State(n) /\ b \in Items
  BY ReadsFacts DEF Reads, Items
<1>2. b \in s.conn[p].syncRequested \/ b \in s.conn[p].itemsRequested
  BY <1>1, ReplyAsked
<1>3. CASE b \in s.conn[p].itemsRequested
  <2>1. Leads(n, s, ti, R2)
    <3>1. di \in Conns /\ Unflagged(s.conn[p], di, b) /\ ti = [s EXCEPT !.conn[p] = di]
      BY <1>1, UnflagItem
    <3> HIDE DEF di, ti
    <3> QED BY <1>1, <3>1, ReadReply
  <2> HIDE DEF ti
  <2>2. Leads(n, ti, NormalBlock(ti, b), R2)
    BY <2>1, NormalBlockFacts DEF Leads
  <2>3. Leads(n, s, NormalBlock(ti, b), R2)
    BY <2>1, <2>2, LeadsTwice
  <2> QED BY <1>3, <2>3 DEF OnBlock, ti
<1>4. CASE b \notin s.conn[p].itemsRequested
  <2>1. Leads(n, s, ts, R2) /\ Changed(n, s, ts, p, ds)
    <3>1. ds \in Conns /\ Unflagged(s.conn[p], ds, b) /\ ts = [s EXCEPT !.conn[p] = ds]
      BY <1>1, UnflagSync
    <3> HIDE DEF ds, ts
    <3> QED BY <1>1, <3>1, ReadReply
  <2>2. b \in s.conn[p].syncRequested
    BY <1>2, <1>4
  <2>3. ds.syncRequested = s.conn[p].syncRequested \ {b}
    <3>1. s.conn[p] \in Conns
      BY <1>1, StateFields
    <3> QED BY <3>1 DEF Conns
  <2> HIDE DEF ts, ds
  <2>4. ts.activeRequests = s.activeRequests /\ ts.conn[p] = ds /\ \A q \in Peers(n) : q # p => ts.conn[q] = s.conn[q]
    BY <2>1 DEF Changed, Same
  <2>5. b \in ts.activeRequests /\ \A q \in Peers(n) : b \notin ts.conn[q].syncRequested
    <3>1. Requests(s) /\ DOMAIN s.conn = Peers(n)
      BY <1>1, StateFields DEF Reads, Good, NodeInv
    <3> QED BY <1>1, <2>2, <2>3, <2>4, <3>1 DEF Requests
  <2> DEFINE u == [ts EXCEPT !.received = <<b>> \o @]
  <2>6. Leads(n, ts, u, R2)
    BY <2>1, <2>5, GoodReceives DEF Leads
  <2>7. OnBlock(s, p, b) = TriggerSync(ProcessBacklog(u))
    BY <1>4, <2>2 DEF OnBlock, SyncBlock, ts
  <2> HIDE DEF u
  <2>8. Leads(n, u, ProcessBacklog(u), R2)
    BY <2>6, ProcessBacklogFacts DEF Leads
  <2> DEFINE v == ProcessBacklog(u)
  <2> HIDE DEF v
  <2>9. Leads(n, v, TriggerSync(v), R2)
    BY <2>8, TriggerFacts DEF Leads, v
  <2>10. Leads(n, s, v, R2)
    <3>1. Leads(n, s, u, R2)
      BY <2>1, <2>6, LeadsTwice
    <3> QED BY <2>8, <3>1, LeadsTwice DEF v
  <2>11. Leads(n, s, TriggerSync(v), R2)
    BY <2>9, <2>10, LeadsTwice
  <2> QED BY <2>7, <2>11 DEF v
<1> QED BY <1>3, <1>4

-----------------------------------------------------------------------------
(* The loop that asks for blocks in sync.                                  *)

\* A plan asks idle peers that we sync with for blocks of their lists, each once.
PlanOK(n, s, g) ==
  /\ g \in Plans(n)
  /\ \A p \in DOMAIN g : /\ ~Busy(s.conn[p])
                         /\ g[p] \in Range(s.conn[p].ids)
                         /\ g[p] \notin Range(s.received) \cup s.activeRequests
  /\ \A p, q \in DOMAIN g : p # q => g[p] # g[q]

\* The empty sequence is the empty function.
LEMMA EmptyFunction == DOMAIN << >> = {} /\ \A T : << >> \in [{} -> T]
<1>1. ASSUME NEW T PROVE << >> \in [{} -> T]
  <2>1. << >> \in Seq(T) /\ Len(<< >>) = 0
    OBVIOUS
  <2>2. PICK k \in Nat : << >> \in [1..k -> T]
    BY <2>1, SeqDef
  <2>3. DOMAIN << >> = 1..0
    BY <2>1
  <2>4. 1..0 = {}
    OBVIOUS
  <2>5. 1..k = {}
    BY <2>2, <2>3, <2>4
  <2> QED BY <2>2, <2>5
<1>2. DOMAIN << >> = {}
  OBVIOUS
<1> QED BY <1>1, <1>2

\* A pass that asks for nothing.
LEMMA EmptyPlan ==
  ASSUME NEW n PROVE << >> \in Plans(n)
BY EmptyFunction DEF Plans

\* A plan has blocks for peers.
LEMMA PlanFields ==
  ASSUME NEW n, NEW g \in Plans(n)
  PROVE  DOMAIN g \subseteq Peers(n) /\ \A p \in DOMAIN g : g[p] \in Blocks
BY DEF Plans

\* One peer is added to a plan.
Added(g, p, x) == [q \in DOMAIN g \cup {p} |-> IF q = p THEN x ELSE g[q]]

\* A block that nobody has been asked for may be added to a plan for an idle peer.
LEMMA AddedFacts ==
  ASSUME NEW n, NEW s, NEW g, PlanOK(n, s, g), NEW p \in Peers(n), NEW x \in Blocks,
         ~Busy(s.conn[p]), x \in Range(s.conn[p].ids),
         x \notin Range(s.received) \cup s.activeRequests, x \notin Range(g)
  PROVE  PlanOK(n, s, Added(g, p, x))
<1> DEFINE h == Added(g, p, x)
<1>1. DOMAIN g \subseteq Peers(n) /\ \A q \in DOMAIN g : g[q] \in Blocks
  BY PlanFields DEF PlanOK
<1>2. DOMAIN h = DOMAIN g \cup {p} /\ h[p] = x /\ \A q \in DOMAIN g : q # p => h[q] = g[q]
  BY DEF Added
<1>3. h \in [DOMAIN g \cup {p} -> Blocks]
  BY <1>1 DEF Added
<1> HIDE DEF h
<1>4. h \in Plans(n)
  <2>1. DOMAIN g \cup {p} \in SUBSET Peers(n)
    BY <1>1
  <2> QED BY <1>3, <2>1 DEF Plans
<1>5. ASSUME NEW q \in DOMAIN h
      PROVE  ~Busy(s.conn[q]) /\ h[q] \in Range(s.conn[q].ids) /\ h[q] \notin Range(s.received) \cup s.activeRequests
  <2>1. CASE q = p
    BY <1>2, <2>1
  <2>2. CASE q # p
    BY <1>2, <2>2 DEF PlanOK
  <2> QED BY <2>1, <2>2
<1>6. ASSUME NEW q \in DOMAIN h, NEW r \in DOMAIN h, q # r PROVE h[q] # h[r]
  <2>1. \A k \in DOMAIN g : g[k] # x
    BY DEF Range
  <2>2. CASE q = p
    BY <1>2, <1>6, <2>1, <2>2
  <2>3. CASE r = p
    BY <1>2, <1>6, <2>1, <2>3
  <2>4. CASE q # p /\ r # p
    BY <1>2, <1>6, <2>4 DEF PlanOK
  <2> QED BY <2>2, <2>3, <2>4
<1>7. PlanOK(n, s, h)
  BY <1>4, <1>5, <1>6 DEF PlanOK
<1> QED BY <1>7 DEF h

\* One step of the first half of a pass.
Planned(s, g, p) ==
  LET c == s.conn[p]
      free == Candidates(s, p, Range(g))
  IN  IF c.weNeed /\ ~Busy(c) /\ free # {} THEN Added(g, p, c.ids[Min(free)]) ELSE g

\* One iteration of the first half of fetch_sync_items_loop keeps the plan good.
LEMMA PlannedFacts ==
  ASSUME NEW n, NEW s \in State(n), NEW g, PlanOK(n, s, g), NEW p \in Peers(n)
  PROVE  PlanOK(n, s, Planned(s, g, p))
<1> DEFINE c == s.conn[p]
           free == Candidates(s, p, Range(g))
           x == c.ids[Min(free)]
<1>1. CASE c.weNeed /\ ~Busy(c) /\ free # {}
  <2>1. c \in Conns
    BY StateFields
  <2>2. c.ids \in Seq(Blocks)
    <3> HIDE DEF c
    <3> QED BY <2>1 DEF Conns
  <2>3. free \in SUBSET Nat
    <3>1. DOMAIN c.ids \subseteq Nat
      <4> HIDE DEF c
      <4> QED BY <2>2
    <3> QED BY <3>1 DEF Candidates
  <2>4. Min(free) \in free
    <3> HIDE DEF free
    <3> QED BY <1>1, <2>3, MinFacts
  <2>5. Min(free) \in DOMAIN c.ids /\ x \notin Range(s.received) \cup s.activeRequests \cup Range(g)
    BY <2>4 DEF Candidates
  <2>6. x \in Range(c.ids) /\ x \in Blocks
    <3> HIDE DEF c, free
    <3> QED BY <2>2, <2>5 DEF Range
  <2> HIDE DEF x
  <2>7. PlanOK(n, s, Added(g, p, x))
    BY <1>1, <2>5, <2>6, AddedFacts
  <2>8. Planned(s, g, p) = Added(g, p, x)
    BY <1>1 DEF Planned, x
  <2> QED BY <2>7, <2>8
<1>2. CASE ~(c.weNeed /\ ~Busy(c) /\ free # {})
  <2>1. Planned(s, g, p) = g
    BY <1>2 DEF Planned
  <2> QED BY <2>1
<1> QED BY <1>1, <1>2

\* The active peers can be gone through one by one.
LEMMA ActiveFinite ==
  ASSUME NEW n, NEW s \in State(n)
  PROVE  Active(s) \subseteq Peers(n) /\ IsFiniteSet(Active(s)) /\ Cardinality(Active(s)) \in Nat
<1>1. Active(s) \subseteq Peers(n) /\ Peers(n) \subseteq Nodes
  BY StateFields DEF Active, Peers
<1>2. IsFiniteSet(Active(s))
  BY <1>1, LinkAssumption, FS_Subset
<1> QED BY <1>1, <1>2, FS_CardinalityType

\* Whatever the order of the iteration, the plan asks idle peers for blocks of their
\* lists that nobody has been asked for, each once.
LEMMA PlanFacts ==
  ASSUME NEW n, NEW s \in State(n), NEW order \in SetToSeqs(Active(s))
  PROVE  PlanOK(n, s, Plan(s, order))
<1> DEFINE N == Len(order)
           X == {g \in Plans(n) : PlanOK(n, s, g)}
           op(k, g) == Planned(s, g, order[k])
           step == [k \in 1..N |-> [g \in X |-> op(k, g)]]
<1>0. N \in Nat /\ \A k \in 1..N : order[k] \in Peers(n)
  <2> DEFINE C == Cardinality(Active(s))
             A == Active(s)
  <2>1. C \in Nat /\ A \subseteq Peers(n)
    BY ActiveFinite
  <2>2. order \in [1..C -> A]
    BY DEF SetToSeqs
  <2> HIDE DEF C, A
  <2>3. order \in Seq(A)
    BY <2>1, <2>2, SeqDef
  <2> QED BY <2>1, <2>3
<1>1. << >> \in X
  <2>1. PlanOK(n, s, << >>)
    BY EmptyPlan, EmptyFunction DEF PlanOK
  <2> QED BY <2>1, EmptyPlan
<1>2. ASSUME NEW k \in 1..N, NEW g \in X PROVE op(k, g) \in X
  <2>1. PlanOK(n, s, g) /\ order[k] \in Peers(n)
    BY <1>0
  <2>2. PlanOK(n, s, op(k, g))
    BY <2>1, PlannedFacts
  <2> QED BY <2>2 DEF PlanOK
<1> HIDE DEF X, op
<1>3. step \in [1..N -> [X -> X]]
  BY <1>2
<1>4. PICK f \in [0..N -> X] : Iterates(f, << >>, N, step)
  <2> HIDE DEF step, N
  <2> QED BY <1>0, <1>1, <1>3, Recursion
<1>5. ASSUME NEW k \in 1..N PROVE f[k] = op(k, f[k - 1])
  <2>1. k - 1 \in 0..N
    BY <1>0
  <2> QED BY <1>4, <2>1 DEF Iterates
<1>6. f = [k \in 0..N |-> IF k = 0 THEN << >> ELSE op(k, f[k - 1])]
  <2>1. ASSUME NEW k \in 0..N PROVE f[k] = IF k = 0 THEN << >> ELSE op(k, f[k - 1])
    <3>1. CASE k = 0
      BY <1>4, <3>1 DEF Iterates
    <3>2. CASE k # 0
      <4>1. k \in 1..N
        BY <1>0, <3>2
      <4> QED BY <1>5, <3>2, <4>1
    <3> QED BY <3>1, <3>2
  <2> QED BY <2>1
<1> DEFINE F == CHOOSE r : r = [k \in 0..N |-> IF k = 0 THEN << >> ELSE op(k, r[k - 1])]
<1>7. F = [k \in 0..N |-> IF k = 0 THEN << >> ELSE op(k, F[k - 1])]
  BY <1>6
<1>8. Plan(s, order) = F[N]
  BY DEF Plan, op, Planned, Added
<1> HIDE DEF F, N
<1> DEFINE T == {k \in 0..N : F[k] \in X}
<1>9. 0 \in T
  BY <1>0, <1>1, <1>7
<1>10. ASSUME NEW k \in 1..N, k - 1 \in T PROVE k \in T
  <2>1. k \in 0..N /\ k # 0 /\ F[k - 1] \in X
    BY <1>0, <1>10
  <2>2. F[k] = op(k, F[k - 1])
    BY <1>7, <2>1
  <2> QED BY <1>2, <2>1, <2>2
<1>11. \A k \in 0..N : k \in T
  <2> HIDE DEF T
  <2> QED BY <1>0, <1>9, <1>10, SegmentInduction
<1>12. F[N] \in X
  BY <1>0, <1>11
<1> QED BY <1>8, <1>12 DEF X

\* A plan, or none, takes the place of none.
LEMMA PlanSet ==
  ASSUME NEW n, NEW s, NEW R, Good(n, s, R), s.plan = << >>, NEW g, PlanOK(n, s, g)
  PROVE  Leads(n, s, [s EXCEPT !.plan = g], R) /\ [s EXCEPT !.plan = g].plan = g
<1> DEFINE t == [s EXCEPT !.plan = g]
<1>1. s \in State(n) /\ Stock(s) /\ s.blamed = {} /\ Requests(s) /\ Offers(s)
  BY DEF Good, NodeInv
<1>2. t \in State(n) /\ t.plan = g
  BY <1>1 DEF State, PlanOK
<1>3. t.head = s.head /\ t.stored = s.stored /\ t.known = s.known /\ t.blamed = s.blamed /\ t.received = s.received
      /\ t.activeRequests = s.activeRequests /\ t.recent = s.recent /\ t.toFetch = s.toFetch
      /\ t.out = s.out /\ t.conn = s.conn
  BY <1>1 DEF State
<1> HIDE DEF t
<1>4. Linked(t) = Linked(s)
  BY <1>3, SameLinked
<1>5. Stock(t) /\ Offers(t) /\ t.blamed = {}
  BY <1>1, <1>3, <1>4 DEF Stock, Offers, Active
<1>6. Requests(t)
  BY <1>1, <1>2, <1>3 DEF Requests, PlanOK
<1>7. ASSUME NEW p \in Peers(n)
      PROVE  ConnInv(t.conn[p], Pending(t, p), Linked(t)) /\ Pair(t.conn[p], Linked(t), t.out[p], R[p])
  <2> DEFINE c == s.conn[p]
  <2>1. ConnInv(c, Pending(s, p), Linked(s)) /\ Pair(c, Linked(s), s.out[p], R[p])
    BY DEF Good, NodeInv
  <2>2. Pending(s, p) = c.syncRequested
    BY EmptyFunction DEF Pending
  <2>3. CASE p \in DOMAIN g
    <3>1. Pending(t, p) = c.syncRequested \cup {g[p]}
      BY <1>2, <1>3, <2>3 DEF Pending
    <3>2. g[p] \in Range(c.ids) /\ ~c.idsRequested
      BY <2>3 DEF PlanOK, Busy
    <3>3. ConnInv(c, Pending(t, p), Linked(s))
      BY <2>1, <2>2, <3>1, <3>2 DEF ConnInv
    <3> QED BY <1>3, <1>4, <2>1, <3>3
  <2>4. CASE p \notin DOMAIN g
    <3>1. Pending(t, p) = c.syncRequested
      BY <1>2, <1>3, <2>4 DEF Pending
    <3> QED BY <1>3, <1>4, <2>1, <2>2, <3>1
  <2> QED BY <2>3, <2>4
<1>8. Good(n, t, R)
  BY <1>2, <1>5, <1>6, <1>7 DEF Good, NodeInv
<1>9. Leads(n, s, t, R)
  BY <1>3, <1>8, QuietSame DEF Leads
<1> QED BY <1>2, <1>9 DEF t

\* request_sync_item_from_peer
LEMMA RequestFacts ==
  ASSUME NEW n, NEW s, NEW R, Good(n, s, R), NEW p \in DOMAIN s.plan
  PROVE  Leads(n, s, Request(s, s.plan, p), R)
<1> DEFINE b == s.plan[p]
           c == s.conn[p]
           d == [c EXCEPT !.syncRequested = @ \cup {b}]
           g == [q \in DOMAIN s.plan \ {p} |-> s.plan[q]]
           m == [type |-> "fetch", sync |-> TRUE, item |-> b]
           u == [s EXCEPT !.plan = g, !.activeRequests = @ \cup {b}, !.conn[p] = d]
           t == Request(s, s.plan, p)
<1>1. s \in State(n) /\ Stock(s) /\ s.blamed = {} /\ Requests(s) /\ Offers(s) /\ R \in [Peers(n) -> Queues]
  BY DEF Good, NodeInv
<1>2. s.plan \in Plans(n) /\ DOMAIN s.conn = Peers(n)
  BY <1>1, StateFields
<1>3. p \in Peers(n) /\ b \in Blocks /\ b \in Items
  <2>1. p \in Peers(n) /\ b \in Blocks
    BY <1>2, PlanFields
  <2> QED BY <2>1 DEF Items
<1>4. c \in Conns /\ s.out[p] \in Seq(Messages) /\ R[p] \in Seq(Messages)
  BY <1>1, <1>3, StateFields DEF Queues
<1>5. b \notin s.activeRequests /\ c.syncRequested \subseteq s.activeRequests /\ b \notin c.syncRequested
  BY <1>1, <1>2, <1>3 DEF Requests
<1>6. g \in Plans(n) /\ DOMAIN g = DOMAIN s.plan \ {p} /\ \A q \in DOMAIN g : g[q] = s.plan[q]
  <2>1. DOMAIN s.plan \subseteq Peers(n) /\ \A q \in DOMAIN s.plan : s.plan[q] \in Blocks
    BY <1>2, PlanFields
  <2>2. g \in [DOMAIN s.plan \ {p} -> Blocks] /\ DOMAIN s.plan \ {p} \in SUBSET Peers(n)
    BY <2>1
  <2>3. g \in Plans(n)
    BY <2>2 DEF Plans
  <2> QED BY <2>3
<1>7. t = Send(u, p, m)
  <2>1. [s EXCEPT !.plan = [q \in DOMAIN s.plan \ {p} |-> s.plan[q]], !.activeRequests = @ \cup {s.plan[p]},
                  !.conn[p].syncRequested = @ \cup {s.plan[p]}] = u
    BY <1>1, <1>3 DEF State, Conns
  <2> HIDE DEF u
  <2> QED BY <2>1 DEF Request
<1>8. m \in Fetches(b) /\ m \in Messages /\ m.type = "fetch"
  <2>1. m \in Fetches(b) /\ m.type = "fetch"
    BY DEF Fetches
  <2> HIDE DEF m, b
  <2> QED BY <1>3, <2>1, KindTypes
<1> HIDE DEF b, c, g, m, t
<1>9. d \in Conns /\ d.syncRequested = c.syncRequested \cup {b} /\ d.itemsRequested = c.itemsRequested
      /\ d.ids = c.ids /\ d.unfetched = c.unfetched /\ d.status = c.status /\ d.weNeed = c.weNeed
      /\ d.idsRequested = c.idsRequested
  BY <1>3, <1>4 DEF Conns
<1> HIDE DEF d
<1>10. u \in State(n) /\ u.plan = g /\ u.activeRequests = s.activeRequests \cup {b}
       /\ u.conn[p] = d /\ \A q \in Peers(n) : q # p => u.conn[q] = s.conn[q]
  BY <1>1, <1>3, <1>6, <1>9 DEF State
<1>11. u.head = s.head /\ u.stored = s.stored /\ u.known = s.known /\ u.blamed = s.blamed /\ u.received = s.received
       /\ u.recent = s.recent /\ u.toFetch = s.toFetch /\ u.out = s.out
  BY <1>1 DEF State
<1> HIDE DEF u
<1>12. Sent(n, u, t, p, m)
  BY <1>3, <1>7, <1>8, <1>10, SendFacts
<1>13. t \in State(n) /\ Same(u, t) /\ t.conn = u.conn /\ t.out[p] = Append(s.out[p], m)
       /\ \A q \in Peers(n) : q # p => t.out[q] = s.out[q]
  BY <1>11, <1>12 DEF Sent
<1>14. t.plan = g /\ t.activeRequests = s.activeRequests \cup {b} /\ t.conn[p] = d
       /\ \A q \in Peers(n) : q # p => t.conn[q] = s.conn[q]
  BY <1>10, <1>13 DEF Same
<1>15. t.head = s.head /\ t.stored = s.stored /\ t.known = s.known /\ t.blamed = s.blamed /\ t.received = s.received
       /\ t.recent = s.recent /\ t.toFetch = s.toFetch
  BY <1>11, <1>13 DEF Same
<1>16. Linked(t) = Linked(s)
  BY <1>15, SameLinked
<1>17. DOMAIN t.conn = Peers(n)
  BY <1>13, StateFields
<1>18. Stock(t) /\ t.blamed = {}
  BY <1>1, <1>15, <1>16 DEF Stock
<1>19. Offers(t)
  <2>1. \A q \in Peers(n) : t.conn[q].itemsRequested = s.conn[q].itemsRequested /\ t.conn[q].status = s.conn[q].status
    BY <1>9, <1>14 DEF c
  <2>2. Active(t) = Active(s) /\ \A q \in Active(s) : q \in Peers(n)
    BY <1>2, <1>17, <2>1 DEF Active
  <2> QED BY <1>1, <1>15, <2>1, <2>2 DEF Offers
<1>20. Requests(t)
  <2>1. \A q \in Peers(n) : q # p => t.conn[q].syncRequested = s.conn[q].syncRequested
    BY <1>14
  <2>2. t.conn[p].syncRequested = c.syncRequested \cup {b}
    BY <1>9, <1>14
  <2>3. Range(s.received) \subseteq s.activeRequests /\ \A q \in Peers(n) : /\ s.conn[q].syncRequested \subseteq s.activeRequests
                                                                          /\ s.conn[q].syncRequested \cap Range(s.received) = {}
    BY <1>1, <1>2 DEF Requests
  <2>4. ASSUME NEW q \in DOMAIN t.conn
        PROVE  t.conn[q].syncRequested \subseteq t.activeRequests /\ t.conn[q].syncRequested \cap Range(t.received) = {}
    <3>1. q \in Peers(n)
      BY <1>17
    <3> QED BY <1>3, <1>5, <1>14, <1>15, <2>1, <2>2, <2>3, <3>1 DEF c
  <2>5. ASSUME NEW q \in DOMAIN t.conn, NEW r \in DOMAIN t.conn, q # r
        PROVE  t.conn[q].syncRequested \cap t.conn[r].syncRequested = {}
    <3>1. q \in Peers(n) /\ r \in Peers(n)
      BY <1>17
    <3>2. s.conn[q].syncRequested \cap s.conn[r].syncRequested = {}
      BY <1>1, <1>2, <2>5, <3>1 DEF Requests
    <3>3. b \notin s.conn[q].syncRequested /\ b \notin s.conn[r].syncRequested
      BY <1>5, <2>3, <3>1
    <3> QED BY <2>1, <2>2, <2>5, <3>1, <3>2, <3>3 DEF c
  <2>6. \A q \in DOMAIN s.plan : q # p => s.plan[q] # b
    BY <1>1 DEF Requests, b
  <2>7. \A q \in DOMAIN t.plan : t.plan[q] \notin t.activeRequests
    BY <1>1, <1>6, <1>14, <2>6 DEF Requests
  <2>8. \A q, r \in DOMAIN t.plan : q # r => t.plan[q] # t.plan[r]
    BY <1>1, <1>6, <1>14 DEF Requests
  <2>9. Range(t.received) \subseteq t.activeRequests
    BY <1>14, <1>15, <2>3
  <2> QED BY <2>4, <2>5, <2>7, <2>8, <2>9 DEF Requests
<1>21. Pending(t, p) = Pending(s, p)
  <2>1. Pending(s, p) = c.syncRequested \cup {b}
    BY DEF Pending, b, c
  <2>2. Pending(t, p) = c.syncRequested \cup {b}
    BY <1>6, <1>9, <1>14 DEF Pending
  <2> QED BY <2>1, <2>2
<1>22. ASSUME NEW q \in Peers(n)
       PROVE  ConnInv(t.conn[q], Pending(t, q), Linked(t)) /\ Pair(t.conn[q], Linked(t), t.out[q], R[q])
  <2>1. ConnInv(s.conn[q], Pending(s, q), Linked(s)) /\ Pair(s.conn[q], Linked(s), s.out[q], R[q])
    BY DEF Good, NodeInv
  <2>2. CASE q = p
    <3>1. ConnInv(d, Pending(t, p), Linked(s))
      BY <1>9, <1>21, <2>1, <2>2 DEF ConnInv, c
    <3>2. Pair(d, Linked(s), Append(s.out[p], m), R[p])
      <4>1. Pair(c, Linked(s), s.out[p], R[p])
        BY <2>1, <2>2 DEF c
      <4>2. Greets(d, R[p])
        BY <1>9, <4>1 DEF Pair, Greets
      <4> QED BY <1>3, <1>4, <1>5, <1>8, <1>9, <4>1, <4>2, PairAsksItem
    <3> QED BY <1>13, <1>14, <1>16, <2>2, <3>1, <3>2
  <2>3. CASE q # p
    <3>1. Pending(t, q) = Pending(s, q)
      BY <1>6, <1>14, <2>3 DEF Pending
    <3> QED BY <1>13, <1>14, <1>16, <2>1, <2>3, <3>1
  <2> QED BY <2>2, <2>3
<1>23. Good(n, t, R)
  BY <1>1, <1>13, <1>18, <1>19, <1>20, <1>22 DEF Good, NodeInv
<1>24. ASSUME NEW q \in Peers(n) PROVE Quiet(s.out[q], t.out[q])
  <2>1. CASE q = p
    BY <1>4, <1>8, <1>13, <2>1, QuietAppend
  <2>2. CASE q # p
    BY <1>13, <2>2, QuietSame
  <2> QED BY <2>1, <2>2
<1>25. Leads(n, s, t, R)
  BY <1>23, <1>24 DEF Leads
<1> QED BY <1>25 DEF t

\* A pass of fetch_sync_items_loop that finds something to ask for.
LEMMA PassFacts ==
  ASSUME NEW n, NEW s, NEW R, Good(n, s, R), s.plan = << >>, NEW g, PlanOK(n, s, g), NEW p \in DOMAIN g
  PROVE  Leads(n, s, Request(s, g, p), R)
<1> DEFINE t == [s EXCEPT !.plan = g]
<1>1. Leads(n, s, t, R) /\ t.plan = g
  BY PlanSet
<1>2. s \in State(n)
  BY DEF Good, NodeInv
<1>3. Request(t, g, p) = Request(s, g, p)
  BY <1>2 DEF Request, State
<1> HIDE DEF t
<1>4. Leads(n, t, Request(t, t.plan, p), R)
  BY <1>1, RequestFacts DEF Leads
<1>5. Leads(n, t, Request(s, g, p), R)
  BY <1>1, <1>3, <1>4
<1> QED BY <1>1, <1>5, LeadsTwice

\* The loop ends with an exception.
LEMMA FailsFacts ==
  ASSUME NEW n, NEW s, NEW R, Good(n, s, R), NEW b \in Blocks
  PROVE  Leads(n, s, [s EXCEPT !.plan = << >>, !.syncLoop = FALSE, !.activeRequests = @ \cup {b}], R)
<1> DEFINE t == [s EXCEPT !.plan = << >>, !.syncLoop = FALSE, !.activeRequests = @ \cup {b}]
<1>1. s \in State(n) /\ Stock(s) /\ s.blamed = {} /\ Requests(s) /\ Offers(s)
  BY DEF Good, NodeInv
<1>2. t \in State(n) /\ t.plan = << >> /\ t.activeRequests = s.activeRequests \cup {b}
  BY <1>1, EmptyPlan DEF State
<1>3. t.head = s.head /\ t.stored = s.stored /\ t.known = s.known /\ t.blamed = s.blamed /\ t.received = s.received
      /\ t.recent = s.recent /\ t.toFetch = s.toFetch /\ t.out = s.out /\ t.conn = s.conn
  BY <1>1 DEF State
<1> HIDE DEF t
<1>4. Linked(t) = Linked(s)
  BY <1>3, SameLinked
<1>5. Stock(t) /\ Offers(t) /\ t.blamed = {}
  BY <1>1, <1>3, <1>4 DEF Stock, Offers, Active
<1>6. Requests(t)
  <2>1. DOMAIN t.plan = {}
    BY <1>2, EmptyFunction
  <2> QED BY <1>1, <1>2, <1>3, <2>1 DEF Requests
<1>7. ASSUME NEW p \in Peers(n)
      PROVE  ConnInv(t.conn[p], Pending(t, p), Linked(t)) /\ Pair(t.conn[p], Linked(t), t.out[p], R[p])
  <2>1. ConnInv(s.conn[p], Pending(s, p), Linked(s)) /\ Pair(s.conn[p], Linked(s), s.out[p], R[p])
    BY DEF Good, NodeInv
  <2>2. Pending(t, p) \subseteq Pending(s, p)
    BY <1>2, <1>3, EmptyFunction DEF Pending
  <2>3. ConnInv(s.conn[p], Pending(t, p), Linked(s))
    BY <2>1, <2>2 DEF ConnInv
  <2> QED BY <1>3, <1>4, <2>1, <2>3
<1>8. Good(n, t, R)
  BY <1>2, <1>5, <1>6, <1>7 DEF Good, NodeInv
<1>9. Leads(n, s, t, R)
  BY <1>3, <1>8, QuietSame DEF Leads
<1> QED BY <1>9 DEF t

-----------------------------------------------------------------------------
(* The loops that ask for items and offer them.                            *)

\* fetch_items_loop, the request for item k of the list to the idle peer p
Fetched(s, k, p) ==
  Send([s EXCEPT !.cursor = k, !.toFetch = RemoveAt(@, k),
                 !.conn[p].itemsRequested = @ \cup {s.toFetch[k]}],
       p, [type |-> "fetch", sync |-> FALSE, item |-> s.toFetch[k]])

\* The list without its item k.
LEMMA WithoutItem ==
  ASSUME NEW q \in Seq(Items), NEW k \in DOMAIN q, \A i, j \in DOMAIN q : i # j => q[i] # q[j]
  PROVE  LET r == RemoveAt(q, k) IN
         /\ r \in Seq(Items) /\ Range(r) \subseteq Range(q) /\ q[k] \notin Range(r)
         /\ \A i, j \in DOMAIN r : i # j => r[i] # r[j]
<1> DEFINE r == RemoveAt(q, k)
<1>1. k \in 1..Len(q) /\ DOMAIN q \subseteq Int
  OBVIOUS
<1>2. r \in Seq(Items) /\ Without(q, k, r)
  BY <1>1, RemoveAtFacts
<1> HIDE DEF r
<1>3. \A i \in DOMAIN r : i \in Int
  BY <1>2
<1>4. \A i \in DOMAIN r : \E j \in DOMAIN q : j # k /\ r[i] = q[j] /\ j = IF i < k THEN i ELSE i + 1
  BY <1>2 DEF Without
<1>5. Range(r) \subseteq Range(q) /\ q[k] \notin Range(r)
  BY <1>4 DEF Range
<1>6. ASSUME NEW i \in DOMAIN r, NEW j \in DOMAIN r, i # j PROVE r[i] # r[j]
  <2>1. PICK x \in DOMAIN q : r[i] = q[x] /\ x = IF i < k THEN i ELSE i + 1
    BY <1>4
  <2>2. PICK y \in DOMAIN q : r[j] = q[y] /\ y = IF j < k THEN j ELSE j + 1
    BY <1>4
  <2>3. x # y
    <3>1. i \in Int /\ j \in Int /\ k \in Int
      BY <1>1, <1>3
    <3> QED BY <1>6, <2>1, <2>2, <3>1
  <2> QED BY <2>1, <2>2, <2>3
<1> QED BY <1>2, <1>5, <1>6 DEF r

\* fetch_items_loop, which asks an idle peer for the item at k
LEMMA FetchedFacts ==
  ASSUME NEW n, NEW s, NEW R, Good(n, s, R), NEW k \in DOMAIN s.toFetch, NEW p \in Active(s), ~Busy(s.conn[p])
  PROVE  Leads(n, s, Fetched(s, k, p), R)
<1> DEFINE x == s.toFetch[k]
           c == s.conn[p]
           d == [c EXCEPT !.itemsRequested = @ \cup {x}]
           q == RemoveAt(s.toFetch, k)
           m == [type |-> "fetch", sync |-> FALSE, item |-> x]
           u == [s EXCEPT !.cursor = k, !.toFetch = q, !.conn[p] = d]
           t == Fetched(s, k, p)
<1>1. s \in State(n) /\ Stock(s) /\ s.blamed = {} /\ Requests(s) /\ Offers(s) /\ R \in [Peers(n) -> Queues]
  BY DEF Good, NodeInv
<1>2. s.toFetch \in Seq(Items) /\ DOMAIN s.conn = Peers(n)
  BY <1>1, StateFields
<1>3. p \in Peers(n) /\ x \in Items /\ x \in Range(s.toFetch) /\ c.status = "active" /\ k \in Nat
  <2>1. p \in Peers(n) /\ c.status = "active"
    BY <1>2 DEF Active
  <2>2. x \in Items /\ k \in Nat
    BY <1>2
  <2> QED BY <2>1, <2>2 DEF Range
<1>4. c \in Conns /\ s.out[p] \in Seq(Messages) /\ R[p] \in Seq(Messages)
  BY <1>1, <1>3, StateFields DEF Queues
<1>5. c.itemsRequested = {} /\ ~c.idsRequested
  BY DEF Busy
<1>6. q \in Seq(Items) /\ Range(q) \subseteq Range(s.toFetch) /\ x \notin Range(q)
      /\ \A i, j \in DOMAIN q : i # j => q[i] # q[j]
  <2> DEFINE f == s.toFetch
  <2>1. f \in Seq(Items) /\ k \in DOMAIN f /\ \A i, j \in DOMAIN f : i # j => f[i] # f[j]
    BY <1>1, <1>2 DEF Offers
  <2> HIDE DEF f
  <2>2. /\ RemoveAt(f, k) \in Seq(Items) /\ Range(RemoveAt(f, k)) \subseteq Range(f) /\ f[k] \notin Range(RemoveAt(f, k))
        /\ \A i, j \in DOMAIN RemoveAt(f, k) : i # j => RemoveAt(f, k)[i] # RemoveAt(f, k)[j]
    BY <2>1, WithoutItem
  <2> QED BY <2>2 DEF f
<1>7. t = Send(u, p, m)
  <2>1. [s EXCEPT !.cursor = k, !.toFetch = RemoveAt(@, k),
                  !.conn[p].itemsRequested = @ \cup {s.toFetch[k]}] = u
    BY <1>1, <1>3 DEF State, Conns
  <2> HIDE DEF u
  <2> QED BY <2>1 DEF Fetched
<1>8. m \in Fetches(x) /\ m \in Messages /\ m.type = "fetch"
  <2>1. m \in Fetches(x) /\ m.type = "fetch"
    BY DEF Fetches
  <2> HIDE DEF m, x
  <2> QED BY <1>3, <2>1, KindTypes
<1> HIDE DEF x, c, q, m, t
<1>9. d \in Conns /\ d.itemsRequested = c.itemsRequested \cup {x} /\ d.syncRequested = c.syncRequested
      /\ d.ids = c.ids /\ d.unfetched = c.unfetched /\ d.status = c.status /\ d.weNeed = c.weNeed
      /\ d.idsRequested = c.idsRequested
  BY <1>3, <1>4 DEF Conns
<1> HIDE DEF d
<1>10. u \in State(n) /\ u.toFetch = q /\ u.conn[p] = d /\ \A r \in Peers(n) : r # p => u.conn[r] = s.conn[r]
  BY <1>1, <1>3, <1>6, <1>9 DEF State
<1>11. u.head = s.head /\ u.stored = s.stored /\ u.known = s.known /\ u.blamed = s.blamed /\ u.received = s.received
       /\ u.recent = s.recent /\ u.plan = s.plan /\ u.activeRequests = s.activeRequests /\ u.out = s.out
  BY <1>1 DEF State
<1> HIDE DEF u
<1>12. Sent(n, u, t, p, m)
  BY <1>3, <1>7, <1>8, <1>10, SendFacts
<1>13. t \in State(n) /\ Same(u, t) /\ t.conn = u.conn /\ t.out[p] = Append(s.out[p], m)
       /\ \A r \in Peers(n) : r # p => t.out[r] = s.out[r]
  BY <1>11, <1>12 DEF Sent
<1>14. t.toFetch = q /\ t.conn[p] = d /\ \A r \in Peers(n) : r # p => t.conn[r] = s.conn[r]
  BY <1>10, <1>13 DEF Same
<1>15. t.head = s.head /\ t.stored = s.stored /\ t.known = s.known /\ t.blamed = s.blamed /\ t.received = s.received
       /\ t.recent = s.recent /\ t.plan = s.plan /\ t.activeRequests = s.activeRequests
  BY <1>11, <1>13 DEF Same
<1>16. Linked(t) = Linked(s)
  BY <1>15, SameLinked
<1>17. DOMAIN t.conn = Peers(n)
  BY <1>13, StateFields
<1>18. Stock(t) /\ t.blamed = {}
  BY <1>1, <1>15, <1>16 DEF Stock
<1>19. \A r \in Peers(n) : t.conn[r].syncRequested = s.conn[r].syncRequested
  BY <1>9, <1>14 DEF c
<1>20. Requests(t)
  BY <1>1, <1>2, <1>15, <1>17, <1>19 DEF Requests
<1>21. Offers(t)
  <2>1. Active(t) = Active(s) /\ \A r \in Active(s) : r \in Peers(n)
    BY <1>2, <1>9, <1>14, <1>17 DEF Active, c
  <2>2. \A r \in Active(s) : s.conn[r].itemsRequested \cap Range(s.toFetch) = {}
    BY <1>1 DEF Offers
  <2>3. t.conn[p].itemsRequested = {x}
    BY <1>5, <1>9, <1>14
  <2>4. \A r \in Active(t) : t.conn[r].itemsRequested \cap Range(t.toFetch) = {}
    BY <1>6, <1>14, <2>1, <2>2, <2>3
  <2>5. ASSUME NEW r \in Active(t), NEW w \in Active(t), r # w
        PROVE  t.conn[r].itemsRequested \cap t.conn[w].itemsRequested = {}
    <3>1. r \in Active(s) /\ w \in Active(s) /\ r \in Peers(n) /\ w \in Peers(n)
      BY <2>1
    <3>2. CASE r = p
      BY <1>3, <1>14, <2>2, <2>3, <2>5, <3>1, <3>2
    <3>3. CASE w = p
      BY <1>3, <1>14, <2>2, <2>3, <2>5, <3>1, <3>3
    <3>4. CASE r # p /\ w # p
      BY <1>1, <1>14, <2>5, <3>1, <3>4 DEF Offers
    <3> QED BY <3>2, <3>3, <3>4
  <2> QED BY <1>6, <1>14, <2>4, <2>5 DEF Offers
<1>22. ASSUME NEW r \in Peers(n)
       PROVE  ConnInv(t.conn[r], Pending(t, r), Linked(t)) /\ Pair(t.conn[r], Linked(t), t.out[r], R[r])
  <2>1. ConnInv(s.conn[r], Pending(s, r), Linked(s)) /\ Pair(s.conn[r], Linked(s), s.out[r], R[r])
    BY DEF Good, NodeInv
  <2>0. Pending(t, r) = Pending(s, r)
    BY <1>15, <1>19, PendingSame
  <2>2. CASE r = p
    <3>1. ConnInv(d, Pending(s, p), Linked(s))
      BY <1>3, <1>9, <2>1, <2>2 DEF ConnInv, c
    <3>2. Pair(d, Linked(s), Append(s.out[p], m), R[p])
      <4>1. Pair(c, Linked(s), s.out[p], R[p])
        BY <2>1, <2>2 DEF c
      <4>2. Greets(d, R[p])
        BY <1>9, <4>1 DEF Pair, Greets
      <4>3. x \notin c.itemsRequested
        BY <1>5
      <4> QED BY <1>3, <1>4, <1>8, <1>9, <4>1, <4>2, <4>3, PairAsksItem
    <3> QED BY <1>13, <1>14, <1>16, <2>0, <2>2, <3>1, <3>2
  <2>3. CASE r # p
    BY <1>13, <1>14, <1>16, <2>0, <2>1, <2>3
  <2> QED BY <2>2, <2>3
<1>23. Good(n, t, R)
  BY <1>1, <1>13, <1>18, <1>20, <1>21, <1>22 DEF Good, NodeInv
<1>24. ASSUME NEW r \in Peers(n) PROVE Quiet(s.out[r], t.out[r])
  <2>1. CASE r = p
    BY <1>4, <1>8, <1>13, <2>1, QuietAppend
  <2>2. CASE r # p
    BY <1>13, <2>2, QuietSame
  <2> QED BY <2>1, <2>2
<1>25. Leads(n, s, t, R)
  BY <1>23, <1>24 DEF Leads
<1> QED BY <1>25 DEF t

\* An offer of S, if there is anything in it, is added to a queue.
Offered(q, S) == q \o (IF S = {} THEN << >> ELSE <<[type |-> "inventory", items |-> S]>>)

\* An offer of items asks for nothing and answers nothing.
LEMMA OfferedFacts ==
  ASSUME NEW q \in Seq(Messages), NEW S \in SUBSET Items, NEW c, NEW L, NEW rep, Pair(c, L, q, rep)
  PROVE  Offered(q, S) \in Seq(Messages) /\ Quiet(q, Offered(q, S)) /\ Pair(c, L, Offered(q, S), rep)
<1> DEFINE m == [type |-> "inventory", items |-> S]
<1>1. CASE S = {}
  <2>1. Offered(q, S) = q
    BY <1>1 DEF Offered
  <2> QED BY <2>1, QuietSame
<1>2. CASE S # {}
  <2>1. m \in Messages /\ m.type = "inventory"
    BY DEF Messages
  <2>2. Offered(q, S) = q \o <<m>>
    BY <1>2 DEF Offered
  <2> HIDE DEF m
  <2>3. q \o <<m>> = Append(q, m) /\ Append(q, m) \in Seq(Messages)
    BY <2>1
  <2>4. Quiet(q, Append(q, m))
    BY <2>1, QuietAppend
  <2>5. Pair(c, L, Append(q, m), rep)
    BY <2>1, PairTells
  <2> QED BY <2>2, <2>3, <2>4, <2>5
<1> QED BY <1>1, <1>2

\* Connections that stay as they are, with offers.
LEMMA GoodOffers ==
  ASSUME NEW n, NEW s, NEW t \in State(n), NEW R, Good(n, s, R), Same(s, t),
         \A p \in Peers(n) : Alike(s.conn[p], t.conn[p]),
         \A p \in Peers(n) : Quiet(s.out[p], t.out[p]) /\ Pair(s.conn[p], Linked(s), t.out[p], R[p])
  PROVE  Leads(n, s, t, R)
<1>1. Linked(t) = Linked(s)
  BY SameLinked DEF Same
<1>2. Stock(t) /\ t.blamed = {} /\ R \in [Peers(n) -> Queues]
  BY <1>1 DEF Good, NodeInv, Stock, Same
<1>3. t.plan = s.plan /\ t.activeRequests = s.activeRequests /\ t.toFetch = s.toFetch /\ t.received = s.received
  BY DEF Same
<1>4. ASSUME NEW p \in Peers(n)
      PROVE  /\ Lesser(s.conn[p], t.conn[p])
             /\ ConnInv(t.conn[p], Pending(t, p), Linked(t))
             /\ Pair(t.conn[p], Linked(t), t.out[p], R[p])
  <2>1. Pending(t, p) = Pending(s, p)
    BY <1>3, PendingSame DEF Alike
  <2>2. ConnInv(s.conn[p], Pending(s, p), Linked(s)) /\ Pair(s.conn[p], Linked(s), t.out[p], R[p])
    BY DEF Good, NodeInv
  <2>3. Alike(s.conn[p], t.conn[p])
    OBVIOUS
  <2>4. /\ Lesser(s.conn[p], t.conn[p]) /\ ConnInv(t.conn[p], Pending(s, p), Linked(s))
        /\ Pair(t.conn[p], Linked(s), t.out[p], R[p])
    BY <2>2, <2>3, AlikeFacts
  <2> QED BY <1>1, <2>1, <2>4
<1>5. Good(n, t, R)
  BY <1>2, <1>3, <1>4, GoodEnds
<1> QED BY <1>5 DEF Leads

\* advertise_inventory_loop
Advertised(s) ==
  LET offer(p) == s.newInventory \ (s.conn[p].advertised \cup s.conn[p].advertisedToUs)
      to == {p \in Active(s) : ~s.conn[p].peerNeeds}
      end(p) == IF p \notin to THEN s.conn[p]
                ELSE [s.conn[p] EXCEPT !.advertised = @ \cup offer(p)]
  IN  [s EXCEPT !.newInventory = {},
           !.conn = [p \in DOMAIN @ |-> end(p)],
           !.out = [p \in DOMAIN @ |-> IF p \in to
                    THEN Offered(Offered(@[p], offer(p) \cap TrxIds), offer(p) \cap Blocks) ELSE @[p]]]

\* A pass of advertise_inventory_loop
LEMMA AdvertisedFacts ==
  ASSUME NEW n, NEW s, NEW R, Good(n, s, R)
  PROVE  Leads(n, s, Advertised(s), R)
<1> DEFINE offer(p) == s.newInventory \ (s.conn[p].advertised \cup s.conn[p].advertisedToUs)
           to == {p \in Active(s) : ~s.conn[p].peerNeeds}
           end(p) == IF p \notin to THEN s.conn[p]
                     ELSE [s.conn[p] EXCEPT !.advertised = @ \cup offer(p)]
           queue(p) == IF p \in to
                       THEN Offered(Offered(s.out[p], offer(p) \cap TrxIds), offer(p) \cap Blocks) ELSE s.out[p]
           conn == [p \in Peers(n) |-> end(p)]
           out == [p \in Peers(n) |-> queue(p)]
           t == [s EXCEPT !.newInventory = {}, !.conn = conn, !.out = out]
<1>1. s \in State(n)
  BY DEF Good, NodeInv
<1>2. s.newInventory \subseteq Items /\ DOMAIN s.conn = Peers(n) /\ DOMAIN s.out = Peers(n)
  BY <1>1 DEF State
<1>3. Advertised(s) = t
  BY <1>2 DEF Advertised
<1> HIDE DEF to
<1>4. ASSUME NEW p \in Peers(n)
      PROVE  end(p) \in Conns /\ Alike(s.conn[p], end(p))
  <2> DEFINE c == s.conn[p]
             S == offer(p)
             e == [c EXCEPT !.advertised = @ \cup S]
  <2>1. c \in Conns /\ S \subseteq Items
    BY <1>1, <1>2, StateFields
  <2>2. CASE p \notin to
    BY <2>1, <2>2, AlikeSame
  <2>3. CASE p \in to
    <3>1. end(p) = e
      BY <2>3
    <3> HIDE DEF c, S, end
    <3>2. e \in Conns
      BY <2>1 DEF Conns
    <3>3. Alike(c, e)
      BY <2>1 DEF Conns, Alike
    <3> HIDE DEF e
    <3> QED BY <3>1, <3>2, <3>3 DEF c
  <2> QED BY <2>2, <2>3
<1>5. ASSUME NEW p \in Peers(n)
      PROVE  queue(p) \in Seq(Messages) /\ Quiet(s.out[p], queue(p)) /\ Pair(s.conn[p], Linked(s), queue(p), R[p])
  <2> DEFINE q == s.out[p]
             S == offer(p) \cap TrxIds
             T == offer(p) \cap Blocks
             r == Offered(q, S)
             w == Offered(r, T)
             c == s.conn[p]
             L == Linked(s)
  <2>1. q \in Seq(Messages) /\ Pair(c, L, q, R[p]) /\ S \in SUBSET Items /\ T \in SUBSET Items
    <3>1. q \in Seq(Messages)
      BY <1>1, StateFields
    <3> QED BY <1>2, <3>1 DEF Good
  <2>2. CASE p \notin to
    BY <2>1, <2>2, QuietSame
  <2>3. CASE p \in to
    <3>1. queue(p) = w
      BY <2>3
    <3> HIDE DEF q, S, T, c, L
    <3>2. r \in Seq(Messages) /\ Quiet(q, r) /\ Pair(c, L, r, R[p])
      BY <2>1, OfferedFacts
    <3> HIDE DEF r
    <3>3. w \in Seq(Messages) /\ Quiet(r, w) /\ Pair(c, L, w, R[p])
      BY <2>1, <3>2, OfferedFacts
    <3> HIDE DEF w
    <3>4. Quiet(q, w)
      BY <3>2, <3>3, QuietTwice
    <3> HIDE DEF queue
    <3> QED BY <3>1, <3>3, <3>4 DEF q, c, L
  <2> QED BY <2>2, <2>3
<1> HIDE DEF end, queue
<1>6. conn \in [Peers(n) -> Conns] /\ out \in [Peers(n) -> Queues]
  BY <1>4, <1>5 DEF Queues
<1>7. \A p \in Peers(n) : conn[p] = end(p) /\ out[p] = queue(p)
  OBVIOUS
<1> HIDE DEF conn, out
<1>8. t \in State(n) /\ t.conn = conn /\ t.out = out
  BY <1>1, <1>6 DEF State
<1>9. Same(s, t)
  BY <1>1 DEF State, Same
<1> HIDE DEF t
<1>10. \A p \in Peers(n) : Alike(s.conn[p], t.conn[p])
  BY <1>4, <1>7, <1>8
<1>11. \A p \in Peers(n) : Quiet(s.out[p], t.out[p]) /\ Pair(s.conn[p], Linked(s), t.out[p], R[p])
  BY <1>5, <1>7, <1>8
<1>12. Leads(n, s, t, R)
  BY <1>8, <1>9, <1>10, <1>11, GoodOffers
<1> QED BY <1>3, <1>12

-----------------------------------------------------------------------------
(* Steps of the network.                                                   *)

\* A connection has two ends, at different nodes.
LEMMA PeerFacts ==
  ASSUME NEW n \in Nodes, NEW p \in Peers(n)
  PROVE  p \in Nodes /\ n \in Peers(p) /\ p # n
<1>1. p \in Nodes /\ <<n, p>> \in Links
  BY DEF Peers
<1>2. \A a, b : <<a, b>> \in Outbound => a # b
  BY LinkAssumption
<1>3. CASE <<n, p>> \in Outbound
  <2>1. <<p, n>> \in Links
    BY <1>3 DEF Links
  <2> QED BY <1>1, <1>2, <1>3, <2>1 DEF Peers
<1>4. CASE <<n, p>> \notin Outbound
  <2>1. PICK l \in Outbound : <<n, p>> = <<l[2], l[1]>>
    BY <1>1, <1>4 DEF Links
  <2>2. l = <<l[1], l[2]>>
    BY LinkAssumption
  <2>3. <<p, n>> \in Outbound
    BY <2>1, <2>2
  <2> QED BY <1>1, <1>2, <2>3 DEF Peers, Links
<1> QED BY <1>3, <1>4

\* What comes in at n.
Incoming(n) == [p \in Peers(n) |-> node[p].out[n]]

\* Every node is in a good state, with what its peers have sent.
LEMMA NodeGood ==
  ASSUME SyncInv, NEW n \in Nodes
  PROVE  Good(n, node[n], Incoming(n)) /\ node[n] \in State(n)
<1>1. NodeInv(n, node[n]) /\ \A p \in Peers(n) : NetInv(n, p)
  BY DEF SyncInv
<1>2. ASSUME NEW p \in Peers(n) PROVE node[p].out[n] \in Queues
  <2>1. p \in Nodes /\ n \in Peers(p)
    BY PeerFacts
  <2>2. node[p] \in State(p)
    BY <2>1 DEF SyncInv, NodeInv
  <2> QED BY <2>1, <2>2 DEF State
<1>3. Incoming(n) \in [Peers(n) -> Queues] /\ \A p \in Peers(n) : Incoming(n)[p] = node[p].out[n]
  BY <1>2 DEF Incoming
<1> QED BY <1>1, <1>3 DEF Good, NetInv, NodeInv

\* Bounds of the model, which some steps count up to.
Counters == breaks \in 0..MaxBreaks /\ sent \in 0..MaxSent

\* Node n takes a step by itself.
LEMMA LocalStep ==
  ASSUME SyncInv, NEW n \in Nodes, NEW t, Leads(n, node[n], t, Incoming(n)),
         node' = [node EXCEPT ![n] = t], Counters'
  PROVE  SyncInv'
<1>1. node = [m \in Nodes |-> node[m]]
  BY DEF SyncInv
<1>2. DOMAIN node = Nodes
  BY <1>1
<1>3. node'[n] = t /\ \A m \in Nodes : m # n => node'[m] = node[m]
  BY <1>2
<1>4. node' = [m \in Nodes |-> node'[m]]
  BY <1>2
<1>5. Good(n, t, Incoming(n)) /\ \A p \in Peers(n) : Quiet(node[n].out[p], t.out[p])
  BY DEF Leads
<1>6. \A p \in Peers(n) : Incoming(n)[p] = node[p].out[n]
  BY DEF Incoming
<1>7. ASSUME NEW m \in Nodes PROVE NodeInv(m, node'[m])
  <2>1. CASE m = n
    BY <1>3, <1>5, <2>1 DEF Good
  <2>2. CASE m # n
    BY <1>3, <2>2 DEF SyncInv
  <2> QED BY <2>1, <2>2
<1>8. ASSUME NEW m \in Nodes, NEW p \in Peers(m)
      PROVE  Pair(node'[m].conn[p], Linked(node'[m]), node'[m].out[p], node'[p].out[m])
  <2>1. p \in Nodes /\ p # m /\ m \in Peers(p)
    BY PeerFacts
  <2>2. Pair(node[m].conn[p], Linked(node[m]), node[m].out[p], node[p].out[m])
    BY DEF SyncInv, NetInv
  <2>3. CASE m = n
    <3>1. Pair(t.conn[p], Linked(t), t.out[p], node[p].out[n])
      BY <1>5, <1>6, <2>3 DEF Good
    <3> QED BY <1>3, <2>1, <2>3, <3>1
  <2>4. CASE m # n /\ p = n
    <3>1. node[n].out[m] \in Seq(Messages) /\ t.out[m] \in Seq(Messages)
      <4>1. node[n] \in State(n) /\ t \in State(n)
        BY <1>5, NodeGood DEF Good, NodeInv
      <4> QED BY <2>1, <2>4, <4>1, StateFields
    <3>2. Quiet(node[n].out[m], t.out[m])
      BY <1>5, <2>1, <2>4
    <3>3. Pair(node[m].conn[n], Linked(node[m]), node[m].out[n], t.out[m])
      BY <2>2, <2>4, <3>1, <3>2, PairHears
    <3> QED BY <1>3, <2>4, <3>3
  <2>5. CASE m # n /\ p # n
    BY <1>3, <2>1, <2>2, <2>5
  <2> QED BY <2>3, <2>4, <2>5
<1> QED BY <1>4, <1>7, <1>8 DEF SyncInv, NetInv, Counters

\* Node n reads a message of p.
LEMMA ReadStep ==
  ASSUME SyncInv, NEW n \in Nodes, NEW p \in Peers(n), node[p].out[n] # << >>, NEW R2,
         R2 = [Incoming(n) EXCEPT ![p] = Tail(Incoming(n)[p])],
         NEW t, Good(n, t, R2),
         \A q \in Peers(n) : q # p => Quiet(node[n].out[q], t.out[q]),
         Pair(node[p].conn[n], Linked(node[p]), Tail(node[p].out[n]), t.out[p]),
         node' = [node EXCEPT ![n] = t, ![p].out[n] = Tail(@)], Counters'
  PROVE  SyncInv'
<1> DEFINE v == [node[p] EXCEPT !.out[n] = Tail(@)]
<1>1. DOMAIN node = Nodes
  BY DEF SyncInv
<1>2. p \in Nodes /\ n \in Peers(p) /\ p # n
  BY PeerFacts
<1>3. node[p] \in State(p) /\ NodeInv(p, node[p])
  BY <1>2 DEF SyncInv, NodeInv
<1>4. node[p].out[n] \in Seq(Messages)
  BY <1>2, <1>3, StateFields
<1>5. Tail(node[p].out[n]) \in Queues
  BY <1>4, TailFacts DEF Queues
<1>6. node'[n] = t /\ node'[p] = v /\ \A m \in Nodes : m # n /\ m # p => node'[m] = node[m]
  BY <1>1, <1>2
<1>7. node' = [m \in Nodes |-> node'[m]]
  BY <1>1
<1>8. v \in State(p) /\ v.out[n] = Tail(node[p].out[n]) /\ \A q \in Peers(p) : q # n => v.out[q] = node[p].out[q]
  BY <1>2, <1>3, <1>5 DEF State
<1>9. Same(node[p], v) /\ v.conn = node[p].conn
  BY <1>3 DEF State, Same
<1> HIDE DEF v
<1>10. Linked(v) = Linked(node[p])
  BY <1>9, SameLinked DEF Same
<1>11. NodeInv(p, v)
  <2>1. Stock(v) /\ v.blamed = {} /\ Requests(v) /\ Offers(v)
    BY <1>3, <1>9, <1>10 DEF NodeInv, Stock, Requests, Offers, Active, Same
  <2>2. \A q : Pending(v, q) = Pending(node[p], q)
    BY <1>9 DEF Pending, Same
  <2> QED BY <1>3, <1>8, <1>9, <1>10, <2>1, <2>2 DEF NodeInv
<1>12. ASSUME NEW m \in Nodes PROVE NodeInv(m, node'[m])
  <2>1. CASE m = n
    BY <1>6, <2>1 DEF Good
  <2>2. CASE m = p
    BY <1>6, <1>11, <2>2
  <2>3. CASE m # n /\ m # p
    BY <1>6, <2>3 DEF SyncInv
  <2> QED BY <2>1, <2>2, <2>3
<1>13. R2[p] = Tail(node[p].out[n]) /\ \A q \in Peers(n) : q # p => R2[q] = node[q].out[n]
  BY DEF Incoming
<1>14. ASSUME NEW m \in Nodes, NEW q \in Peers(m)
       PROVE  Pair(node'[m].conn[q], Linked(node'[m]), node'[m].out[q], node'[q].out[m])
  <2>1. q \in Nodes /\ q # m /\ m \in Peers(q)
    BY PeerFacts
  <2>2. Pair(node[m].conn[q], Linked(node[m]), node[m].out[q], node[q].out[m])
    BY DEF SyncInv, NetInv
  <2>3. CASE m = n /\ q = p
    <3>1. Pair(t.conn[p], Linked(t), t.out[p], R2[p])
      BY DEF Good
    <3> QED BY <1>6, <1>8, <1>13, <2>3, <3>1
  <2>4. CASE m = n /\ q # p
    <3>1. Pair(t.conn[q], Linked(t), t.out[q], R2[q])
      BY <2>4 DEF Good
    <3> QED BY <1>6, <1>13, <2>1, <2>4, <3>1
  <2>5. CASE m = p /\ q = n
    BY <1>6, <1>8, <1>9, <1>10, <2>5
  <2>6. CASE m = p /\ q # n
    BY <1>6, <1>8, <1>9, <1>10, <2>1, <2>2, <2>6
  <2>7. CASE m # n /\ m # p /\ q = n
    <3>1. node[n].out[m] \in Seq(Messages) /\ t.out[m] \in Seq(Messages)
      <4>1. node[n] \in State(n) /\ t \in State(n)
        BY NodeGood DEF Good, NodeInv
      <4> QED BY <2>1, <2>7, <4>1, StateFields
    <3>2. Quiet(node[n].out[m], t.out[m])
      BY <2>1, <2>7
    <3>3. Pair(node[m].conn[n], Linked(node[m]), node[m].out[n], t.out[m])
      BY <2>2, <2>7, <3>1, <3>2, PairHears
    <3> QED BY <1>6, <2>7, <3>3
  <2>8. CASE m # n /\ m # p /\ q = p
    BY <1>6, <1>8, <2>1, <2>2, <2>8
  <2>9. CASE m # n /\ m # p /\ q # n /\ q # p
    BY <1>6, <2>1, <2>2, <2>9
  <2> QED BY <2>3, <2>4, <2>5, <2>6, <2>7, <2>8, <2>9
<1> QED BY <1>7, <1>12, <1>14 DEF SyncInv, NetInv, Counters

\* What a message does at n, and what p hears of it.
LEMMA ReceiveFacts ==
  ASSUME SyncInv, NEW n \in Nodes, NEW p \in Peers(n), node[n].conn[p].status # "closed",
         node[p].out[n] # << >>, NEW R2, R2 = [Incoming(n) EXCEPT ![p] = Tail(Incoming(n)[p])],
         NEW t, t = OnMessage(node[n], p, node[p].out[n][1])
  PROVE  /\ Good(n, t, R2)
         /\ \A q \in Peers(n) : q # p => Quiet(node[n].out[q], t.out[q])
         /\ Pair(node[p].conn[n], Linked(node[p]), Tail(node[p].out[n]), t.out[p])
<1> DEFINE s == node[n]
           R == Incoming(n)
           m == R[p][1]
           c == node[p].conn[n]
           L == Linked(node[p])
           req == node[p].out[n]
           rep == node[n].out[p]
<1>1. p \in Nodes /\ n \in Peers(p) /\ p # n
  BY PeerFacts
<1>2. Good(n, s, R) /\ R[p] = req /\ s \in State(n)
  BY NodeGood DEF Incoming
<1>3. Reads(n, s, p, R, R2)
  BY <1>2 DEF Reads
<1>4. m \in Messages
  BY <1>3, ReadsFacts
<1>5. req \in Seq(Messages) /\ rep \in Seq(Messages)
  <2>1. node[p] \in State(p)
    BY <1>1 DEF SyncInv, NodeInv
  <2> QED BY <1>1, <1>2, <2>1, StateFields
<1>6. Pair(c, L, req, rep)
  BY <1>1 DEF SyncInv, NetInv
<1>7. t = OnMessage(s, p, m) /\ req # << >> /\ req[1] = m
  BY <1>2
<1> HIDE DEF s, R, m, c, L, req, rep
<1>8. ASSUME Leads(n, s, t, R2)
      PROVE  Good(n, t, R2) /\ (\A q \in Peers(n) : q # p => Quiet(s.out[q], t.out[q])) /\ Pair(c, L, Tail(req), t.out[p])
  <2>1. Quiet(rep, t.out[p]) /\ t \in State(n)
    BY <1>8 DEF Leads, Good, NodeInv, rep, s
  <2>2. t.out[p] \in Seq(Messages)
    BY <2>1, StateFields
  <2>3. Pair(c, L, Tail(req), rep)
    BY <1>5, <1>6, <1>7, PairRead
  <2>4. Pair(c, L, Tail(req), t.out[p])
    BY <1>5, <2>1, <2>2, <2>3, PairHears
  <2> QED BY <1>8, <2>4 DEF Leads
<1>9. ASSUME NEW a \in Messages, Answered(n, s, t, p, R2, a),
             \A r \in Seq(Messages) : Pair(c, L, req, r) => Pair(c, L, Tail(req), Append(r, a))
      PROVE  Good(n, t, R2) /\ (\A q \in Peers(n) : q # p => Quiet(s.out[q], t.out[q])) /\ Pair(c, L, Tail(req), t.out[p])
  <2>1. PICK r \in Seq(Messages) : Quiet(rep, r) /\ Quiet(Append(r, a), t.out[p])
    BY <1>9 DEF Answered, rep, s
  <2>2. t \in State(n)
    BY <1>9 DEF Answered, Good, NodeInv
  <2>3. t.out[p] \in Seq(Messages) /\ Append(r, a) \in Seq(Messages)
    BY <2>2, StateFields
  <2>4. Pair(c, L, req, r)
    BY <1>5, <1>6, <2>1, PairHears
  <2>5. Pair(c, L, Tail(req), Append(r, a))
    BY <1>9, <2>4
  <2>6. Pair(c, L, Tail(req), t.out[p])
    BY <2>1, <2>3, <2>5, PairHears
  <2> QED BY <1>9, <2>6 DEF Answered
<1>10. CASE m.type = "address"
  <2>1. t = OnAddress(s, p)
    BY <1>7, <1>10 DEF OnMessage
  <2>2. Leads(n, s, t, R2)
    BY <1>3, <1>10, <2>1, OnAddressFacts DEF m
  <2> QED BY <1>8, <2>2 DEF s, c, L, req
<1>11. CASE m.type = "fetch_ids"
  <2>1. t = OnFetchIds(s, p, m)
    BY <1>7, <1>11 DEF OnMessage
  <2>2. m \in FetchIds
    BY <1>4, <1>11, Kinds
  <2>3. PICK a \in Ids : /\ Answered(n, s, t, p, R2, a)
                         /\ \A K, I : Range(m.synopsis) \subseteq K \cup I => Answer(a, K, I)
    <3>1. AnswersIds(n, s, t, p, R2, m)
      BY <1>3, <2>1, <2>2, OnFetchIdsFacts DEF m
    <3> QED BY <3>1 DEF AnswersIds
  <2>4. Range(m.synopsis) \subseteq L \cup Range(c.ids)
    <3>1. 1 \in DOMAIN req
      BY <1>5, <1>7
    <3> QED BY <1>6, <1>7, <2>2, <3>1 DEF Pair, Asked
  <2>5. Answer(a, L, Range(c.ids))
    BY <2>3, <2>4
  <2>6. a \in Messages
    BY KindTypes
  <2>7. \A r \in Seq(Messages) : Pair(c, L, req, r) => Pair(c, L, Tail(req), Append(r, a))
    BY <1>5, <1>7, <2>2, <2>5, PairAnswersIds
  <2> QED BY <1>9, <2>3, <2>6, <2>7 DEF s, c, L, req
<1>12. CASE m.type = "ids"
  <2>1. t = OnIds(s, p, m)
    BY <1>7, <1>12 DEF OnMessage
  <2>2. m \in Ids
    BY <1>4, <1>12, Kinds
  <2>3. Leads(n, s, t, R2)
    BY <1>3, <2>1, <2>2, OnIdsFacts DEF m
  <2> QED BY <1>8, <2>3 DEF s, c, L, req
<1>13. CASE m.type = "fetch"
  <2>1. t = OnFetch(s, p, m)
    BY <1>7, <1>13 DEF OnMessage
  <2>2. m.item \in Items
    BY <1>4, <1>13 DEF Messages
  <2>3. m \in Fetches(m.item)
    BY <1>4, <1>13, Kinds
  <2> DEFINE x == m.item
  <2> HIDE DEF x
  <2>4. x \in Items /\ m \in Fetches(x)
    BY <2>2, <2>3 DEF x
  <2>5. PICK a \in Replies(x) : Answered(n, s, t, p, R2, a)
    BY <1>3, <2>1, <2>4, OnFetchFacts DEF m
  <2>6. a \in Messages
    BY <2>4, KindTypes
  <2>7. \A r \in Seq(Messages) : Pair(c, L, req, r) => Pair(c, L, Tail(req), Append(r, a))
    BY <1>5, <1>7, <2>4, PairReplies
  <2> QED BY <1>9, <2>5, <2>6, <2>7 DEF s, c, L, req
<1>14. CASE m.type \in {"item", "not_available"}
  <2>1. m.item \in Items
    BY <1>4, <1>14 DEF Messages
  <2> DEFINE x == m.item
  <2>2. m \in Replies(x)
    BY <1>4, <1>14, Kinds
  <2>3. t \in {OnBlock(s, p, x), OnTrx(s, p, x), OnNotAvailable(s, p, m)}
        /\ (t = OnBlock(s, p, x) \/ (x \notin Blocks /\ t = OnTrx(s, p, x)) \/ t = OnNotAvailable(s, p, m))
        /\ (x \in Blocks => t = OnBlock(s, p, x) \/ t = OnNotAvailable(s, p, m))
        /\ (x \notin Blocks => t = OnTrx(s, p, x) \/ t = OnNotAvailable(s, p, m))
    BY <1>7, <1>14 DEF OnMessage
  <2>4. x \in Items
    BY <2>1
  <2> HIDE DEF x
  <2>5. Leads(n, s, OnNotAvailable(s, p, m), R2)
    BY <1>3, <2>2, <2>4, OnNotAvailableFacts DEF m
  <2>6. CASE x \in Blocks
    <3>1. Leads(n, s, OnBlock(s, p, x), R2)
      BY <1>3, <2>2, <2>6, OnBlockFacts DEF m
    <3>2. Leads(n, s, t, R2)
      BY <2>3, <2>5, <2>6, <3>1
    <3> QED BY <1>8, <3>2 DEF s, c, L, req
  <2>7. CASE x \notin Blocks
    <3>1. x \in TrxIds
      BY <2>4, <2>7 DEF Items
    <3>2. Leads(n, s, OnTrx(s, p, x), R2)
      BY <1>3, <2>2, <3>1, OnTrxFacts DEF m
    <3>3. Leads(n, s, t, R2)
      BY <2>3, <2>5, <2>7, <3>2
    <3> QED BY <1>8, <3>3 DEF s, c, L, req
  <2> QED BY <2>6, <2>7
<1>15. CASE m.type = "inventory"
  <2>1. t = OnInventory(s, p, m)
    BY <1>7, <1>15 DEF OnMessage
  <2>2. Leads(n, s, t, R2)
    BY <1>3, <1>15, <2>1, OnInventoryFacts DEF m
  <2> QED BY <1>8, <2>2 DEF s, c, L, req
<1>16. CASE m.type = "eof"
  <2>1. t = [s EXCEPT !.conn[p].status = "closed"]
    BY <1>7, <1>16 DEF OnMessage
  <2>2. Leads(n, s, t, R2)
    BY <1>3, <2>1, AddressReads
  <2> QED BY <1>8, <2>2 DEF s, c, L, req
<1>17. m.type \in {"address", "fetch_ids", "ids", "fetch", "item", "not_available", "inventory", "eof"}
  BY <1>4 DEF Messages
<1> QED BY <1>10, <1>11, <1>12, <1>13, <1>14, <1>15, <1>16, <1>17

\* A message is read and handled: the invariant holds at both ends and elsewhere.
LEMMA ReceiveStep ==
  ASSUME SyncInv, NEW n \in Nodes, NEW p \in Peers(n), Receive(n, p)
  PROVE  SyncInv'
<1> DEFINE t == OnMessage(node[n], p, node[p].out[n][1])
           R2 == [Incoming(n) EXCEPT ![p] = Tail(Incoming(n)[p])]
<1>1. p # n /\ DOMAIN node = Nodes /\ p \in Nodes
  BY PeerFacts DEF SyncInv
<1>2. /\ node[n].conn[p].status # "closed" /\ node[p].out[n] # << >>
      /\ node' = [node EXCEPT ![n] = t, ![p].out[n] = Tail(@)]
  BY DEF Receive
<1>3. Counters'
  BY DEF Receive, SyncInv, Counters
<1> HIDE DEF t, R2
<1>4. /\ Good(n, t, R2)
      /\ \A q \in Peers(n) : q # p => Quiet(node[n].out[q], t.out[q])
      /\ Pair(node[p].conn[n], Linked(node[p]), Tail(node[p].out[n]), t.out[p])
  BY <1>2, ReceiveFacts DEF t, R2
<1> QED BY <1>2, <1>3, <1>4, ReadStep DEF R2

\* A step of n that leaves the counters alone.
LEMMA StepFacts ==
  ASSUME SyncInv, NEW n \in Nodes, NEW t, Step(n, t), Leads(n, node[n], t, Incoming(n))
  PROVE  SyncInv'
<1>1. Counters'
  BY DEF Step, SyncInv, Counters
<1>2. node' = [node EXCEPT ![n] = t]
  BY DEF Step
<1> QED BY <1>1, <1>2, LocalStep

\* A pass of fetch_sync_items_loop up to its first request
LEMMA PassStep ==
  ASSUME SyncInv, NEW n \in Nodes, SyncLoopPass(n)
  PROVE  SyncInv'
<1> DEFINE s == [node[n] EXCEPT !.syncWake = FALSE]
           R == Incoming(n)
<1>1. Good(n, node[n], R) /\ node[n] \in State(n)
  BY NodeGood
<1>2. s \in State(n) /\ Same(node[n], s) /\ s.conn = node[n].conn /\ s.out = node[n].out
  BY <1>1 DEF State, Same
<1>3. node[n].plan = << >>
  BY DEF SyncLoopPass
<1>4. PICK order \in SetToSeqs(Active(s)) :
        \/ Plan(s, order) = << >> /\ Step(n, s)
        \/ \E p \in DOMAIN Plan(s, order) : Step(n, Request(s, Plan(s, order), p))
  BY DEF SyncLoopPass
<1> HIDE DEF s, R
<1>5. Leads(n, node[n], s, R) /\ s.plan = << >>
  BY <1>1, <1>2, <1>3, GoodSame DEF Same
<1>6. CASE Step(n, s)
  BY <1>5, <1>6, StepFacts DEF R
<1>7. CASE \E p \in DOMAIN Plan(s, order) : Step(n, Request(s, Plan(s, order), p))
  <2> DEFINE g == Plan(s, order)
  <2>1. PICK p \in DOMAIN g : Step(n, Request(s, g, p))
    BY <1>7
  <2>2. PlanOK(n, s, g)
    BY <1>2, PlanFacts
  <2> HIDE DEF g
  <2>3. Good(n, s, R)
    BY <1>5 DEF Leads
  <2>4. Leads(n, s, Request(s, g, p), R)
    BY <1>5, <2>2, <2>3, PassFacts
  <2>5. Leads(n, node[n], Request(s, g, p), R)
    BY <1>5, <2>4, LeadsTwice
  <2> QED BY <2>1, <2>5, StepFacts DEF R
<1> QED BY <1>4, <1>6, <1>7

\* A further request of the pass, after anything may have come in
LEMMA RequestStep ==
  ASSUME SyncInv, NEW n \in Nodes, SyncLoopRequest(n)
  PROVE  SyncInv'
<1>1. PICK p \in DOMAIN node[n].plan : Step(n, Request(node[n], node[n].plan, p))
  BY DEF SyncLoopRequest
<1>2. Leads(n, node[n], Request(node[n], node[n].plan, p), Incoming(n))
  BY NodeGood, RequestFacts
<1> QED BY <1>1, <1>2, StepFacts

\* The loop ends with an exception: the block it was to ask for stays taken.
LEMMA FailsStep ==
  ASSUME SyncInv, NEW n \in Nodes, SyncLoopFails(n)
  PROVE  SyncInv'
<1>1. PICK p \in DOMAIN node[n].plan :
        Step(n, [node[n] EXCEPT !.plan = << >>, !.syncLoop = FALSE,
                                !.activeRequests = @ \cup {node[n].plan[p]}])
  BY DEF SyncLoopFails
<1> DEFINE b == node[n].plan[p]
<1>2. b \in Blocks
  <2>1. node[n].plan \in Plans(n)
    BY NodeGood, StateFields
  <2> QED BY <2>1, PlanFields
<1> DEFINE t == [node[n] EXCEPT !.plan = << >>, !.syncLoop = FALSE, !.activeRequests = @ \cup {b}]
<1>3. Step(n, t)
  BY <1>1
<1> HIDE DEF b
<1>4. Leads(n, node[n], t, Incoming(n))
  BY <1>2, NodeGood, FailsFacts
<1> HIDE DEF t
<1> QED BY <1>3, <1>4, StepFacts

\* fetch_items_loop up to its next request, or the end of its pass
LEMMA ItemStep ==
  ASSUME SyncInv, NEW n \in Nodes, ItemLoop(n)
  PROVE  SyncInv'
<1> DEFINE s == node[n]
           R == Incoming(n)
           from == IF s.cursor = 0 THEN 1 ELSE s.cursor
           idle(i) == {p \in Active(s) : ~Busy(s.conn[p]) /\ i \in s.conn[p].advertisedToUs}
           ready == {k \in from..Len(s.toFetch) : idle(s.toFetch[k]) # {}}
           wake == IF s.cursor = 0 THEN FALSE ELSE s.itemWake
           t == [s EXCEPT !.itemWake = wake]
           u == [t EXCEPT !.cursor = 0]
<1>1. Good(n, s, R) /\ s \in State(n)
  BY NodeGood
<1>2. \/ Step(n, u)
      \/ ready # {} /\ \E p \in idle(s.toFetch[Min(ready)]) :
           Step(n, Send([t EXCEPT !.cursor = Min(ready), !.toFetch = RemoveAt(@, Min(ready)),
                                  !.conn[p].itemsRequested = @ \cup {s.toFetch[Min(ready)]}],
                        p, [type |-> "fetch", sync |-> FALSE, item |-> s.toFetch[Min(ready)]]))
  BY DEF ItemLoop
<1>3. wake \in BOOLEAN /\ from \in Nat \ {0} /\ s.toFetch \in Seq(Items)
  <2> HIDE DEF s
  <2>1. s.cursor \in Nat /\ s.itemWake \in BOOLEAN /\ s.toFetch \in Seq(Items)
    BY <1>1 DEF State
  <2>2. from \in Nat \ {0}
    BY <2>1
  <2>3. wake \in BOOLEAN
    BY <2>1, Zenon
  <2> QED BY <2>1, <2>2, <2>3
<1>4. ready \subseteq DOMAIN s.toFetch /\ ready \in SUBSET Nat
  <2> HIDE DEF from, idle
  <2>1. DOMAIN s.toFetch = 1..Len(s.toFetch) /\ Len(s.toFetch) \in Nat
    BY <1>3
  <2> HIDE DEF s
  <2> QED BY <1>3, <2>1
<1> HIDE DEF s, wake, R
<1>5. t \in State(n) /\ Same(s, t) /\ t.conn = s.conn /\ t.out = s.out /\ t.toFetch = s.toFetch
  BY <1>1, <1>3 DEF State, Same
<1>6. u \in State(n) /\ Same(s, u) /\ u.conn = s.conn /\ u.out = s.out
  BY <1>1, <1>3 DEF State, Same
<1> HIDE DEF u
<1>7. Leads(n, s, u, R)
  BY <1>1, <1>6, GoodSame
<1>8. CASE Step(n, u)
  BY <1>7, <1>8, StepFacts DEF s, R
<1> HIDE DEF t
<1>9. Leads(n, s, t, R)
  BY <1>1, <1>5, GoodSame
<1>10. CASE ready # {} /\ \E p \in idle(s.toFetch[Min(ready)]) :
              Step(n, Send([t EXCEPT !.cursor = Min(ready), !.toFetch = RemoveAt(@, Min(ready)),
                                     !.conn[p].itemsRequested = @ \cup {s.toFetch[Min(ready)]}],
                           p, [type |-> "fetch", sync |-> FALSE, item |-> s.toFetch[Min(ready)]]))
  <2> DEFINE k == Min(ready)
  <2>1. k \in DOMAIN s.toFetch
    <3> HIDE DEF ready
    <3> QED BY <1>4, <1>10, MinFacts
  <2>2. PICK p \in idle(s.toFetch[k]) :
              Step(n, Send([t EXCEPT !.cursor = k, !.toFetch = RemoveAt(@, k),
                                     !.conn[p].itemsRequested = @ \cup {s.toFetch[k]}],
                           p, [type |-> "fetch", sync |-> FALSE, item |-> s.toFetch[k]]))
    BY <1>10
  <2>3. p \in Active(s) /\ ~Busy(s.conn[p])
    OBVIOUS
  <2> HIDE DEF k, idle
  <2>4. Step(n, Fetched(t, k, p))
    BY <1>5, <2>2 DEF Fetched
  <2>5. p \in Active(t) /\ ~Busy(t.conn[p]) /\ k \in DOMAIN t.toFetch /\ Good(n, t, R)
    BY <1>5, <1>9, <2>1, <2>3 DEF Active, Leads
  <2>6. Leads(n, t, Fetched(t, k, p), R)
    BY <2>5, FetchedFacts
  <2>7. Leads(n, s, Fetched(t, k, p), R)
    BY <1>9, <2>6, LeadsTwice
  <2> QED BY <2>4, <2>7, StepFacts DEF s, R
<1> QED BY <1>2, <1>8, <1>10

\* advertise_inventory_loop
LEMMA AdvertiseStep ==
  ASSUME SyncInv, NEW n \in Nodes, AdvertiseLoop(n)
  PROVE  SyncInv'
<1>1. Step(n, Advertised(node[n]))
  BY DEF AdvertiseLoop, Advertised, Offered
<1>2. Leads(n, node[n], Advertised(node[n]), Incoming(n))
  BY NodeGood, AdvertisedFacts
<1> QED BY <1>1, <1>2, StepFacts

\* What the client has of its own counts against MaxSent.
LEMMA PublishFacts ==
  ASSUME SyncInv, NEW n \in Nodes, NEW t, Publish(n, t), Leads(n, node[n], t, Incoming(n))
  PROVE  SyncInv'
<1>1. Counters'
  BY BoundAssumption DEF Publish, SyncInv, Counters
<1>2. node' = [node EXCEPT ![n] = t]
  BY DEF Publish
<1> QED BY <1>1, <1>2, LocalStep

\* delegate_loop produces a block that nobody has.
LEMMA ProduceStep ==
  ASSUME SyncInv, NEW n \in Nodes, NEW b \in Blocks, ProduceBlock(n, b)
  PROVE  SyncInv'
<1> DEFINE s == node[n]
           R == Incoming(n)
           t == HandleBlock(s, b)
           u == Broadcast(t, b)
<1>1. Good(n, s, R) /\ s \in State(n) /\ Stock(s)
  BY NodeGood DEF Good, NodeInv
<1>2. b \notin s.recent
  <2>1. b \notin s.stored /\ b # 0
    BY BlockAssumption DEF ProduceBlock, Blocks
  <2> QED BY <1>1, <2>1 DEF Stock
<1>3. Publish(n, u)
  BY DEF ProduceBlock
<1> HIDE DEF s, R
<1>4. Handled(n, s, t, b)
  BY <1>1, <1>2, HandleFacts
<1> HIDE DEF t
<1>5. Leads(n, s, t, R)
  BY <1>1, <1>4, HandledGood
<1>6. Good(n, t, R) /\ b \in t.stored /\ b \in Items
  BY <1>4, <1>5 DEF Leads, Handled, Items
<1>7. Leads(n, t, u, R)
  BY <1>6, BroadcastFacts
<1> HIDE DEF u
<1>8. Leads(n, s, u, R)
  BY <1>5, <1>7, LeadsTwice
<1> QED BY <1>3, <1>8, PublishFacts DEF s, R

\* The client sends a transaction of its own.
LEMMA SendStep ==
  ASSUME SyncInv, NEW n \in Nodes, NEW x \in TrxIds, SendTransaction(n, x)
  PROVE  SyncInv'
<1> DEFINE s == node[n]
           R == Incoming(n)
           t == [s EXCEPT !.pool = @ \cup {x}]
           u == Broadcast(t, x)
<1>1. Good(n, s, R) /\ s \in State(n)
  BY NodeGood
<1>2. x \in Items /\ x \notin Blocks
  BY BoundAssumption, BlockAssumption DEF Items, Blocks
<1>3. Publish(n, u)
  BY DEF SendTransaction
<1> HIDE DEF s, R
<1>4. t \in State(n) /\ Same(s, t) /\ t.conn = s.conn /\ t.out = s.out
  BY <1>1 DEF State, Same
<1> HIDE DEF t
<1>5. Leads(n, s, t, R)
  BY <1>1, <1>4, GoodSame
<1>6. Leads(n, t, u, R)
  BY <1>2, <1>5, BroadcastFacts DEF Leads
<1> HIDE DEF u
<1>7. Leads(n, s, u, R)
  BY <1>5, <1>6, LeadsTwice
<1> QED BY <1>3, <1>7, PublishFacts DEF s, R

\* s is u with another connection to p, or another queue; rep comes from p.
Renewed(n, u, s, p, rep) ==
  /\ s \in State(n) /\ Same(u, s)
  /\ \A q \in Peers(n) : q # p => s.conn[q] = u.conn[q] /\ s.out[q] = u.out[q]
  /\ Lesser(u.conn[p], s.conn[p])
  /\ EndInv(s, p, rep)

\* A renewed connection leaves its node with the invariant.
LEMMA RenewedGood ==
  ASSUME NEW n, NEW u, NEW s, NEW R, NEW p \in Peers(n), NEW rep \in Seq(Messages),
         Good(n, u, R), Renewed(n, u, s, p, rep)
  PROVE  NodeInv(n, s)
<1> DEFINE R2 == [R EXCEPT ![p] = rep]
<1>1. R2 \in [Peers(n) -> Queues] /\ R2[p] = rep /\ \A q \in Peers(n) : q # p => R2[q] = R[q]
  BY DEF Good, Queues
<1> HIDE DEF R2
<1>2. Good(n, s, R2)
  BY <1>1, GoodEnd DEF Renewed, EndInv
<1> QED BY <1>2 DEF Good

\* Both ends of a connection are renewed.
LEMMA RenewStep ==
  ASSUME SyncInv, NEW n \in Nodes, NEW p \in Peers(n), NEW s, NEW t,
         Renewed(n, node[n], s, p, t.out[n]), Renewed(p, node[p], t, n, s.out[p]),
         node' = [node EXCEPT ![n] = s, ![p] = t], Counters'
  PROVE  SyncInv'
<1>1. p \in Nodes /\ n \in Peers(p) /\ p # n /\ DOMAIN node = Nodes
  BY PeerFacts DEF SyncInv
<1>2. s.out[p] \in Seq(Messages) /\ t.out[n] \in Seq(Messages)
  <2>1. s \in State(n) /\ t \in State(p)
    BY DEF Renewed
  <2> QED BY <1>1, <2>1, StateFields
<1>3. NodeInv(n, s)
  BY <1>2, NodeGood, RenewedGood
<1>4. NodeInv(p, t)
  BY <1>1, <1>2, NodeGood, RenewedGood
<1>5. node'[n] = s /\ node'[p] = t /\ \A m \in Nodes : m # n /\ m # p => node'[m] = node[m]
  BY <1>1
<1>6. node' = [m \in Nodes |-> node'[m]]
  BY <1>1
<1>7. ASSUME NEW m \in Nodes PROVE NodeInv(m, node'[m])
  <2>1. CASE m = n
    BY <1>3, <1>5, <2>1
  <2>2. CASE m = p
    BY <1>4, <1>5, <2>2
  <2>3. CASE m # n /\ m # p
    BY <1>5, <2>3 DEF SyncInv
  <2> QED BY <2>1, <2>2, <2>3
<1>8. Linked(s) = Linked(node[n]) /\ Linked(t) = Linked(node[p])
  BY SameLinked DEF Renewed, Same
<1>9. /\ \A q \in Peers(n) : q # p => s.conn[q] = node[n].conn[q] /\ s.out[q] = node[n].out[q]
      /\ \A q \in Peers(p) : q # n => t.conn[q] = node[p].conn[q] /\ t.out[q] = node[p].out[q]
  BY DEF Renewed
<1>10. ASSUME NEW m \in Nodes, NEW q \in Peers(m)
       PROVE  Pair(node'[m].conn[q], Linked(node'[m]), node'[m].out[q], node'[q].out[m])
  <2>1. q \in Nodes /\ q # m /\ m \in Peers(q)
    BY PeerFacts
  <2>2. Pair(node[m].conn[q], Linked(node[m]), node[m].out[q], node[q].out[m])
    BY DEF SyncInv, NetInv
  <2>3. CASE m = n /\ q = p
    BY <1>5, <2>3 DEF Renewed, EndInv
  <2>4. CASE m = p /\ q = n
    BY <1>5, <2>4 DEF Renewed, EndInv
  <2>5. CASE m = n /\ q # p
    BY <1>5, <1>8, <1>9, <2>1, <2>2, <2>5
  <2>6. CASE m = p /\ q # n
    BY <1>5, <1>8, <1>9, <2>1, <2>2, <2>6
  <2>7. CASE m # n /\ m # p /\ q = n
    <3>1. node'[n].out[m] = node[n].out[m] /\ node'[m] = node[m]
      BY <1>5, <1>9, <2>1, <2>7
    <3> QED BY <2>2, <2>7, <3>1
  <2>8. CASE m # n /\ m # p /\ q = p
    <3>1. node'[p].out[m] = node[p].out[m] /\ node'[m] = node[m]
      BY <1>5, <1>9, <2>1, <2>8
    <3> QED BY <2>2, <2>8, <3>1
  <2>9. CASE m # n /\ m # p /\ q # n /\ q # p
    BY <1>5, <2>1, <2>2, <2>9
  <2> QED BY <2>3, <2>4, <2>5, <2>6, <2>7, <2>8, <2>9
<1> QED BY <1>6, <1>7, <1>10 DEF SyncInv, NetInv, Counters

\* s is u with the connection d to p, and the queue q.
Put(n, u, s, p, d, q) ==
  /\ s \in State(n) /\ Same(u, s) /\ s.conn[p] = d /\ s.out[p] = q
  /\ \A r \in Peers(n) : r # p => s.conn[r] = u.conn[r] /\ s.out[r] = u.out[r]

\* Replacing a connection and its queue changes nothing else.
LEMMA PutFacts ==
  ASSUME NEW n, NEW u \in State(n), NEW p \in Peers(n), NEW d \in Conns, NEW q \in Seq(Messages)
  PROVE  Put(n, u, [u EXCEPT !.conn[p] = d, !.out[p] = q], p, d, q)
<1> DEFINE s == [u EXCEPT !.conn[p] = d, !.out[p] = q]
           conn == [u.conn EXCEPT ![p] = d]
           out == [u.out EXCEPT ![p] = q]
<1>1. conn \in [Peers(n) -> Conns] /\ out \in [Peers(n) -> Queues]
  BY DEF State, Queues
<1>2. conn[p] = d /\ out[p] = q /\ \A r \in Peers(n) : r # p => conn[r] = u.conn[r] /\ out[r] = u.out[r]
  BY DEF State
<1>3. s = [u EXCEPT !.conn = conn, !.out = out]
  BY DEF State
<1> HIDE DEF conn, out, s
<1>4. s.conn = conn /\ s.out = out /\ s \in State(n) /\ Same(u, s)
  BY <1>1, <1>3 DEF State, Same
<1>5. Put(n, u, s, p, d, q)
  BY <1>2, <1>4 DEF Put
<1> QED BY <1>5 DEF s

\* The other end is gone.
Gone == <<[type |-> "eof"]>>

\* Nothing is under way on a connection that has broken.
LEMMA GoneFacts ==
  /\ Gone \in Seq(Messages) /\ \A i \in DOMAIN Gone : Gone[i].type = "eof"
  /\ \A c, L : Pair(c, L, Gone, Gone)
<1>1. [type |-> "eof"] \in Messages
  BY DEF Messages
<1>2. Gone \in Seq(Messages) /\ \A i \in DOMAIN Gone : Gone[i].type = "eof"
  BY <1>1 DEF Gone
<1>3. ASSUME NEW c, NEW L PROVE Pair(c, L, Gone, Gone)
  <2>1. Greets(c, Gone)
    BY <1>2 DEF Greets
  <2> QED BY <1>2, <2>1, PairIdle
<1> QED BY <1>2, <1>3

\* The queue to p is lost at n.
Cut(s, p) == [s EXCEPT !.out[p] = Gone]

\* One end of a connection that breaks
LEMMA BreakEnd ==
  ASSUME SyncInv, NEW n \in Nodes, NEW p \in Peers(n)
  PROVE  Renewed(n, node[n], Cut(node[n], p), p, Gone) /\ Cut(node[n], p).out[p] = Gone
<1> DEFINE u == node[n]
           s == Cut(u, p)
           d == u.conn[p]
<1>1. u \in State(n) /\ ConnInv(d, Pending(u, p), Linked(u))
  BY NodeGood DEF SyncInv, NodeInv
<1> HIDE DEF u
<1>2. d \in Conns
  BY <1>1, StateFields
<1>3. s = [u EXCEPT !.conn[p] = d, !.out[p] = Gone]
  BY <1>1 DEF State, Cut
<1> HIDE DEF s, d
<1>4. /\ s \in State(n) /\ Same(u, s) /\ s.conn[p] = d /\ s.out[p] = Gone
      /\ \A r \in Peers(n) : r # p => s.conn[r] = u.conn[r] /\ s.out[r] = u.out[r]
  <2>1. Put(n, u, s, p, d, Gone)
    BY <1>1, <1>2, <1>3, GoneFacts, PutFacts
  <2> QED BY <2>1 DEF Put
<1>5. Pending(s, p) = Pending(u, p) /\ Linked(s) = Linked(u)
  BY <1>4, PendingSame, SameLinked DEF Same, d
<1>6. EndInv(s, p, Gone)
  BY <1>1, <1>4, <1>5, GoneFacts DEF EndInv
<1>7. Lesser(u.conn[p], s.conn[p])
  BY <1>4, LesserSame DEF d
<1> QED BY <1>4, <1>6, <1>7 DEF Renewed, s, u

\* A connection breaks, and what was under way on it is lost at both ends.
LEMMA BreakStep ==
  ASSUME SyncInv, NEW n \in Nodes, NEW p \in Peers(n), Break(n, p)
  PROVE  SyncInv'
<1> DEFINE s == Cut(node[n], p)
           t == Cut(node[p], n)
<1>1. p \in Nodes /\ n \in Peers(p) /\ p # n /\ DOMAIN node = Nodes
  BY PeerFacts DEF SyncInv
<1>2. node' = [node EXCEPT ![n] = s, ![p] = t]
  BY <1>1 DEF Break, Cut, Gone
<1>3. Counters'
  BY BoundAssumption DEF Break, SyncInv, Counters
<1>4. Renewed(n, node[n], s, p, Gone) /\ s.out[p] = Gone
  BY BreakEnd
<1>5. Renewed(p, node[p], t, n, Gone) /\ t.out[n] = Gone
  BY <1>1, BreakEnd
<1> HIDE DEF s, t
<1> QED BY <1>2, <1>3, <1>4, <1>5, RenewStep

\* A new connection, and what each end of it finds in the queues.
Greeting == <<[type |-> "address"]>>

Opens(d, q, rep) == \A L : Pair(d, L, q, rep)

Fresh(d) ==
  /\ d \in Conns /\ d.status = "handshaking" /\ d.syncRequested = {} /\ d.itemsRequested = {}
  /\ \A L : ConnInv(d, {}, L)
  /\ Opens(d, << >>, Greeting) /\ Opens(d, Greeting, << >>)

\* A new connection has its part of the invariant, and asks for nothing.
LEMMA NewFacts ==
  ASSUME NEW b \in BOOLEAN
  PROVE  Fresh(NewConnection(b))
<1> DEFINE d == NewConnection(b)
<1>1. {} \in SUBSET Blocks /\ {} \in SUBSET Items /\ << >> \in Seq(Blocks) /\ 0 \in 0..NBlocks /\ 0 \in Nat
  BY BlockAssumption
<1>2. d \in Conns
  BY <1>1 DEF NewConnection, Conns
<1>3. /\ d.status = "handshaking" /\ d.syncRequested = {} /\ d.itemsRequested = {} /\ d.ids = << >>
      /\ d.unfetched = 0 /\ d.weNeed = TRUE /\ d.idsRequested = FALSE
  BY DEF NewConnection
<1> HIDE DEF d
<1>4. ASSUME NEW L PROVE ConnInv(d, {}, L)
  BY <1>3 DEF ConnInv, ListOn, Segment
<1>5. [type |-> "address"] \in Messages
  BY DEF Messages
<1>6. /\ Greeting \in Seq(Messages) /\ << >> \in Seq(Messages) /\ DOMAIN Greeting = 1..1
      /\ \A i \in DOMAIN Greeting : Greeting[i].type = "address"
  BY <1>5 DEF Greeting
<1>7. \A i \in DOMAIN << >> : FALSE
  BY EmptyFunction
<1>8. Greets(d, Greeting) /\ Greets(d, << >>)
  <2>1. \A i \in DOMAIN Greeting : i = 1
    BY <1>6
  <2> QED BY <1>3, <1>7, <2>1 DEF Greets
<1> DEFINE none == << >>
<1>9. none \in Seq(Messages) /\ (\A i \in DOMAIN none : none[i].type \in {"address", "eof"}) /\ Greets(d, none)
  BY <1>6, <1>7, <1>8
<1>10. \A i \in DOMAIN Greeting : Greeting[i].type \in {"address", "eof"}
  BY <1>6
<1> HIDE DEF none
<1>11. ASSUME NEW L PROVE Pair(d, L, none, Greeting) /\ Pair(d, L, Greeting, none)
  BY <1>6, <1>8, <1>9, <1>10, PairIdle
<1> QED BY <1>2, <1>3, <1>4, <1>11 DEF d, none, Opens, Fresh

\* The connection to p is opened at n, with q in its queue.
Opened(s, p, b, q) == [s EXCEPT !.conn[p] = NewConnection(b), !.out[p] = q]

\* One end of a new connection, to a peer that no request is planned for
LEMMA OpenEnd ==
  ASSUME SyncInv, NEW n \in Nodes, NEW p \in Peers(n), p \notin DOMAIN node[n].plan,
         NEW b \in BOOLEAN, NEW q \in Seq(Messages), NEW rep,
         Opens(NewConnection(b), q, rep)
  PROVE  Renewed(n, node[n], Opened(node[n], p, b, q), p, rep) /\ Opened(node[n], p, b, q).out[p] = q
<1> DEFINE u == node[n]
           d == NewConnection(b)
           s == Opened(u, p, b, q)
<1>1. u \in State(n)
  BY NodeGood
<1>2. /\ d \in Conns /\ d.status = "handshaking" /\ d.syncRequested = {} /\ d.itemsRequested = {}
      /\ \A L : ConnInv(d, {}, L)
  BY NewFacts DEF Fresh
<1>3. s = [u EXCEPT !.conn[p] = d, !.out[p] = q]
  BY DEF Opened
<1>4. p \notin DOMAIN u.plan /\ Opens(d, q, rep)
  OBVIOUS
<1> HIDE DEF u, d, s
<1>5. /\ s \in State(n) /\ Same(u, s) /\ s.conn[p] = d /\ s.out[p] = q
      /\ \A r \in Peers(n) : r # p => s.conn[r] = u.conn[r] /\ s.out[r] = u.out[r]
  <2>1. Put(n, u, s, p, d, q)
    BY <1>1, <1>2, <1>3, PutFacts
  <2> QED BY <2>1 DEF Put
<1>6. Pending(s, p) = {}
  BY <1>2, <1>4, <1>5 DEF Pending, Same
<1>7. EndInv(s, p, rep)
  BY <1>2, <1>4, <1>5, <1>6 DEF EndInv, Opens
<1>8. Lesser(u.conn[p], s.conn[p])
  BY <1>2, <1>5 DEF Lesser
<1> QED BY <1>5, <1>7, <1>8 DEF Renewed, s, u

\* p2p_network_connect_loop connects again.
LEMMA ReconnectStep ==
  ASSUME SyncInv, NEW n \in Nodes, NEW p \in Peers(n), Reconnect(n, p)
  PROVE  SyncInv'
<1> DEFINE none == << >>
           s == Opened(node[n], p, FALSE, none)
           t == Opened(node[p], n, TRUE, Greeting)
<1>1. p \in Nodes /\ n \in Peers(p) /\ p # n /\ DOMAIN node = Nodes
  BY PeerFacts DEF SyncInv
<1>2. node' = [node EXCEPT ![n] = s, ![p] = t]
  BY <1>1 DEF Reconnect, Opened, Greeting
<1>3. Counters'
  BY DEF Reconnect, SyncInv, Counters
<1>4. none \in Seq(Messages) /\ Greeting \in Seq(Messages)
  BY DEF Greeting, Messages
<1>5. Fresh(NewConnection(FALSE)) /\ Fresh(NewConnection(TRUE))
  BY NewFacts
<1>6. Opens(NewConnection(FALSE), none, Greeting) /\ Opens(NewConnection(TRUE), Greeting, none)
  BY <1>5, Zenon DEF Fresh
<1>7. p \notin DOMAIN node[n].plan /\ n \notin DOMAIN node[p].plan
  BY DEF Reconnect
<1> HIDE DEF none
<1>8. Renewed(n, node[n], s, p, Greeting) /\ s.out[p] = none
  BY <1>4, <1>6, <1>7, OpenEnd
<1>9. Renewed(p, node[p], t, n, none) /\ t.out[n] = Greeting
  <2> DEFINE in == TRUE
             v == Opened(node[p], n, in, Greeting)
  <2>1. in \in BOOLEAN /\ Opens(NewConnection(in), Greeting, none)
    BY <1>6
  <2> HIDE DEF in
  <2>2. Renewed(p, node[p], v, n, none) /\ v.out[n] = Greeting
    BY <1>1, <1>4, <1>7, <2>1, OpenEnd
  <2> QED BY <2>2 DEF in
<1> HIDE DEF s, t
<1> QED BY <1>2, <1>3, <1>8, <1>9, RenewStep

\* A connection that the peer has not opened is not inbound.
LEMMA NotInbound ==
  ASSUME NEW n, NEW p, <<p, n>> \notin Outbound
  PROVE  NewConnection(<<p, n>> \in Outbound) = NewConnection(FALSE)
<1>1. (<<p, n>> \in Outbound) = FALSE
  OBVIOUS
<1> QED BY <1>1

\* A node that starts with any of the chains has its part of the invariant.
LEMMA NewNodeFacts ==
  ASSUME NEW n \in Nodes
  PROVE  NodeInv(n, NewNode(n))
<1> DEFINE s == NewNode(n)
           h == InitHead[n]
           S == Range(Chain[h])
           in(p) == <<p, n>> \in Outbound
           conn == [p \in Peers(n) |-> NewConnection(<<p, n>> \in Outbound)]
           out == [p \in Peers(n) |-> IF <<p, n>> \in Outbound THEN <<[type |-> "address"]>> ELSE << >>]
<1>1. h \in 0..NBlocks
  BY BlockAssumption
<1>2. Chain[h] \in Seq(Blocks) /\ S \subseteq Blocks
  <2>1. Chain[h] \in Seq(Blocks)
    BY <1>1, ChainFacts
  <2> HIDE DEF h
  <2> QED BY <2>1, SeqFacts DEF Range
<1>3. ASSUME NEW p \in Peers(n) PROVE Fresh(conn[p]) /\ out[p] \in Queues
  <2>1. CASE <<p, n>> \in Outbound
    <3>1. conn[p] = NewConnection(TRUE) /\ out[p] = Greeting
      BY <2>1, Zenon DEF Greeting
    <3>2. Greeting \in Queues
      BY DEF Greeting, Queues, Messages
    <3>3. Fresh(NewConnection(TRUE))
      BY NewFacts
    <3> QED BY <3>1, <3>2, <3>3, Zenon
  <2>2. CASE <<p, n>> \notin Outbound
    <3>1. conn[p] = NewConnection(FALSE) /\ out[p] = << >>
      BY <2>2, NotInbound
    <3>2. << >> \in Queues
      BY DEF Queues
    <3>3. Fresh(NewConnection(FALSE))
      BY NewFacts
    <3> QED BY <3>1, <3>2, <3>3, Zenon
  <2> QED BY <2>1, <2>2
<1>4. /\ s.head = h /\ s.stored = S /\ s.known = S /\ s.pool = {} /\ s.conn = conn /\ s.out = out
      /\ s.activeRequests = {} /\ s.received = << >> /\ s.toFetch = << >> /\ s.newInventory = {}
      /\ s.recent = {h} /\ s.cache = << >> /\ s.clock = 0 /\ s.total = 0 /\ s.syncWake = FALSE
      /\ s.plan = << >> /\ s.syncLoop = TRUE /\ s.itemWake = FALSE /\ s.cursor = 0 /\ s.blamed = {}
  BY DEF NewNode
<1>5. conn \in [Peers(n) -> Conns] /\ out \in [Peers(n) -> Queues]
  <2>1. \A p \in Peers(n) : conn[p] \in Conns
    BY <1>3 DEF Fresh
  <2>2. DOMAIN conn = Peers(n) /\ conn = [p \in Peers(n) |-> conn[p]]
        /\ DOMAIN out = Peers(n) /\ out = [p \in Peers(n) |-> out[p]]
    OBVIOUS
  <2> HIDE DEF conn, out
  <2> QED BY <1>3, <2>1, <2>2
<1>6. s \in State(n)
  <2>1. << >> \in Caches /\ << >> \in Plans(n)
    BY EmptyFunction, EmptyPlan DEF Caches
  <2>2. 0 \in 0..UintMax /\ 0 \in Nat /\ << >> \in Seq(Blocks) /\ << >> \in Seq(Items)
    BY BoundAssumption
  <2> HIDE DEF conn, out, h, S
  <2>3. s = [head |-> h, stored |-> S, known |-> S, pool |-> {}, conn |-> conn, out |-> out,
             activeRequests |-> {}, received |-> << >>, toFetch |-> << >>, newInventory |-> {},
             recent |-> {h}, cache |-> << >>, clock |-> 0, total |-> 0, syncWake |-> FALSE,
             plan |-> << >>, syncLoop |-> TRUE, itemWake |-> FALSE, cursor |-> 0, blamed |-> {}]
    BY DEF NewNode, conn, out, h, S
  <2> HIDE DEF s
  <2> QED BY <1>1, <1>2, <1>5, <2>1, <2>2, <2>3 DEF State
<1>7. Stock(s)
  <2>1. CASE h = 0
    <3> HIDE DEF h, S, s
    <3> QED BY <1>4, <2>1 DEF Stock
  <2>2. CASE h # 0
    <3>1. h \in Blocks
      BY <1>1, <2>2 DEF Blocks
    <3>2. h \in S
      BY <3>1, ChainRange
    <3> HIDE DEF h, s
    <3>3. h \in Linked(s)
      BY <1>4, <3>2 DEF Linked
    <3> HIDE DEF S
    <3> QED BY <1>4, <3>2, <3>3 DEF Stock
  <2> QED BY <2>1, <2>2
<1> HIDE DEF conn, out, h, S, s
<1>8. DOMAIN s.conn = Peers(n) /\ \A p \in Peers(n) : Fresh(s.conn[p])
  BY <1>3, <1>4, <1>5
<1>9. DOMAIN s.plan = {} /\ Range(s.received) = {} /\ DOMAIN s.toFetch = {} /\ Range(s.toFetch) = {}
  BY <1>4, EmptyFunction DEF Range
<1>10. ASSUME NEW p \in Peers(n) PROVE ConnInv(s.conn[p], Pending(s, p), Linked(s))
  <2>1. Pending(s, p) = {}
    BY <1>8, <1>9 DEF Pending, Fresh
  <2> QED BY <1>8, <2>1 DEF Fresh
<1>11. Requests(s)
  BY <1>8, <1>9 DEF Requests, Fresh
<1>12. Offers(s)
  BY <1>8, <1>9 DEF Offers, Active, Fresh
<1>13. s.blamed = {}
  BY <1>4
<1>14. NodeInv(n, s)
  BY <1>6, <1>7, <1>10, <1>11, <1>12, <1>13 DEF NodeInv
<1> QED BY <1>14 DEF s

\* Both ends of a connection at the start: who is connected to says so.
LEMMA NewPair ==
  ASSUME NEW n \in Nodes, NEW p \in Peers(n), NEW L
  PROVE  Pair(NewNode(n).conn[p], L, NewNode(n).out[p], NewNode(p).out[n])
<1>1. p \in Nodes /\ n \in Peers(p)
  BY PeerFacts
<1>2. <<n, p>> \in Outbound <=> <<p, n>> \notin Outbound
  <2>1. \A a, b : <<a, b>> \in Outbound => <<b, a>> \notin Outbound
    BY LinkAssumption
  <2>2. <<n, p>> \in Links
    BY DEF Peers
  <2>3. CASE <<n, p>> \notin Outbound
    <3>1. PICK l \in Outbound : <<n, p>> = <<l[2], l[1]>>
      BY <2>2, <2>3 DEF Links
    <3>2. l = <<l[1], l[2]>>
      BY LinkAssumption
    <3> QED BY <2>3, <3>1, <3>2
  <2> QED BY <2>1, <2>3
<1>3. Fresh(NewConnection(TRUE)) /\ Fresh(NewConnection(FALSE))
  BY NewFacts
<1>4. CASE <<p, n>> \in Outbound
  <2>1. NewNode(n).conn[p] = NewConnection(TRUE) /\ NewNode(n).out[p] = Greeting /\ NewNode(p).out[n] = << >>
    <3>1. NewNode(n).conn[p] = NewConnection(<<p, n>> \in Outbound)
      BY DEF NewNode
    <3>2. NewNode(n).conn[p] = NewConnection(TRUE)
      BY <1>4, <3>1, Zenon
    <3>3. NewNode(n).out[p] = Greeting /\ NewNode(p).out[n] = << >>
      BY <1>1, <1>2, <1>4 DEF NewNode, Greeting
    <3> QED BY <3>2, <3>3
  <2> QED BY <1>3, <2>1, Zenon DEF Fresh, Opens
<1>5. CASE <<p, n>> \notin Outbound
  <2>1. NewNode(n).conn[p] = NewConnection(FALSE) /\ NewNode(n).out[p] = << >> /\ NewNode(p).out[n] = Greeting
    <3>1. NewNode(n).conn[p] = NewConnection(<<p, n>> \in Outbound)
      BY DEF NewNode
    <3>2. NewNode(n).conn[p] = NewConnection(FALSE)
      BY <1>5, <3>1, NotInbound
    <3>3. NewNode(n).out[p] = << >> /\ NewNode(p).out[n] = Greeting
      BY <1>1, <1>2, <1>5 DEF NewNode, Greeting
    <3> QED BY <3>2, <3>3
  <2> QED BY <1>3, <2>1, Zenon DEF Fresh, Opens
<1> QED BY <1>4, <1>5

\* The invariant holds at the start.
LEMMA SyncInit == Init => SyncInv
<1> SUFFICES ASSUME Init PROVE SyncInv
  OBVIOUS
<1>1. \A n \in Nodes : node[n] = NewNode(n)
  BY DEF Init
<1>2. node = [n \in Nodes |-> node[n]]
  BY DEF Init
<1>3. breaks \in 0..MaxBreaks /\ sent \in 0..MaxSent
  BY BoundAssumption DEF Init
<1>4. \A n \in Nodes : NodeInv(n, node[n])
  BY <1>1, NewNodeFacts
<1>5. ASSUME NEW n \in Nodes, NEW p \in Peers(n) PROVE NetInv(n, p)
  <2>1. p \in Nodes
    BY PeerFacts
  <2> QED BY <1>1, <2>1, NewPair DEF NetInv
<1> QED BY <1>2, <1>3, <1>4, <1>5 DEF SyncInv

\* The two ends of an outbound connection know of each other.
LEMMA OutboundFacts ==
  ASSUME NEW l \in Outbound
  PROVE  l[1] \in Nodes /\ l[2] \in Peers(l[1])
<1>1. l = <<l[1], l[2]>> /\ l[1] \in Nodes /\ l[2] \in Nodes
  BY LinkAssumption
<1>2. <<l[1], l[2]>> \in Links
  BY <1>1 DEF Links
<1> QED BY <1>1, <1>2 DEF Peers

\* Every step of the network keeps the invariant.
LEMMA SyncStep == SyncInv /\ [Next]_vars => SyncInv'
<1> SUFFICES ASSUME SyncInv, [Next]_vars PROVE SyncInv'
  OBVIOUS
<1>1. CASE \E n \in Nodes : NodeStep(n)
  <2>1. PICK n \in Nodes : NodeStep(n)
    BY <1>1
  <2>2. CASE \E p \in Peers(n) : Receive(n, p)
    BY <2>2, ReceiveStep
  <2>3. CASE SyncLoopPass(n)
    BY <2>3, PassStep
  <2>4. CASE SyncLoopRequest(n)
    BY <2>4, RequestStep
  <2>5. CASE SyncLoopFails(n)
    BY <2>5, FailsStep
  <2>6. CASE ItemLoop(n)
    BY <2>6, ItemStep
  <2>7. CASE AdvertiseLoop(n)
    BY <2>7, AdvertiseStep
  <2> QED BY <2>1, <2>2, <2>3, <2>4, <2>5, <2>6, <2>7 DEF NodeStep
<1>2. CASE \E m \in Mints : ProduceBlock(m[1], m[2])
  <2>1. PICK m \in Mints : ProduceBlock(m[1], m[2])
    BY <1>2
  <2>2. m[1] \in Nodes /\ m[2] \in Blocks
    BY BlockAssumption
  <2> QED BY <2>1, <2>2, ProduceStep
<1>3. CASE \E t \in Trxs : SendTransaction(t[1], t[2])
  <2>1. PICK t \in Trxs : SendTransaction(t[1], t[2])
    BY <1>3
  <2>2. t[1] \in Nodes /\ t[2] \in TrxIds
    BY BoundAssumption
  <2> QED BY <2>1, <2>2, SendStep
<1>4. CASE \E l \in Outbound : Break(l[1], l[2]) \/ Reconnect(l[1], l[2])
  <2>1. PICK l \in Outbound : Break(l[1], l[2]) \/ Reconnect(l[1], l[2])
    BY <1>4
  <2>2. l[1] \in Nodes /\ l[2] \in Peers(l[1])
    BY OutboundFacts
  <2>3. CASE Break(l[1], l[2])
    BY <2>2, <2>3, BreakStep
  <2>4. CASE Reconnect(l[1], l[2])
    BY <2>2, <2>4, ReconnectStep
  <2> QED BY <2>1, <2>3, <2>4
<1>5. CASE UNCHANGED vars
  BY <1>5 DEF vars, SyncInv, NetInv
<1> QED BY <1>1, <1>2, <1>3, <1>4, <1>5 DEF Next

-----------------------------------------------------------------------------
(* What the invariant says of the properties.                              *)

\* A link is a node and one of its peers.
LEMMA LinkFacts ==
  ASSUME NEW l \in Links
  PROVE  l = <<l[1], l[2]>> /\ l[1] \in Nodes /\ l[2] \in Peers(l[1])
<1>1. l = <<l[1], l[2]>> /\ l[1] \in Nodes /\ l[2] \in Nodes
  <2>1. CASE l \in Outbound
    BY <2>1, LinkAssumption
  <2>2. CASE l \notin Outbound
    <3>1. PICK k \in Outbound : l = <<k[2], k[1]>>
      BY <2>2 DEF Links
    <3>2. k[1] \in Nodes /\ k[2] \in Nodes
      BY LinkAssumption
    <3> QED BY <3>1, <3>2
  <2> QED BY <2>1, <2>2
<1>2. <<l[1], l[2]>> \in Links
  BY <1>1
<1> QED BY <1>1, <1>2 DEF Peers

\* The invariant of the connection that a link stands for.
LEMMA LinkInv ==
  ASSUME SyncInv, NEW l \in Links
  PROVE  /\ node[l[1]] \in State(l[1]) /\ Conn(l) \in Conns
         /\ ConnInv(Conn(l), Pending(node[l[1]], l[2]), Linked(node[l[1]]))
<1> DEFINE n == l[1]
           p == l[2]
<1>1. n \in Nodes /\ p \in Peers(n)
  BY LinkFacts
<1> HIDE DEF n, p
<1>2. node[n] \in State(n) /\ ConnInv(node[n].conn[p], Pending(node[n], p), Linked(node[n]))
  BY <1>1 DEF SyncInv, NodeInv
<1>3. node[n].conn[p] \in Conns
  BY <1>1, <1>2, StateFields
<1> QED BY <1>2, <1>3 DEF Conn, n, p

\* The invariant has the types.
LEMMA SyncTyped == SyncInv => TypeOK
<1> SUFFICES ASSUME SyncInv PROVE TypeOK
  OBVIOUS
<1>1. ASSUME NEW n \in Nodes
      PROVE  LET s == node[n] IN
             /\ s.head \in Linked(s) \cup {0} /\ s.known \subseteq s.stored
             /\ s.total \in 0..UintMax /\ s.clock \in Nat
             /\ s.toFetch \in Seq(Items) /\ s.received \in Seq(Blocks)
             /\ \A p \in Peers(n) :
                  /\ s.conn[p].status \in {"handshaking", "active", "closed"}
                  /\ s.conn[p].ids \in Seq(Blocks) /\ s.conn[p].unfetched \in 0..NBlocks
                  /\ \A i \in DOMAIN s.out[p] : s.out[p][i] \in Messages
  <2> DEFINE s == node[n]
  <2>1. s \in State(n) /\ Stock(s)
    BY DEF SyncInv, NodeInv
  <2> HIDE DEF s
  <2>2. s.total \in 0..UintMax /\ s.clock \in Nat /\ s.toFetch \in Seq(Items) /\ s.received \in Seq(Blocks)
    BY <2>1 DEF State
  <2>3. ASSUME NEW p \in Peers(n)
        PROVE  /\ s.conn[p].status \in {"handshaking", "active", "closed"}
               /\ s.conn[p].ids \in Seq(Blocks) /\ s.conn[p].unfetched \in 0..NBlocks
               /\ \A i \in DOMAIN s.out[p] : s.out[p][i] \in Messages
    <3>1. s.conn[p] \in Conns /\ s.out[p] \in Seq(Messages)
      BY <2>1, StateFields
    <3> QED BY <3>1 DEF Conns
  <2> QED BY <2>1, <2>2, <2>3 DEF Stock, s
<1> QED BY <1>1 DEF SyncInv, TypeOK

\* What is asked of a peer is in its list, which is empty without we_need_sync_items_from_peer.
LEMMA SyncNothingToGet == SyncInv => InSyncHasNothingToGet
<1> SUFFICES ASSUME SyncInv, NEW l \in Links, ~Conn(l).weNeed
             PROVE  Conn(l).ids = << >> /\ Conn(l).unfetched = 0 /\ Conn(l).syncRequested = {}
  BY DEF InSyncHasNothingToGet
<1>1. ConnInv(Conn(l), Pending(node[l[1]], l[2]), Linked(node[l[1]]))
  BY LinkInv
<1>2. Conn(l).ids = << >> /\ Conn(l).unfetched = 0
  BY <1>1 DEF ConnInv
<1>3. Conn(l).syncRequested \subseteq Range(Conn(l).ids)
  BY <1>1 DEF ConnInv, Pending, Conn
<1>4. Range(Conn(l).ids) = {}
  BY <1>2, EmptyFunction DEF Range
<1> QED BY <1>2, <1>3, <1>4

\* The list of every connection is a piece of a chain, active or not.
LEMMA SyncFollowsOn == SyncInv => ListsFollowOn
<1> SUFFICES ASSUME SyncInv, NEW l \in Links, Conn(l).ids # << >>
             PROVE  /\ \A i \in 1..(Len(Conn(l).ids) - 1) : Prev[Conn(l).ids[i + 1]] = Conn(l).ids[i]
                    /\ Prev[Conn(l).ids[1]] \in Linked(node[l[1]]) \cup {0}
  BY DEF ListsFollowOn
<1>1. ConnInv(Conn(l), Pending(node[l[1]], l[2]), Linked(node[l[1]]))
  BY LinkInv
<1> QED BY <1>1 DEF ConnInv, ListOn, Segment

\* Between active connections by Requests and Offers; one that is handshaking has
\* asked for no item.
LEMMA SyncOneRequest == SyncInv => OneRequest
<1> SUFFICES ASSUME SyncInv, NEW l \in Links, NEW k \in Links, l[1] = k[1], l # k
             PROVE  /\ Conn(l).syncRequested \cap Conn(k).syncRequested = {}
                    /\ Conn(l).status # "closed" /\ Conn(k).status # "closed" =>
                         Conn(l).itemsRequested \cap Conn(k).itemsRequested = {}
  BY DEF OneRequest
<1> DEFINE n == l[1]
           p == l[2]
           q == k[2]
           s == node[n]
           c == s.conn[p]
           d == s.conn[q]
<1>1. n \in Nodes /\ p \in Peers(n) /\ q \in Peers(n) /\ p # q
  BY LinkFacts
<1>2. Conn(l) = c /\ Conn(k) = d
  BY DEF Conn
<1>3. c \in Conns /\ d \in Conns /\ ConnInv(c, Pending(s, p), Linked(s)) /\ ConnInv(d, Pending(s, q), Linked(s))
  BY <1>2, LinkInv
<1>4. Requests(s) /\ Offers(s) /\ s \in State(n)
  BY <1>1 DEF SyncInv, NodeInv
<1>5. DOMAIN s.conn = Peers(n)
  BY <1>4, StateFields
<1> HIDE DEF n, p, q, s
<1>6. c.syncRequested \cap d.syncRequested = {}
  BY <1>1, <1>4, <1>5 DEF Requests
<1>7. ASSUME c.status # "closed", d.status # "closed"
      PROVE  c.itemsRequested \cap d.itemsRequested = {}
  <2>1. CASE c.status = "active" /\ d.status = "active"
    BY <1>1, <1>4, <1>5, <2>1 DEF Offers, Active
  <2>2. CASE c.status = "handshaking" \/ d.status = "handshaking"
    BY <1>3, <2>2 DEF ConnInv
  <2> QED BY <1>3, <1>7, <2>1, <2>2 DEF Conns
<1> QED BY <1>2, <1>6, <1>7

-----------------------------------------------------------------------------
(* The theorems.                                                           *)

\* In every network of nodes that run node.cpp the inductive invariant holds: the
\* request flags of both loops, the lists of ids, and the messages on every
\* connection agree at both of its ends, through breaks and new connections.
THEOREM SyncInvariant == Spec => []SyncInv
<1> QED BY SyncInit, SyncStep, PTL DEF Spec

\* Types and ranges: _total_number_of_unfetched_items stays a uint32_t although
\* process_backlog_of_sync_blocks may count it below zero, the client's head is
\* always linked to a first block, and number_of_unfetched_item_ids is never more
\* than the blocks there are.
THEOREM SyncTypes == Spec => []TypeOK
<1> QED BY SyncInvariant, SyncTyped, PTL

\* disconnect_from_peer is never called between nodes that run this code: neither
\* by process_block_message for a block that was not asked for, nor by
\* process_backlog_of_sync_blocks for one that the client cannot link.
THEOREM NobodyBlamed == Spec => []NoPeerBlamed
<1>1. SyncInv => NoPeerBlamed
  BY DEF SyncInv, NodeInv, NoPeerBlamed
<1> QED BY SyncInvariant, <1>1, PTL

\* The ids_of_items_to_get of a peer are one piece of a chain that begins at a
\* block the client has, whatever was joined to them by
\* on_blockchain_item_ids_inventory_message and whatever was taken off by
\* process_backlog_of_sync_blocks.
THEOREM ListsStayChains == Spec => []ListsFollowOn
<1> QED BY SyncInvariant, SyncFollowsOn, PTL

\* A peer with we_need_sync_items_from_peer off has no ids, none to come, and no
\* block asked of it: fetch_sync_items_loop has nothing to come back for.
THEOREM InSyncIsDone == Spec => []InSyncHasNothingToGet
<1> QED BY SyncInvariant, SyncNothingToGet, PTL

\* fetch_sync_items_loop never has a block asked of two peers, although its
\* requests go out one by one and anything may come in between; nor has
\* fetch_items_loop an item asked of two peers that are still there.
THEOREM AskedOnce == Spec => []OneRequest
<1> QED BY SyncInvariant, SyncOneRequest, PTL

=============================================================================
