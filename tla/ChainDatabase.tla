--------------------------- MODULE ChainDatabase ---------------------------
(***************************************************************************)
(* The block tree of the toolkit's chain database: how a block that the    *)
(* network hands over is stored, linked, applied or undone, and how the    *)
(* database moves from one fork to another                                 *)
(* (bitshares_toolkit/libraries/blockchain/chain_database.cpp).            *)
(*                                                                         *)
(* The chain is taken as established: Base is an applied block, Root the   *)
(* head on top of it.  One call of push_block runs at a time; its steps    *)
(* are the iterations of its loops, each with everything it writes.  The   *)
(* process may die between any two of them and open the database again.    *)
(***************************************************************************)
EXTENDS Integers, Sequences, SequencesExt, FiniteSets

CONSTANTS
  Blocks,     \* the ids of the blocks the network may deliver
  Base,       \* an applied block below all of them
  Root,       \* the head when the model begins, a block on top of Base
  Prev,       \* Prev[b]: signed_block_header::previous
  Num,        \* Num[b]: the block_num that the header of b claims
  Sound,      \* blocks that pass the checks of verify_header on the block alone
  Early,      \* blocks whose timestamp is still ahead of the local clock
  NTrx,       \* number of transactions
  UserTrx,    \* UserTrx[b]: full_block::user_transactions
  Coins,      \* balance records
  Takes,      \* Takes[t][c]: the amount transaction t withdraws from balance c
  Gives,      \* Gives[t][c]: the amount it deposits to balance c
  Funded      \* Funded[c]: the amount in balance c at Base

Ids == Blocks \cup {Base}
Trxs == 1..NTrx
TrxOf(b) == {UserTrx[b][i] : i \in DOMAIN UserTrx[b]}

ASSUME TreeAssumption ==
  /\ Base \notin Blocks
  /\ Root \in Blocks
  /\ Prev \in [Blocks -> Ids]
  /\ \A b \in Blocks : Prev[b] # b
  /\ Num \in [Ids -> Nat]

\* An id is a hash over the previous id: no block is its own ancestor.
ASSUME AcyclicAssumption ==
  \A S \in SUBSET Blocks : S # {} => \E b \in S : Prev[b] \notin S

ASSUME RootAssumption ==
  /\ Prev[Root] = Base
  /\ Num[Root] = Num[Base] + 1
  /\ Root \in Sound
  /\ Root \notin Early
  /\ UserTrx[Root] = << >>

ASSUME TrxAssumption ==
  /\ NTrx \in Nat
  /\ UserTrx \in [Blocks -> Seq(Trxs)]
  /\ Takes \in [Trxs -> [Coins -> Nat]]
  /\ Gives \in [Trxs -> [Coins -> Nat]]
  /\ Funded \in [Coins -> Nat]
  /\ Sound \subseteq Blocks
  /\ Early \subseteq Blocks

\* A transaction pays its fee out of what it withdraws, and to withdraw takes a
\* signature that is checked against the chain id.
ASSUME FeeAssumption ==
  \A t \in Trxs : \E c \in Coins : Takes[t][c] > 0

VARIABLES
  \* the databases
  fork,       \* _fork_db: [stored, next, linked, valid, included, known]
  record,     \* keys of _block_id_to_block_record_db (and of _fork_number_db)
  numToId,    \* _block_num_to_id_db, as the set of its <<number, id>> pairs
  undo,       \* _undo_state_db
  trxRec,     \* _id_to_transaction_record_db: "none", "known" or "empty"
  coins,      \* _balance_db: the amount in every balance, 0 without a record
  paid,       \* pay of the delegates and share supply, in blocks since Base
  pending,    \* keys of _pending_transaction_db
  \* memory
  head,       \* _head_block_id and _head_block_header
  overlay,    \* _pending_trx_state: the balances it holds, with their amounts
  indexed,    \* the transactions in _pending_fee_index
  fresh,      \* history: the pending state was built on the present head
  \* the call of push_block under way
  pc,         \* "idle", "history", "pop" or "extend"
  mode,       \* "push", "switch", or "revert" in the handler of its exception
  history,    \* get_fork_history's result; while extending, what is left of it
  oldHead,    \* current_head_id
  \* the clock
  early       \* blocks whose timestamp is ahead of now()

db == <<fork, record, numToId, undo, trxRec, coins, paid, pending>>
memory == <<head, overlay, indexed, fresh>>
call == <<pc, mode, history, oldHead>>
vars == <<db, memory, call, early>>

(***************************************************************************)
(* Values.                                                                 *)
(***************************************************************************)
TrxRecs == {"none", "known", "empty"}
Validity == {"unset", "yes", "no"}

ForkData == [stored: BOOLEAN, next: SUBSET Blocks, linked: BOOLEAN,
             valid: Validity, included: BOOLEAN, known: BOOLEAN]

\* A default block_fork_data, which also stands for a key that is not there.
NoForkData == [stored |-> FALSE, next |-> {}, linked |-> FALSE,
               valid |-> "unset", included |-> FALSE, known |-> FALSE]

NoChanges == [c \in {} |-> 0]

\* Amounts for some of the balances, as a pending_chain_state holds them.
IsValues(v) == DOMAIN v \subseteq Coins /\ v \in [DOMAIN v -> Nat]

CanLink(data) == data.linked /\ data.valid # "no"

Included == {b \in Ids : fork[b].included}

\* Every block reached from S along next_blocks, S included: what the loops of
\* recursive_mark_as_linked and recursive_mark_as_invalid visit.
Reach(f, S) ==
  {b \in Blocks :
     \A D \in SUBSET Blocks :
       (S \subseteq D /\ \A d \in D : f[d].next \subseteq D) => b \in D}

(***************************************************************************)
(* Transactions.  A transaction moves amounts between balances; it fails   *)
(* if a balance does not cover what it withdraws from it or if there is    *)
(* already a record under its id.                                          *)
(***************************************************************************)

\* The balances seen through a pending_chain_state: those it holds, and those of
\* the state below it for the others.
Over(values, C) == [c \in Coins |-> IF c \in DOMAIN values THEN values[c] ELSE C[c]]

Touched(t) == {c \in Coins : Takes[t][c] > 0 \/ Gives[t][c] > 0}

Covers(t, C) == \A c \in Coins : Takes[t][c] <= C[c]

After(t, C) == [c \in Coins |-> C[c] - Takes[t][c] + Gives[t][c]]

\* The values so far and those that t stores on top of them.
Then(values, t, C) ==
  [c \in DOMAIN values \cup Touched(t) |-> After(t, Over(values, C))[c]]

\* The balances after the first i of the transactions ts, for every i.
Evaluated(ts, C) ==
  LET f[i \in 0..Len(ts)] == IF i = 0 THEN C ELSE After(ts[i], f[i - 1])
  IN  f

Spendable(ts, C) == \A i \in DOMAIN ts : Covers(ts[i], Evaluated(ts, C)[i - 1])

NoDuplicates(ts) == \A i, j \in DOMAIN ts : ts[i] = ts[j] => i = j

\* Faulty variant: a transaction that was applied before is evaluated again.
TrxNotChecked(t, values, C, rec) == Covers(t, Over(values, C))

TrxValid(t, values, C, rec) == rec[t] = "none" /\ Covers(t, Over(values, C))

(***************************************************************************)
(* Storing a block.                                                        *)
(***************************************************************************)

\* Faulty variant: a missing link is closed, but only for the block itself.
LinkOnlyItself(b) ==
  [fork EXCEPT ![Prev[b]].stored = TRUE, ![Prev[b]].next = @ \cup {b},
               ![b].stored = TRUE, ![b].linked = @ \/ fork[Prev[b]].linked,
               ![b].known = @ \/ ~fork[b].stored]

StoreAndIndex(b) ==
  LET p == Prev[b]
      withPrev == [fork EXCEPT ![p].stored = TRUE, ![p].next = @ \cup {b}]
      missingLink == fork[b].stored /\ ~fork[b].linked /\ fork[p].linked
      current == IF fork[b].stored
                 THEN [fork[b] EXCEPT !.linked = @ \/ fork[p].linked]
                 ELSE [NoForkData EXCEPT !.stored = TRUE, !.known = TRUE,
                                         !.linked = fork[p].linked]
      marked == IF missingLink THEN Reach(withPrev, fork[b].next) ELSE {}
  IN  [x \in Ids |-> IF x = b THEN current
                     ELSE [withPrev[x] EXCEPT !.linked = @ \/ x \in marked]]

(***************************************************************************)
(* Applying and undoing one block.                                         *)
(***************************************************************************)

\* verify_header, for the block that is next in history.
VerifyHeader(b) ==
  /\ Num[b] = Num[head] + 1
  /\ Prev[b] = head
  /\ b \in Sound
  /\ b \notin early
  /\ NoDuplicates(UserTrx[b])

\* get_block needs the record of b, and finds its transactions only in theirs.
BlockReadable(b) == b \in record /\ \A t \in TrxOf(b) : trxRec[t] # "none"

\* A transaction read from an emptied record is not the one the digest covers.
ContentIntact(b) == mode # "push" => \A t \in TrxOf(b) : trxRec[t] = "known"

BlockApplies(b) ==
  /\ VerifyHeader(b)
  /\ ContentIntact(b)
  /\ \A t \in TrxOf(b) : trxRec[t] = "none"
  /\ Spendable(UserTrx[b], coins)

\* Faulty variant: a balance that was only withdrawn from is not saved.
UndoOnlyDeposits(b) ==
  LET given == {c \in Coins : \E t \in TrxOf(b) : Gives[t][c] > 0}
  IN  [coins |-> [c \in given |-> coins[c]], paid |-> paid,
       trxs |-> [t \in TrxOf(b) |-> "empty"]]

\* get_undo_state: the values that the changes of b replace.  A transaction
\* without a record gets an empty one, since nothing removes a record.
UndoState(b) ==
  [coins |-> [c \in UNION {Touched(t) : t \in TrxOf(b)} |-> coins[c]], paid |-> paid,
   trxs |-> [t \in TrxOf(b) |-> IF trxRec[t] = "none" THEN "empty" ELSE trxRec[t]]]

NoUndo == [coins |-> NoChanges, paid |-> 0, trxs |-> NoChanges]

\* Faulty variant: an earlier verdict on the block stays.
MarkOnlyIncluded(b, included) == [fork EXCEPT ![b].included = included]

MarkIncluded(b, included) ==
  [fork EXCEPT ![b].included = included,
               ![b].valid = IF included THEN "yes" ELSE @]

\* clear_pending's loop, in the order of the ids: what stays pending, and the
\* state it leaves behind.
Requeued(ts, C, rec) ==
  LET f[t \in 0..NTrx] ==
        IF t = 0 THEN [kept |-> {}, values |-> NoChanges]
        ELSE IF t \in ts /\ TrxValid(t, f[t - 1].values, C, rec)
             THEN [kept |-> f[t - 1].kept \cup {t},
                   values |-> Then(f[t - 1].values, t, C)]
             ELSE f[t - 1]
  IN  f[NTrx]

\* mark_invalid: the block and everything after it.
MarkInvalid(b) ==
  [x \in Ids |-> IF x = b \/ x \in Reach(fork, fork[b].next)
                 THEN [fork[x] EXCEPT !.valid = "no"] ELSE fork[x]]

(***************************************************************************)
(* The steps of a call.                                                    *)
(***************************************************************************)
Enter(p, m, h) == pc' = p /\ mode' = m /\ history' = h

Return == Enter("idle", "push", << >>) /\ oldHead' = Base

\* Faulty variant: a failed switch back is tried again.
ThrowAndRetry ==
  \/ mode # "push" /\ Enter("history", "revert", <<oldHead>>) /\ UNCHANGED oldHead
  \/ mode = "push" /\ Return

\* An exception: push_block catches the one of its first switch_to_fork and
\* switches back; any other leaves push_block.
Throw ==
  \/ mode = "switch" /\ Enter("history", "revert", <<oldHead>>) /\ UNCHANGED oldHead
  \/ mode # "switch" /\ Return

\* client_impl::on_new_block ignores a block that is known; push_block stores
\* any other and finds out what to do with it.
PushBlock(b) ==
  /\ pc = "idle"
  /\ ~fork[b].known
  /\ fork' = StoreAndIndex(b)
  /\ record' = record \cup {b}
  /\ LET longer == CanLink(fork'[b]) /\ Num[b] > Num[head] IN
     \/ Prev[b] = head /\ Enter("extend", "push", <<b>>) /\ oldHead' = head
     \/ Prev[b] # head /\ longer /\ Enter("history", "switch", <<b>>) /\ oldHead' = head
     \/ Prev[b] # head /\ ~longer /\ UNCHANGED call
  /\ UNCHANGED <<numToId, undo, trxRec, coins, paid, pending, memory, early>>

\* One iteration of get_fork_history.  (What is below Base is not modelled.)
WalkBack ==
  /\ pc = "history"
  /\ Last(history) # Base
  /\ LET p == Prev[Last(history)] IN
     IF ~fork[p].linked THEN Throw
     ELSE /\ Enter(IF fork[p].included THEN "pop" ELSE "history", mode, Append(history, p))
          /\ UNCHANGED oldHead
  /\ UNCHANGED <<db, memory, early>>

\* Faulty variant: the number of a popped block stays in the index.
PopKeepsNumber ==
  /\ pc = "pop"
  /\ Last(history) # head
  /\ head # Base
  /\ fork' = MarkIncluded(head, FALSE)
  /\ coins' = Over(undo[head].coins, coins)
  /\ paid' = undo[head].paid
  /\ trxRec' = [t \in Trxs |-> IF t \in TrxOf(head) THEN undo[head].trxs[t] ELSE trxRec[t]]
  /\ head' = Prev[head]
  /\ fresh' = FALSE
  /\ UNCHANGED <<record, numToId, undo, pending, overlay, indexed, call, early>>

\* Faulty variant: transaction records are no part of the undo.
PopKeepsRecords ==
  /\ pc = "pop"
  /\ Last(history) # head
  /\ head # Base
  /\ fork' = MarkIncluded(head, FALSE)
  /\ numToId' = {e \in numToId : e[1] # Num[head]}
  /\ coins' = Over(undo[head].coins, coins)
  /\ paid' = undo[head].paid
  /\ head' = Prev[head]
  /\ fresh' = FALSE
  /\ UNCHANGED <<record, undo, trxRec, pending, overlay, indexed, call, early>>

\* One iteration of the first loop of switch_to_fork.
PopBlock ==
  /\ pc = "pop"
  /\ Last(history) # head
  /\ head # Base
  /\ fork' = MarkIncluded(head, FALSE)
  /\ numToId' = {e \in numToId : e[1] # Num[head]}
  /\ coins' = Over(undo[head].coins, coins)
  /\ paid' = undo[head].paid
  /\ trxRec' = [t \in Trxs |-> IF t \in TrxOf(head) THEN undo[head].trxs[t] ELSE trxRec[t]]
  /\ head' = Prev[head]
  /\ fresh' = FALSE
  /\ UNCHANGED <<record, undo, pending, overlay, indexed, call, early>>

PopsDone ==
  /\ pc = "pop"
  /\ Last(history) = head
  /\ Enter("extend", mode, Front(history))
  /\ UNCHANGED <<db, memory, oldHead, early>>

\* extend_chain succeeds: one iteration of the second loop of switch_to_fork,
\* or the direct call in push_block.
ExtendChain ==
  /\ pc = "extend"
  /\ LET b == Last(history) IN
     /\ mode # "push" => BlockReadable(b)
     /\ BlockApplies(b)
     /\ undo' = [undo EXCEPT ![b] = UndoState(b)]
     /\ coins' = Evaluated(UserTrx[b], coins)[Len(UserTrx[b])]
     /\ paid' = paid + 1
     /\ trxRec' = [t \in Trxs |-> IF t \in TrxOf(b) THEN "known" ELSE trxRec[t]]
     /\ fork' = MarkIncluded(b, TRUE)
     /\ head' = b
     /\ \E left \in {Requeued(pending \ TrxOf(b), coins', trxRec')} :
          pending' = left.kept /\ indexed' = left.kept /\ overlay' = left.values
     /\ fresh' = TRUE
     /\ numToId' = {e \in numToId : e[1] # Num[b]} \cup {<<Num[b], b>>}
     /\ record' = record \cup {b}
  /\ \/ Len(history) = 1 /\ Return
     \/ Len(history) > 1 /\ Enter("extend", mode, Front(history)) /\ UNCHANGED oldHead
  /\ UNCHANGED early

\* extend_chain throws after marking the block and what follows it.
ExtendFails ==
  /\ pc = "extend"
  /\ mode # "push" => BlockReadable(Last(history))
  /\ ~BlockApplies(Last(history))
  /\ fork' = MarkInvalid(Last(history))
  /\ Throw
  /\ UNCHANGED <<record, numToId, undo, trxRec, coins, paid, pending, memory, early>>

\* get_block throws unknown_transaction, before extend_chain is entered.
GetBlockFails ==
  /\ pc = "extend"
  /\ mode # "push"
  /\ ~BlockReadable(Last(history))
  /\ Throw
  /\ UNCHANGED <<db, memory, early>>

\* Faulty variant: the transaction is indexed and not written to the database.
StoreInMemoryOnly(t) ==
  /\ pc = "idle"
  /\ t \notin indexed
  /\ TrxValid(t, overlay, coins, trxRec)
  /\ indexed' = indexed \cup {t}
  /\ overlay' = Then(overlay, t, coins)
  /\ UNCHANGED <<db, head, fresh, call, early>>

\* Faulty variant: the transaction is evaluated on the balances of the chain.
StoreOnChain(t) ==
  /\ pc = "idle"
  /\ t \notin pending
  /\ TrxValid(t, NoChanges, coins, trxRec)
  /\ pending' = pending \cup {t}
  /\ indexed' = indexed \cup {t}
  /\ overlay' = Then(overlay, t, coins)
  /\ UNCHANGED <<fork, record, numToId, undo, trxRec, coins, paid, head, fresh, call, early>>

\* store_pending_transaction, for a transaction that evaluates.
StorePendingTransaction(t) ==
  /\ pc = "idle"
  /\ t \notin pending
  /\ TrxValid(t, overlay, coins, trxRec)
  /\ pending' = pending \cup {t}
  /\ indexed' = indexed \cup {t}
  /\ overlay' = Then(overlay, t, coins)
  /\ UNCHANGED <<fork, record, numToId, undo, trxRec, coins, paid, head, fresh, call, early>>

\* The process ends, perhaps in the middle of a switch, and the next one calls
\* open: the head is the last entry of _block_num_to_id_db.  The pending
\* transactions are evaluated before _chain_id is set, so that no signature on a
\* withdrawal passes (FeeAssumption): each throws, and is neither indexed nor
\* taken out of _pending_transaction_db.  (Base is no head to begin with: what is
\* below it is not modelled.)
Open ==
  \E b \in Blocks :
    /\ <<Num[b], b>> \in numToId
    /\ \A e \in numToId : e[1] <= Num[b]
    /\ BlockReadable(b)
    /\ head' = b
    /\ indexed' = {}
    /\ overlay' = NoChanges
    /\ fresh' = TRUE
    /\ Return
    /\ UNCHANGED <<db, early>>

\* The local clock catches up with the timestamps seen so far.
ClockCatchesUp ==
  /\ early # {}
  /\ early' = {}
  /\ UNCHANGED <<db, memory, call>>

Init ==
  /\ fork = [b \in Ids |->
       CASE b = Base -> [stored |-> TRUE, next |-> {Root}, linked |-> TRUE,
                         valid |-> "yes", included |-> TRUE, known |-> TRUE]
         [] b = Root -> [stored |-> TRUE, next |-> {}, linked |-> TRUE,
                         valid |-> "yes", included |-> TRUE, known |-> TRUE]
         [] OTHER -> NoForkData]
  /\ record = {Base, Root}
  /\ numToId = {<<Num[Base], Base>>, <<Num[Root], Root>>}
  /\ undo = [b \in Blocks |-> NoUndo]
  /\ trxRec = [t \in Trxs |-> "none"]
  /\ coins = Funded
  /\ paid = 1
  /\ pending = {}
  /\ head = Root
  /\ overlay = NoChanges
  /\ indexed = {}
  /\ fresh = TRUE
  /\ pc = "idle" /\ mode = "push" /\ history = << >> /\ oldHead = Base
  /\ early = Early

Step == WalkBack \/ PopBlock \/ PopsDone \/ ExtendChain \/ ExtendFails \/ GetBlockFails

Next ==
  \/ \E b \in Blocks : PushBlock(b)
  \/ \E t \in Trxs : StorePendingTransaction(t)
  \/ Step
  \/ Open
  \/ ClockCatchesUp

Spec == Init /\ [][Next]_vars

\* A call that has begun runs on: nothing else has the thread.
FairSpec == Spec /\ WF_vars(Step)

(***************************************************************************)
(* Properties.                                                             *)
(***************************************************************************)
TypeOK ==
  /\ fork \in [Ids -> ForkData]
  /\ record \subseteq Ids
  /\ numToId \subseteq Nat \X Ids
  /\ trxRec \in [Trxs -> TrxRecs]
  /\ coins \in [Coins -> Nat]
  /\ paid \in Nat
  /\ pending \subseteq Trxs
  /\ head \in Ids
  /\ IsValues(overlay)
  /\ indexed \subseteq pending
  /\ fresh \in BOOLEAN
  /\ pc \in {"idle", "history", "pop", "extend"}
  /\ mode \in {"push", "switch", "revert"}
  /\ history \in Seq(Ids)
  /\ oldHead \in Ids
  /\ early \subseteq Blocks

\* Exactly the blocks that can be walked back to the chain are linked: a linked
\* block has a record and a linked predecessor, so get_fork_history never runs
\* into a dead end, and no block whose predecessor is linked was forgotten by
\* store_and_index when blocks arrived out of order.
LinkedExactly ==
  \A b \in Blocks :
    fork[b].linked <=> b \in record /\ fork[Prev[b]].linked

\* Pops and extensions, failed ones too, leave exactly one chain: the blocks
\* flagged is_included run from the head down to Base without a gap, and
\* _block_num_to_id_db holds these blocks, one for each number.
OneChain ==
  /\ head \in Included /\ Base \in Included
  /\ \A b \in Included \ {Base} :
       Prev[b] \in Included /\ Num[b] = Num[Prev[b]] + 1
  /\ \A b \in Included : Num[b] <= Num[head]
  /\ \A b, c \in Included : Num[b] = Num[c] => b = c
  /\ numToId = {<<Num[b], b>> : b \in Included}

\* No block of the current chain is ever flagged as invalid, although
\* mark_invalid spreads over everything that follows a block.
IncludedIsValid ==
  \A b \in Included : fork[b].linked /\ fork[b].valid = "yes"

\* A transaction record describes a transaction of the current chain: exactly
\* the transactions of included blocks are recorded with content, and each is
\* in one block only, whatever was undone and applied again.
RecordsMatchChain ==
  /\ \A t \in Trxs : trxRec[t] = "known" <=> \E b \in Included \cap Blocks : t \in TrxOf(b)
  /\ \A b, c \in Included \cap Blocks : TrxOf(b) \cap TrxOf(c) # {} => b = c

\* What the blocks up to b make of the balances.
CoinsAt[b \in Ids] ==
  IF b = Base THEN Funded
  ELSE Evaluated(UserTrx[b], CoinsAt[Prev[b]])[Len(UserTrx[b])]

\* Undo states bring back what was there: after any pops and extensions the
\* balances and the pay are those of the blocks from Base to the head.
LedgerIsReplay == coins = CoinsAt[head] /\ paid = Num[head] - Num[Base]

\* A transaction that waits to go into a block has no record yet, so a block
\* generated from the pending ones repeats no transaction.
PendingIsNew == \A t \in pending : trxRec[t] = "none"

\* The transactions offered for the next block fit together: in some order the
\* balances after the head cover all their withdrawals, several from one balance
\* included, although they came one by one, some of them before the head, and were
\* evaluated again in another order than they came in.  (Once blocks are popped the
\* pending state is as old as the chain they were on, until a block is applied.)
PendingFitTogether ==
  fresh => \E order \in SetToSeqs(indexed) : Spendable(order, coins)

\* A switch of forks, and the switch back, come to an end.
PushReturns == (pc # "idle") ~> (pc = "idle")

\* "attempt to switch to fork failed, reverting": once the switch back has ended,
\* the head is the one it was before the block came.
FailedSwitchReverts ==
  [][mode = "revert" /\ mode' # "revert" /\ ~Open => head' = oldHead]_vars
=============================================================================
