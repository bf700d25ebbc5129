------------------------------ MODULE NodeSync ------------------------------
(***************************************************************************)
(* Block synchronisation and gossip of the peer-to-peer node,              *)
(* src/bitshares_toolkit/libraries/net/node.cpp, over the part of the      *)
(* client it calls back (client.cpp).  Every node runs the same code, so a *)
(* node is one record, a connection is one record at each of its two ends, *)
(* and a message is taken from the sender's record.                        *)
(*                                                                         *)
(* A handler runs on the fiber of its connection and is one step; so is    *)
(* what a loop does between two places where it may give up the thread.    *)
(***************************************************************************)
EXTENDS Integers, Sequences, SequencesExt, FiniteSets, FiniteSetsExt

CONSTANTS
  Nodes,      \* the nodes of the network
  Outbound,   \* <<n, p>> : n has connected to p
  NBlocks,    \* blocks are 1..NBlocks, 0 stands for no block
  Prev,       \* the block before each block, 0 for a first block
  InitHead,   \* the head of every node's chain when it starts
  Mints,      \* <<n, b>> : n may produce block b as a delegate
  Trxs,       \* <<n, t>> : n may send transaction t
  Limit,      \* limit of client_impl::get_item_ids, 2000 in the code
  CacheDuration, \* cache_duration_in_blocks, 2 in the code
  UintMax,    \* stands for the largest uint32_t
  MaxBreaks,  \* bound: connections that break
  MaxSent     \* bound: blocks produced and transactions sent

Blocks == 1..NBlocks
Links == Outbound \cup {<<l[2], l[1]>> : l \in Outbound}
Peers(n) == {p \in Nodes : <<n, p>> \in Links}
TrxIds == {t[2] : t \in Trxs}
Items == Blocks \cup TrxIds

\* The nodes agree on the first block: a different chain is refused by its chain_id
\* in on_hello_message, and a fork of the very first block is left out.
ASSUME BlockAssumption ==
  /\ NBlocks \in Nat
  /\ Prev \in [Blocks -> 0..NBlocks]
  /\ \A b \in Blocks : Prev[b] < b
  /\ \A b, c \in Blocks : Prev[b] = 0 /\ Prev[c] = 0 => b = c
  /\ InitHead \in [Nodes -> 0..NBlocks] /\ Mints \subseteq Nodes \X Blocks

ASSUME LinkAssumption ==
  /\ IsFiniteSet(Nodes)
  /\ Outbound \subseteq Nodes \X Nodes
  /\ \A l \in Outbound : l[1] # l[2] /\ <<l[2], l[1]>> \notin Outbound

ASSUME BoundAssumption ==
  /\ Limit \in Nat \ {0} /\ CacheDuration \in Nat
  /\ UintMax \in Nat /\ UintMax > NBlocks /\ MaxBreaks \in Nat /\ MaxSent \in Nat
  /\ IsFiniteSet(Trxs) /\ Trxs \subseteq Nodes \X TrxIds
  /\ TrxIds \cap (0..NBlocks) = {}

VARIABLES
  node,   \* the state of every node
  breaks, \* connections that have broken so far
  sent    \* blocks produced and transactions sent so far

vars == <<node, breaks, sent>>

(***************************************************************************)
(* The client's chain (external to the node; ChainDatabase has the whole   *)
(* of it).  Every block is valid: what it may lack is a predecessor.       *)
(***************************************************************************)
Chain[b \in 0..NBlocks] == IF b = 0 THEN << >> ELSE Append(Chain[Prev[b]], b)
Num(b) == Len(Chain[b])
IsIncluded(s, b) == b \in Range(Chain[s.head])
HasItem(s, b) == b \in s.known
Linked(s) == {b \in s.stored : Range(Chain[b]) \subseteq s.stored}

\* push_block.  A block that comes after one of its successors finds fork data
\* under its id, which is_known does not survive; only the block itself can
\* become the head, not what it links.
PushBlock(s, b) ==
  LET t == [s EXCEPT !.stored = @ \cup {b},
                     !.known = IF \E c \in s.stored : Prev[c] = b THEN @ ELSE @ \cup {b}]
      better == Prev[b] = s.head \/ Num(b) > Num(s.head)
  IN  [t EXCEPT !.head = IF b \in Linked(t) /\ better THEN b ELSE @]

\* client_impl::on_new_block; in sync mode it throws unless the block is linked.
HandleBlock(s, b) == IF HasItem(s, b) THEN s ELSE PushBlock(s, b)
SyncRejects(s, b) == b \notin Linked(s)

\* client_impl::get_item_ids
GetItemIds(s, synopsis) ==
  LET chain == Chain[s.head]
      common == {i \in DOMAIN synopsis : IsIncluded(s, synopsis[i])}
      from == IF common = {} THEN 1 ELSE Num(synopsis[Max(common)])
      after == SubSeq(chain, from, Len(chain))
      count == IF Limit < Len(after) THEN Limit ELSE Len(after)
  IN  [hashes |-> SubSeq(after, 1, count), remaining |-> Len(after) - count]

\* The block numbers from above + 1 to high that a synopsis holds: 1, then half of
\* what is left up to top each time.
Halvings(above, high, top) ==
  LET run[i \in 0..high] ==
        IF i = 0 THEN [low |-> 1, nums |-> << >>]
        ELSE LET r == run[i - 1] IN
             IF r.low > high THEN r
             ELSE [low  |-> r.low + ((top - r.low + 2) \div 2),
                   nums |-> IF r.low > above THEN Append(r.nums, r.low) ELSE r.nums]
  IN  run[high].nums

\* client_impl::get_blockchain_synopsis, empty without a linked reference
ClientSynopsis(s, reference, after) ==
  LET chain == Chain[IF reference = 0 THEN s.head ELSE reference]
      nums == Halvings(0, Len(chain), Len(chain) + after)
  IN  IF chain = << >> \/ reference \notin Linked(s) \cup {0}
      THEN << >> ELSE [i \in DOMAIN nums |-> chain[nums[i]]]

(***************************************************************************)
(* A connection, as one of its ends sees it.                               *)
(***************************************************************************)
NewConnection(in) == [
  inbound |-> in,             \* direction
  status |-> "handshaking",   \* _handshaking_connections, _active_connections
  ids |-> << >>,              \* ids_of_items_to_get
  unfetched |-> 0,            \* number_of_unfetched_item_ids
  peerNeeds |-> TRUE,         \* peer_needs_sync_items_from_us
  weNeed |-> TRUE,            \* we_need_sync_items_from_peer
  idsRequested |-> FALSE,     \* item_ids_requested_from_peer
  syncRequested |-> {},       \* sync_items_requested_from_peer
  itemsRequested |-> {},      \* items_requested_from_peer
  lastSeen |-> 0,             \* last_block_delegate_has_seen
  lastNum |-> 0,              \* last_block_number_delegate_has_seen
  advertisedToUs |-> {},      \* inventory_peer_advertised_to_us
  advertised |-> {} ]         \* inventory_advertised_to_peer

NewNode(n) == [
  head |-> InitHead[n], stored |-> Range(Chain[InitHead[n]]),
  known |-> Range(Chain[InitHead[n]]),
  pool |-> {},                \* transactions the client has
  conn |-> [p \in Peers(n) |-> NewConnection(<<p, n>> \in Outbound)],
  out |-> [p \in Peers(n) |-> IF <<p, n>> \in Outbound
                              THEN <<[type |-> "address"]>> ELSE << >>],
  activeRequests |-> {},      \* _active_sync_requests
  received |-> << >>,         \* _received_sync_items
  toFetch |-> << >>,          \* _items_to_fetch
  newInventory |-> {},        \* _new_inventory
  recent |-> {InitHead[n]},   \* _most_recent_blocks_accepted
  cache |-> << >>,            \* _message_cache: item -> block_clock_when_received
  clock |-> 0,                \* its block_clock
  total |-> 0,                \* _total_number_of_unfetched_items
  syncWake |-> FALSE,         \* fetch_sync_items_loop is to run once more
  plan |-> << >>,             \* its sync_item_requests_to_send, as they go out
  syncLoop |-> TRUE,          \* it has not ended with an exception
  itemWake |-> FALSE,         \* fetch_items_loop is to run once more
  cursor |-> 0,               \* its place in _items_to_fetch, 0 between passes
  blamed |-> {} ]             \* peers that disconnect_from_peer was called for

Active(s) == {p \in DOMAIN s.conn : s.conn[p].status = "active"}

Busy(c) == c.idsRequested \/ c.syncRequested # {} \/ c.itemsRequested # {}

Send(s, p, m) == [s EXCEPT !.out[p] = Append(@, m)]

\* disconnect_from_peer, on_connection_closed at the other end
Disconnect(s, p) ==
  Send([s EXCEPT !.conn[p].status = "closed", !.blamed = @ \cup {p}],
       p, [type |-> "eof"])

(***************************************************************************)
(* Asking a peer for the ids of its blocks.                                *)
(***************************************************************************)

\* create_blockchain_synopsis_for_peer
Synopsis(s, c) ==
  LET behind == Len(c.ids)
      nums == Halvings(c.lastNum, c.lastNum + behind, c.lastNum + behind)
  IN  ClientSynopsis(s, c.lastSeen, behind)
      \o [i \in DOMAIN nums |-> c.ids[nums[i] - c.lastNum]]

\* fetch_next_batch_of_item_ids_from_peer
FetchNextBatch(s, p) ==
  Send([s EXCEPT !.conn[p].idsRequested = TRUE], p,
       [type |-> "fetch_ids", synopsis |-> Synopsis(s, s.conn[p])])

\* Faulty variant: the flag that an earlier round has cleared stays cleared.
StartForgets(s, p) ==
  FetchNextBatch([s EXCEPT !.conn[p].lastSeen = 0, !.conn[p].lastNum = 0], p)

\* start_synchronizing_with_peer
StartSynchronizing(s, p) ==
  FetchNextBatch([s EXCEPT !.conn[p].weNeed = TRUE, !.conn[p].lastSeen = 0,
                           !.conn[p].lastNum = 0], p)

\* on_address_message, the last message of the handshake of an outbound peer
OnAddress(s, p) ==
  StartSynchronizing([s EXCEPT !.conn[p].status = "active"], p)

\* on_fetch_blockchain_item_ids_message
OnFetchIds(s, p, m) ==
  LET reply == GetItemIds(s, m.synopsis)
      inSync == \/ reply.hashes = << >>
                \/ /\ m.synopsis # << >>
                   /\ reply.hashes = <<Last(m.synopsis)>>
      t == [s EXCEPT !.conn[p].peerNeeds = ~inSync]
      restart == /\ ~s.conn[p].weNeed
                 /\ m.synopsis # << >>
                 /\ ~HasItem(s, Last(m.synopsis))
      u == Send(IF restart THEN StartSynchronizing(t, p) ELSE t, p,
                [type |-> "ids", hashes |-> reply.hashes, remaining |-> reply.remaining])
  IN  IF s.conn[p].inbound /\ s.conn[p].status = "handshaking"
      THEN StartSynchronizing([u EXCEPT !.conn[p].status = "active"], p)
      ELSE u

\* calculate_unsynced_block_count_from_all_peers
Unsynced(s) ==
  Max({0} \cup {Len(s.conn[p].ids) + s.conn[p].unfetched : p \in Active(s)})

\* "Peer said we're up-to-date": it has nothing after what we asked from.
UpToDate(s, c, m) ==
  /\ m.remaining = 0
  /\ m.hashes = << >> \/ (Len(m.hashes) = 1 /\ HasItem(s, m.hashes[1]))
  /\ c.ids = << >>
  /\ c.unfetched = 0

\* What is left of a list once its leading blocks that the client has are off.
DropKnown(s, hashes) ==
  LET new == {i \in DOMAIN hashes : ~HasItem(s, hashes[i])}
  IN  IF new = {} THEN << >> ELSE SubSeq(hashes, Min(new), Len(hashes))

\* Faulty variant: the new list does not lose the block it shares with the old.
MergeTwice(s, p, hashes) ==
  LET c == s.conn[p]
      left == DropKnown(s, hashes)
  IN  IF c.ids = << >>
      THEN [c EXCEPT !.ids = left]
      ELSE [c EXCEPT !.ids = @ \o hashes]

\* The list of a peer after its answer: a first list loses the blocks the
\* client has, unless another peer is about to have its first block taken off;
\* a further list follows the last block that both have.
MergeIds(s, p, hashes) ==
  LET c == s.conn[p]
      firstElsewhere == \E q \in Active(s) \ {p} :
        s.conn[q].ids # << >> /\ s.conn[q].ids[1] = hashes[1]
      left == DropKnown(s, hashes)
      dropped == Len(hashes) - Len(left)
      same == {i \in DOMAIN c.ids : c.ids[i] = hashes[1]}
  IN  IF hashes = << >> THEN c
      ELSE IF c.ids = << >>
      THEN IF firstElsewhere THEN [c EXCEPT !.ids = hashes]
           ELSE [c EXCEPT !.ids = left, !.lastNum = @ + dropped,
                          !.lastSeen = IF dropped = 0 THEN @ ELSE hashes[dropped]]
      ELSE IF same = {}
      THEN [c EXCEPT !.ids = Tail(hashes), !.lastSeen = hashes[1],
                     !.lastNum = Num(hashes[1])]
      ELSE [c EXCEPT !.ids = SubSeq(@, 1, Max(same) - 1) \o hashes]

\* on_blockchain_item_ids_inventory_message
OnIds(s, p, m) ==
  LET c == s.conn[p]
      answered == [s EXCEPT !.conn[p].idsRequested = FALSE]
      merged == [answered EXCEPT !.conn[p] = [MergeIds(answered, p, m.hashes)
                                              EXCEPT !.unfetched = m.remaining]]
      counted == [merged EXCEPT !.total = Unsynced(merged)]
      inSync == [answered EXCEPT !.conn[p].weNeed = FALSE]
  IN  IF ~c.idsRequested THEN s
      ELSE IF UpToDate(s, c, m) THEN [inSync EXCEPT !.total = Unsynced(inSync)]
      ELSE IF m.remaining = 0 /\ counted.conn[p].ids # << >>
      THEN [counted EXCEPT !.syncWake = TRUE]
      ELSE FetchNextBatch(counted, p)

(***************************************************************************)
(* Blocks that arrive.                                                     *)
(***************************************************************************)
TriggerSync(s) == [s EXCEPT !.syncWake = TRUE]
TriggerItems(s) == [s EXCEPT !.itemWake = TRUE]

\* Peers whose next block is b.
Offering(s, b) ==
  {p \in Active(s) : s.conn[p].ids # << >> /\ s.conn[p].ids[1] = b}

\* Faulty variant: a signed counter.
DecrementSigned(k) == k - 1

\* --_total_number_of_unfetched_items, a uint32_t.  A block of one fork and then
\* of another may each be counted off the longer of two lists.
Decrement(k) == IF k = 0 THEN UintMax ELSE k - 1

\* The client took b: it leaves the lists of the peers that have it next.  A
\* peer with nothing left is asked for more, one that is in sync with us in
\* both directions gets a new round, to find out about b.
SyncAccepted(s, b) ==
  LET popped == Offering(s, b)
      end(p) == IF p \notin popped THEN s.conn[p]
                ELSE [s.conn[p] EXCEPT !.ids = Tail(@), !.lastSeen = b, !.lastNum = @ + 1]
      taken == [s EXCEPT !.total = Decrement(@), !.recent = @ \cup {b},
                         !.conn = [p \in DOMAIN @ |-> end(p)]]
      newlyEmpty == {p \in popped : taken.conn[p].ids = << >> /\ s.conn[p].unfetched = 0}
      uninformed == {p \in Active(s) : /\ s.conn[p].ids = << >>
                                       /\ ~s.conn[p].peerNeeds
                                       /\ ~s.conn[p].weNeed}
      round(p) == IF p \in newlyEmpty THEN FetchNextBatch(taken, p)
                  ELSE IF p \in uninformed THEN StartSynchronizing(taken, p) ELSE taken
  IN  [taken EXCEPT !.conn = [p \in DOMAIN @ |-> round(p).conn[p]],
                    !.out = [p \in DOMAIN @ |-> round(p).out[p]]]

SyncRejected(s, b) ==
  LET dropped(p) == IF p \in Offering(s, b) THEN Disconnect(s, p) ELSE s
  IN  [s EXCEPT !.conn = [p \in DOMAIN @ |-> dropped(p).conn[p]],
                !.out = [p \in DOMAIN @ |-> dropped(p).out[p]],
                !.blamed = @ \cup Offering(s, b)]

\* One iteration of process_backlog_of_sync_blocks, on the first block in the
\* list that some peer has next; more is FALSE if it was the last iteration.
BacklogStep(s) ==
  LET next == {i \in DOMAIN s.received : Offering(s, s.received[i]) # {}}
      b == s.received[Min(next)]
      rest == [s EXCEPT !.received = RemoveAt(@, Min(next))]
      t == IF b \in s.recent THEN rest ELSE HandleBlock(rest, b)
  IN  IF next = {} THEN [state |-> s, more |-> FALSE]
      ELSE IF b \notin s.recent /\ SyncRejects(t, b)
      THEN [state |-> SyncRejected(t, b), more |-> FALSE]
      ELSE [state |-> SyncAccepted(t, b), more |-> TRUE]

\* process_backlog_of_sync_blocks
ProcessBacklog(s) ==
  LET f[i \in 0..Len(s.received)] ==
        IF i = 0 THEN [state |-> s, more |-> TRUE]
        ELSE LET before == f[i - 1] IN IF before.more THEN BacklogStep(before.state) ELSE before
  IN  f[Len(s.received)].state

\* Faulty variant: the loop that asks for blocks is left asleep.
SyncBlockQuiet(s, b) == ProcessBacklog([s EXCEPT !.received = <<b>> \o @])

\* process_block_during_sync
SyncBlock(s, b) == TriggerSync(ProcessBacklog([s EXCEPT !.received = <<b>> \o @]))

\* broadcast
Broadcast(s, i) ==
  [s EXCEPT !.recent = IF i \in Blocks THEN @ \cup {i} ELSE @,
            !.cache = [x \in DOMAIN @ \cup {i} |-> IF x \in DOMAIN @ THEN @[x] ELSE s.clock],
            !.newInventory = @ \cup {i}]

\* blockchain_tied_message_cache::block_accepted
BlockAccepted(s) ==
  LET now == s.clock + 1
      kept == {x \in DOMAIN s.cache : now <= CacheDuration \/ s.cache[x] >= now - CacheDuration}
  IN  [s EXCEPT !.clock = now, !.cache = [x \in kept |-> @[x]]]

\* process_block_during_normal_operation
NormalBlock(s, b) ==
  LET t == TriggerItems(IF b \in s.recent THEN s ELSE HandleBlock(s, b))
      offered == {p \in Active(t) : b \in t.conn[p].advertisedToUs}
      end(p) == IF p \notin offered THEN t.conn[p]
                ELSE [t.conn[p] EXCEPT !.advertisedToUs = @ \ {b}, !.advertised = @ \cup {b}]
  IN  BlockAccepted(Broadcast([t EXCEPT !.conn = [p \in DOMAIN @ |-> end(p)]], b))

\* Faulty variant: every block is taken for one of those asked for in sync.
OnBlockSyncOnly(s, p, b) ==
  IF b \in s.conn[p].syncRequested
  THEN SyncBlock([s EXCEPT !.conn[p].syncRequested = @ \ {b}], b)
  ELSE Disconnect(s, p)

\* process_block_message
OnBlock(s, p, b) ==
  IF b \in s.conn[p].itemsRequested
  THEN NormalBlock([s EXCEPT !.conn[p].itemsRequested = @ \ {b}], b)
  ELSE IF b \in s.conn[p].syncRequested
  THEN SyncBlock([s EXCEPT !.conn[p].syncRequested = @ \ {b}], b)
  ELSE Disconnect(s, p)

\* process_ordinary_message
OnTrx(s, p, t) ==
  IF t \in s.conn[p].itemsRequested
  THEN Broadcast(TriggerItems([s EXCEPT !.conn[p].itemsRequested = @ \ {t},
                                        !.pool = @ \cup {t}]), t)
  ELSE Disconnect(s, p)

(***************************************************************************)
(* Requests for items and offers of items.  A request of the sync code     *)
(* names a block id, any other the hash of a message, which only the       *)
(* message cache can look up.                                              *)
(***************************************************************************)

\* on_fetch_items_message
OnFetch(s, p, m) ==
  LET available == IF m.sync THEN m.item \in s.stored ELSE m.item \in DOMAIN s.cache
  IN  Send(s, p, IF available THEN [type |-> "item", item |-> m.item]
                 ELSE [type |-> "not_available", sync |-> m.sync, item |-> m.item])

\* on_item_not_available_message
OnNotAvailable(s, p, m) ==
  IF ~m.sync /\ m.item \in s.conn[p].itemsRequested
  THEN TriggerItems([s EXCEPT !.conn[p].itemsRequested = @ \ {m.item}])
  ELSE IF m.sync /\ m.item \in s.conn[p].syncRequested
  THEN TriggerSync([s EXCEPT !.conn[p].syncRequested = @ \ {m.item}])
  ELSE s

\* on_item_ids_inventory_message
OnInventory(s, p, m) ==
  LET ours == UNION {s.conn[q].advertised : q \in Active(s)}
      asked == UNION {s.conn[q].itemsRequested : q \in Active(s)}
      new == m.items \ ours
      wanted == new \ (asked \cup Range(s.toFetch))
      t == [s EXCEPT !.conn[p].advertisedToUs = @ \cup new,
                     !.toFetch = @ \o SetToSeq(wanted)]
  IN  IF wanted = {} THEN t ELSE TriggerItems(t)

OnMessage(s, p, m) ==
  CASE m.type = "address" -> OnAddress(s, p)
    [] m.type = "fetch_ids" -> OnFetchIds(s, p, m)
    [] m.type = "ids" -> OnIds(s, p, m)
    [] m.type = "fetch" -> OnFetch(s, p, m)
    [] m.type = "item" -> IF m.item \in Blocks THEN OnBlock(s, p, m.item)
                                               ELSE OnTrx(s, p, m.item)
    [] m.type = "not_available" -> OnNotAvailable(s, p, m)
    [] m.type = "inventory" -> OnInventory(s, p, m)
    [] m.type = "eof" -> [s EXCEPT !.conn[p].status = "closed"]

(***************************************************************************)
(* Steps of a node.                                                        *)
(***************************************************************************)
Step(n, s) == node' = [node EXCEPT ![n] = s] /\ UNCHANGED <<breaks, sent>>

\* The read loop of the connection to p, and on_message.
Receive(n, p) ==
  /\ node[n].conn[p].status # "closed"
  /\ node[p].out[n] # << >>
  /\ node' = [node EXCEPT ![n] = OnMessage(@, p, node[p].out[n][1]),
                          ![p].out[n] = Tail(@)]
  /\ UNCHANGED <<breaks, sent>>

\* The block to ask peer p for, given those the pass has given to other peers.
Candidates(s, p, taken) ==
  {i \in DOMAIN s.conn[p].ids :
     s.conn[p].ids[i] \notin Range(s.received) \cup s.activeRequests \cup taken}

\* Faulty variant: blocks given to another peer in the same pass are forgotten.
PlanTwice(s, order) ==
  LET eligible(p) == /\ s.conn[p].weNeed /\ ~Busy(s.conn[p])
                     /\ Candidates(s, p, {}) # {}
  IN  [p \in {q \in Range(order) : eligible(q)} |->
         s.conn[p].ids[Min(Candidates(s, p, {}))]]

\* The first half of a pass of fetch_sync_items_loop: at most one block for
\* every idle peer that we sync with, in the order of the iteration.
Plan(s, order) ==
  LET f[i \in 0..Len(order)] ==
        IF i = 0 THEN << >>
        ELSE LET plan == f[i - 1]
                 c == s.conn[order[i]]
                 free == Candidates(s, order[i], Range(plan))
             IN  IF c.weNeed /\ ~Busy(c) /\ free # {}
                 THEN [p \in DOMAIN plan \cup {order[i]} |->
                         IF p = order[i] THEN c.ids[Min(free)] ELSE plan[p]]
                 ELSE plan
  IN  f[Len(order)]

\* request_sync_item_from_peer, for one of the requests in plan.
Request(s, plan, p) ==
  Send([s EXCEPT !.plan = [q \in DOMAIN plan \ {p} |-> plan[q]],
                 !.activeRequests = @ \cup {plan[p]},
                 !.conn[p].syncRequested = @ \cup {plan[p]}],
       p, [type |-> "fetch", sync |-> TRUE, item |-> plan[p]])

\* A pass of fetch_sync_items_loop up to its first request, if it has one.
SyncLoopPass(n) ==
  /\ node[n].syncLoop /\ node[n].syncWake /\ node[n].plan = << >>
  /\ LET s == [node[n] EXCEPT !.syncWake = FALSE] IN
     \E order \in SetToSeqs(Active(s)) :
       LET plan == Plan(s, order) IN
       \/ plan = << >> /\ Step(n, s)
       \/ \E p \in DOMAIN plan : Step(n, Request(s, plan, p))

\* The rest of them: any of the sends may have given up the thread.
SyncLoopRequest(n) ==
  \E p \in DOMAIN node[n].plan : Step(n, Request(node[n], node[n].plan, p))

\* A request to a peer that is gone by then: send_message throws, which ends the
\* loop, and nothing starts it again.
SyncLoopFails(n) ==
  \E p \in DOMAIN node[n].plan :
    /\ node[n].conn[p].status = "closed"
    /\ Step(n, [node[n] EXCEPT !.plan = << >>, !.syncLoop = FALSE,
                               !.activeRequests = @ \cup {node[n].plan[p]}])

\* fetch_items_loop up to the next request, or to the end of its pass
ItemLoop(n) ==
  LET s == node[n]
      from == IF s.cursor = 0 THEN 1 ELSE s.cursor
      idle(i) == {p \in Active(s) : ~Busy(s.conn[p]) /\ i \in s.conn[p].advertisedToUs}
      ready == {k \in from..Len(s.toFetch) : idle(s.toFetch[k]) # {}}
      t == [s EXCEPT !.itemWake = IF s.cursor = 0 THEN FALSE ELSE @]
  IN  /\ s.cursor # 0 \/ s.itemWake
      /\ \/ ready = {} /\ Step(n, [t EXCEPT !.cursor = 0])
         \/ /\ ready # {}
            /\ LET k == Min(ready) IN \E p \in idle(s.toFetch[k]) :
                 Step(n, Send([t EXCEPT !.cursor = k, !.toFetch = RemoveAt(@, k),
                                        !.conn[p].itemsRequested = @ \cup {s.toFetch[k]}],
                              p, [type |-> "fetch", sync |-> FALSE, item |-> s.toFetch[k]]))

\* One pass of advertise_inventory_loop, a message for each type of item.
AdvertiseLoop(n) ==
  LET s == node[n]
      offer(p) == s.newInventory \ (s.conn[p].advertised \cup s.conn[p].advertisedToUs)
      to == {p \in Active(s) : ~s.conn[p].peerNeeds}
      message(S) == IF S = {} THEN << >> ELSE <<[type |-> "inventory", items |-> S]>>
      end(p) == IF p \notin to THEN s.conn[p]
                ELSE [s.conn[p] EXCEPT !.advertised = @ \cup offer(p)]
  IN  /\ s.newInventory # {}
      /\ Step(n, [s EXCEPT !.newInventory = {},
           !.conn = [p \in DOMAIN @ |-> end(p)],
           !.out = [p \in DOMAIN @ |-> IF p \in to
                    THEN @[p] \o message(offer(p) \cap TrxIds)
                              \o message(offer(p) \cap Blocks) ELSE @[p]]])

\* The client has something new of its own.
Publish(n, s) ==
  /\ sent < MaxSent
  /\ sent' = sent + 1
  /\ node' = [node EXCEPT ![n] = s]
  /\ UNCHANGED breaks

\* An iteration of client_impl::delegate_loop that produces block b.
ProduceBlock(n, b) ==
  /\ <<n, b>> \in Mints
  /\ Prev[b] = node[n].head
  /\ \A m \in Nodes : b \notin node[m].stored
  /\ Publish(n, Broadcast(HandleBlock(node[n], b), b))

\* The client sends a transaction of its wallet.
SendTransaction(n, t) ==
  /\ <<n, t>> \in Trxs
  /\ \A m \in Nodes : t \notin node[m].pool
  /\ Publish(n, Broadcast([node[n] EXCEPT !.pool = @ \cup {t}], t))

\* The connection between n and p breaks, with what was under way on it.
Break(n, p) ==
  /\ breaks < MaxBreaks
  /\ node[n].conn[p].status # "closed" /\ node[p].conn[n].status # "closed"
  /\ node' = [node EXCEPT ![n].out[p] = <<[type |-> "eof"]>>,
                          ![p].out[n] = <<[type |-> "eof"]>>]
  /\ breaks' = breaks + 1
  /\ UNCHANGED sent

\* p2p_network_connect_loop connects again: new peer_connections at both ends.
\* The retry time is long enough for a pass of fetch_sync_items_loop to end.
Reconnect(n, p) ==
  /\ node[n].conn[p].status = "closed" /\ node[p].conn[n].status = "closed"
  /\ p \notin DOMAIN node[n].plan /\ n \notin DOMAIN node[p].plan
  /\ node' = [node EXCEPT ![n].conn[p] = NewConnection(FALSE), ![n].out[p] = << >>,
                          ![p].conn[n] = NewConnection(TRUE),
                          ![p].out[n] = <<[type |-> "address"]>>]
  /\ UNCHANGED <<breaks, sent>>

Init == node = [n \in Nodes |-> NewNode(n)] /\ breaks = 0 /\ sent = 0

NodeStep(n) ==
  \/ \E p \in Peers(n) : Receive(n, p)
  \/ SyncLoopPass(n)
  \/ SyncLoopRequest(n)
  \/ SyncLoopFails(n)
  \/ ItemLoop(n)
  \/ AdvertiseLoop(n)

Next ==
  \/ \E n \in Nodes : NodeStep(n)
  \/ \E m \in Mints : ProduceBlock(m[1], m[2])
  \/ \E t \in Trxs : SendTransaction(t[1], t[2])
  \/ \E l \in Outbound : Break(l[1], l[2]) \/ Reconnect(l[1], l[2])

Spec == Init /\ [][Next]_vars

(***************************************************************************)
(* Fairness: a node with a message to read or a loop to run takes a step,  *)
(* and the connect loop tries again.  CanStep is what enables NodeStep.    *)
(***************************************************************************)
CanStep(n) ==
  \/ \E p \in Peers(n) : node[n].conn[p].status # "closed" /\ node[p].out[n] # << >>
  \/ node[n].syncLoop /\ node[n].syncWake
  \/ node[n].plan # << >>
  \/ node[n].itemWake \/ node[n].cursor # 0
  \/ node[n].newInventory # {}

Fairness ==
  /\ \A n \in Nodes : []<>(~CanStep(n)) \/ []<><<NodeStep(n)>>_vars
  /\ \A l \in Outbound : WF_vars(Reconnect(l[1], l[2]))

FairSpec == Spec /\ Fairness

(***************************************************************************)
(* Properties.                                                             *)
(***************************************************************************)
Messages ==
  [type: {"address", "eof"}]
  \cup [type: {"fetch_ids"}, synopsis: Seq(Blocks)]
  \cup [type: {"ids"}, hashes: Seq(Blocks), remaining: Nat]
  \cup [type: {"fetch"}, sync: BOOLEAN, item: Items]
  \cup [type: {"item"}, item: Items]
  \cup [type: {"not_available"}, sync: BOOLEAN, item: Items]
  \cup [type: {"inventory"}, items: SUBSET Items]

Conn(l) == node[l[1]].conn[l[2]]

\* Types and ranges.  The count of blocks still to fetch stays a uint32_t although
\* process_backlog_of_sync_blocks may count it below zero, the head is linked to
\* a first block, and what a peer reports as remaining is no more than there is.
TypeOK ==
  /\ breaks \in 0..MaxBreaks /\ sent \in 0..MaxSent
  /\ \A n \in Nodes : LET s == node[n] IN
       /\ s.head \in Linked(s) \cup {0} /\ s.known \subseteq s.stored
       /\ s.total \in 0..UintMax /\ s.clock \in Nat
       /\ s.toFetch \in Seq(Items) /\ s.received \in Seq(Blocks)
       /\ \A p \in Peers(n) :
            /\ s.conn[p].status \in {"handshaking", "active", "closed"}
            /\ s.conn[p].ids \in Seq(Blocks) /\ s.conn[p].unfetched \in 0..NBlocks
            /\ \A i \in DOMAIN s.out[p] : s.out[p][i] \in Messages

\* No node disconnects a peer for its behaviour, when all run this code: nobody
\* gets a block it has not asked for, and the blocks of the backlog go to the
\* client in an order in which it can link them, whatever the order in which the
\* peers sent them and even after a connection has been lost (disconnect_from_peer
\* is called by process_block_message and process_backlog_of_sync_blocks).
NoPeerBlamed == \A n \in Nodes : node[n].blamed = {}

\* The blocks to get from a peer (ids_of_items_to_get) follow on from one another,
\* and the first follows on from a block that the client has: the answers of
\* several rounds are joined without a gap and without a repetition, and a block
\* another peer sends first leaves every list that it begins.
ListsFollowOn ==
  \A l \in Links : LET c == Conn(l) IN
    c.status = "active" /\ c.ids # << >> =>
      /\ \A i \in 1..(Len(c.ids) - 1) : Prev[c.ids[i + 1]] = c.ids[i]
      /\ Prev[c.ids[1]] \in Linked(node[l[1]]) \cup {0}

\* A peer we do not sync with (we_need_sync_items_from_peer is off) has nothing
\* that we still mean to get from it.  on_blockchain_item_ids_inventory_message checks
\* this in the one place where the flag is set for good; fetch_sync_items_loop would
\* never come back to a list left behind.
InSyncHasNothingToGet ==
  \A l \in Links : LET c == Conn(l) IN
    ~c.weNeed => c.ids = << >> /\ c.unfetched = 0 /\ c.syncRequested = {}

\* No block and no item is asked of two peers at a time, whichever of the two
\* loops asks (_active_sync_requests, and the peers' items_requested_from_peer).
\* An item asked of a peer that is gone may be asked of another, a block may not.
OneRequest ==
  \A l, k \in Links : l[1] = k[1] /\ l # k =>
    /\ Conn(l).syncRequested \cap Conn(k).syncRequested = {}
    /\ Conn(l).status # "closed" /\ Conn(k).status # "closed" =>
         Conn(l).itemsRequested \cap Conn(k).itemsRequested = {}

\* The length of the longest chain.
Best == Max({Num(node[n].head) : n \in Nodes})

\* From some point on every node has a chain of the greatest length, when blocks
\* come from several peers at a time and nobody loses a connection: every pass of
\* fetch_sync_items_loop that is needed is triggered by what comes before it.
CatchesUp == <>[](\A n \in Nodes : Num(node[n].head) = Best)

\* "ids of blocks we've requested from this peer during sync.  fetch from another
\* peer if this peer disconnects" (peer_connection): a sync block that was asked
\* for is got in the end.  It does not hold, _active_sync_requests never loses a
\* block.
RequestedIsFetched ==
  \A l \in Links : \A b \in Blocks :
    (b \in Conn(l).syncRequested) ~> (b \in node[l[1]].stored)
=============================================================================
