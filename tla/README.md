# Keyhotee: TLA+ models and proofs

Keyhotee is a Qt mail and contact client on top of the BitShares toolkit. This
directory keeps TLA+ models of its own logic beside the code: the models, the
TLC configurations that check small instances of them, and TLAPS proofs for all
instances. In this directory, `tlc -config X.cfg MCY` checks one configuration;
PROJECT.json pairs them:

| MC module | configurations |
|---|---|
| `MCOutbox` | `OutboxRestart`, `OutboxRecipients`, `OutboxLive`, `OutboxCancelSticks` |
| `MCMailFolder` | `MailFolder`, `FolderDelete` |
| `MCAuthorization` | `Authorization` |
| `MCChainDatabase` | `ChainForks`, `ChainRevert` |
| `MCNodeSync` | `NodeSync`, `NodeCatchUp`, `NodeRefetch` |

`tlapm M.tla` checks the proofs of module M: `OutboxProofs`, `OutboxDeliveryProofs`,
`ChainDatabaseProofs`, `ChainLedgerProofs`, `MailFolderProofs`, `AuthorizationProofs`,
`NodeSyncProofs` and `ProofBasics`.

## 1. Inventory of the system

### The client

| Part | State | Operations | Hard about it |
|---|---|---|---|
| Outbox queue, `TOutboxQueue` in `ConnectionProcessor.cpp` | `pending_db`, `sent_db`, two fibers (connection check, transmission), `CancelPromise` | add a mail or an authorization message; check the connection; fetch, send to each recipient, move to Sent; stop; release | fibers interleave with the user at every `usleep` and inside `send_email`; failures between recipients; crash between two database writes; a wakeup that nobody gives |
| GUI notifications, `TThreadSafeGuiNotifier` | FIFO of queued signals | post, deliver | delivered after the database has moved on; the notifier is deleted before the queue |
| Main window | rows of the folders, the modal questions | quit, delete an identity | a question is answered with what was true before it |
| Reception, `application_delegate` part of `TConnectionProcessor` | `ReceivingMail`, inbox, spam, chat and request databases, filter options | `received_email`, `received_text`, `received_request` | the filter reads the address book while the user edits it |
| Mailbox model | header cache, digest index, unread counter, the search text | add, replace, remove, mark, search | three structures kept in step by hand; rows are removed through a proxy that also filters |
| Editor and drafts | open editors, `draft_db` | save, replace, send | an editor outlives the draft it was opened from |
| Authorization | request and auth databases, status and keys of a contact | request, accept, deny, block | two clients answer each other over the unreliable mail |
| Address book and identities | contacts, identities, completer | store, delete, observers | delete-intent and delete callbacks to several observers |
| Wallets, wizard, options, vCard, attachments, viewers | forms | | mostly I/O and layout |

The components call each other directly on the GUI thread. The transmission
and checking fibers of `fc` share that thread: `KeyhoteeApplication::run` gives
them time from a 30 ms timer, and they give it back in `fc::usleep` and while
`send_email` waits. So a handler is atomic up to a modal question, and a fiber
is atomic between two such calls. What a fiber has to tell the GUI goes through
the queued connection of `TThreadSafeGuiNotifier`.

### The toolkit (`bitshares_toolkit/`)

| Part | State | Operations | Hard about it |
|---|---|---|---|
| Chain database | block records, fork data, undo states, balances and other records, pending transactions, the head | store a block, extend, pop, switch forks, evaluate a pending transaction | blocks in any order; a switch that fails half way; undo relative to an older state |
| Transaction evaluation | the pending state of one transaction | one operation after the other, fees, votes | conservation of balances |
| Peer-to-peer node | peers, item lists, requests | synchronise, request, broadcast | messages delayed and lost, several peers |
| Wallet | keys, lock, records | lock, unlock, transfer | the timeout of the lock |
| Client | delegate loop, hooks of the node | produce blocks, take in blocks and transactions | clock and chain move while it waits |
| RPC, command line, LevelDB wrappers, other chains, miner | | | |

The client's network hooks (`on_new_block`, `on_new_transaction`) call the chain
database, which runs a call to its end before the next one. PROJECT.json lists
every part with its status.

## 2. Modules and plan

| Module | Models | Composed with |
|---|---|---|
| `Outbox` | the queue, its fibers, the Outbox folder, quitting, crashes | implements `MailQueue` |
| `MailQueue` | the promise of the queue, without any of that | |
| `MailFolder` | any one folder: database, rows, selection, editors | takes over where the notifications of `Outbox` arrive |
| `Authorization` | two clients asking and answering each other | its messages travel through the queue of `Outbox` |
| `ChainDatabase` | fork choice, undo and redo, pending transactions | |
| `NodeSync` | synchronisation and gossip between nodes | uses what `ChainDatabase` says of `push_block` |
| `OutboxProofs`, `OutboxDeliveryProofs` | theorems about `Outbox`, the refinement included | |
| `ChainDatabaseProofs`, `ChainLedgerProofs` | theorems about `ChainDatabase` | |
| `MailFolderProofs` | theorems about `MailFolder` | |
| `AuthorizationProofs` | theorems about `Authorization` | |
| `NodeSyncProofs` | theorems about `NodeSync` | |
| `ProofBasics` | lemmas: least number, induction, what a function defined by recursion is, inserting in and removing from a sequence | used by `ChainLedgerProofs`, `MailFolderProofs`, `AuthorizationProofs` and `NodeSyncProofs` |

Left, in this order:

1. ChainDatabase: a crash between two writes of `extend_chain`, `generate_block`,
   genesis.
2. NodeSync: the handshake, with two nodes that dial each other at once.
3. The address book's indexes and the identity observers; the wallet's lock.

## 3. Outbox

### State

| Variable | Code |
|---|---|
| `msg` | every message ever stored in `pending_db`; its position is its id (the database orders by time) |
| `outbox`, `sent`, `drafts` | `pending_db`, `sent_db` (copies per id), the mails moved to `draft_db` |
| `identities` | `Profile->identities()` |
| `rows` | rows of `_pending_model`, the Outbox folder |
| `hidden` | the rows that the folder's proxy model filters out by the search text |
| `notes` | queued `OnMessagePending` and `OnMessageSent` |
| `app` | running, the quit question open, windows closing, process gone |
| `chk`, `txPc` | the two fibers: not there, about to run, asleep, inside `send_email` |
| `txMsg`, `txDone`, `txNotified` | locals of `transmissionLoop` and `transferMessage` |
| `cancel` | `CancelPromise->ready()` |
| `conn`, `receiving` | `App->is_mail_connected()`, `ReceivingMail` |

`delivered`, `interrupted`, `discarded`, `stalled` and `stuck` (mails whose
`OnMessageSent` came while the search hid their row) are history for the properties;
`troubles` and `starts` count what the bounds limit. A message is its kind, its sender
and its number of recipients: `to`, `cc` and `bcc` are walked the same way.

### Actions

`AddPendingMessage`, `AddPendingAuthoMsg`, `DeleteMail`, `DeleteIdentity`,
`searchEditChanged`: the user. `DeliverNote`: the event loop runs `OnMessagePending` or
`OnMessageSent` of the main window. `CheckConnection`: one round of
`connectionCheckingLoop`. `Tx...`: one stretch of `transmissionLoop` between two points
where it gives up the thread, one action per outcome (queue empty or cancelled, database
error, sender missing, no connection, no recipient, next recipient, last recipient,
failed send, failed move). `CloseWindow`, `AskToStop`, `AnswerNo`, `AnswerYes`,
`WindowRefuses`, `Release`, `ReleaseInSend`: quitting, from `closeEvent` to the
destructor. `Crash`, `CrashInMove`, `CrashInDeleteIdentity`: the process dies, also
between two writes of one handler; `Start` is the next session.

`OnMessageSent` removes the row, and the mail once more from `pending_db`, through
the proxy model of the folder (`Mailbox::removeMessage`). A row that the search text
filters out has no index there, so nothing is removed and the row stays. The crash in
`DeleteIdentity` comes after any one of its writes up to `removeIdentity`: while the
mails are saved as drafts and taken out (`SavedFrom`), or while and after the
authorization messages are taken out (`RequestsGone`), so that the identity may still
be there and its requests not. `moveMsgToSentDB` also looks the sender's identity up,
but only an `assert` uses the result.

`StopTransmission` is inlined in the two places that call it. A cancelled
fiber that sleeps ends at once; one inside `send_email` gets the cancellation
as an exception, which `transferMessage` catches like a network error and so
starts a new connection check, or sees the call return.

`ReleaseInSend` is the destructor with a transfer under way. The Sink has been
deleted and cleared by then, and every way out of `transmissionLoop` calls a
virtual function of it: the process dies on the null pointer.

The definitions marked "Faulty variant" are plausible bugs. No specification
uses them; each replaces a definition to show that a property notices.

### What the runs show

Passing:

- `outbox_restart` (2 messages, 2 identities, at most 1 recipient, 1 trouble, 2
  sessions): `TypeOK`; `NoMailLost`, a mail is in Outbox, Sent or Drafts until
  the user deletes it; `NoRequestDropped`, an authorization message disappears
  only sent or because the user deletes its identity; `NeverForgotten`, no lost wakeup;
  `FolderShowsOutbox`, with no notification under way the folder is the database, up
  to rows of sent mails that the search hid when their notification came;
  `SentInOrder`; `CancelIsFinal`.
- `outbox_recipients` (2 messages, 2 recipients, 1 trouble): `SentWasDelivered`, a
  mail in Sent reached everybody; `NoNeedlessResend`, a recipient gets a mail
  twice only after an interrupted transfer; `ImplementsMailQueue`, below.
- `outbox_live` (1 identity, 1 trouble, 1 session): `OutboxDrains`.

Violated by what the code does against its own words (PROJECT.json quotes them):

- `cancel_sticks`: after a confirmed quit that a mail editor refuses, the
  queue stays cancelled and sends nothing until the next start.

Seen in the model, without a run of their own: `OnMessageSendingEnd` ("All messages
sent.") is posted with a message still queued after a cancellation or a database
error; the `assert` in `moveMsgToSentDB` meets an identity deleted during
`send_email`; the one in `CancelTransmission` meets mail that began to arrive while
the question was open; and a transmission that begins after `CanQuit` was asked
meets the destructor (`ReleaseInSend`).

### The promise: MailQueue

`MailQueue` knows messages, who has been reached, and where a message is. It has
no fibers, notifications, cancellation or crashes: a message is accepted, reaches
its recipients in order, is filed in Sent or finished, or is taken back by the
user. `ImplementsMailQueue` maps `pending_db`, `sent_db`, the drafts and the
deliveries of `Outbox` to it. A crash between two writes shows as a filed mail that
stays queued for a while (`File` allows both, `Retire` ends it), or as a draft
whose mail is still queued (`TakeBack`); so the specification says exactly which
doubles a crash may leave and that no other exist. The history variables of
`Outbox` make the mapping a function of its state.

### Bounds

Two messages are enough for one to overtake, block or follow another, and two
identities for one to be deleted and to take over drafts. Two recipients give
a transfer a middle. One trouble (disconnection, failed send, database error,
crash) is enough for every single error path; combinations of errors come only
from the proofs, which bound nothing. Two sessions show what a restart finds.
`Hideable` names the mails a search may filter out: one of the two in `outbox_restart`
and `outbox_live`, so that a hidden and a shown row stand side by side, none in
`outbox_recipients`, whose properties are not about the folder.
Identities are interchangeable, so the safety runs use their permutations as
symmetry; the liveness runs do not. Deadlock is not checked: a program that was
quit for the last time stops.

### Fairness

`FairSpec` asks weak fairness of delivering notifications, of the connection
check and of the transmission's own steps. The timer of
`KeyhoteeApplication::run` and the event loop give each of them the thread
again and again, both sleeps are 250 ms, and `send_email` is assumed to return
or fail. Nothing is assumed of the user, of failures or of the network:
`OutboxDrains` has the connection and the running program as its premise.

### What is proved (`OutboxProofs`)

For every set of identities and all bounds, from the assumptions that there is
an identity and that the bounds are natural numbers:

- `TypeCorrect`: `Spec => []TypeOK`. `TypeOK` is not inductive: that counting a
  delivery stays in range needs `SendInv`, which says that a fiber inside
  `send_email` holds a stored message with a recipient left, and `AuthInv`.
- `NoLostWakeup`: `Spec => []NeverForgotten`. It is inductive as it stands.
- `NoMailIsLost`: `Spec => []NoMailLost`. It needs `SentNotes`: `OnMessageSent`,
  delivered late, removes the mail from `pending_db` a second time, which is
  harmless only because a posted `OnMessageSent` has a copy in `sent_db` behind it.
  `KeptByStep` reduces every action to the mails it takes out of `pending_db`.

Each proof has one step per action.

### What is proved (`OutboxDeliveryProofs`)

From the same assumptions, the other safety properties of the runs:

- `FolderCatchesUp`: `Spec => []FolderShowsOutbox`. `FolderInv` says it for the time in
  which notifications are under way: a row whose mail has left `pending_db` has an
  `OnMessageSent` queued or had it while it was hidden, a stored mail without a row has
  its `OnMessagePending` queued, and of one mail the second comes before the first.
- `SentMeansDelivered`, `RequestsAreSent`, `ResendsHaveCause`: `[]SentWasDelivered`,
  `[]NoRequestDropped`, `[]NoNeedlessResend`. The invariant `AllInv` adds that a
  transfer is of the oldest message and has reached the recipients it counts
  (`DeliverInv`), that the identity of a queued authorization message exists
  (`RequestInv`: `RequestsGone` takes the requests out before the identity, and the user
  asked for it), and that a message no transfer of which was cut short has been sent
  only to those the transfer under way has passed (`FreshInv`). `StepEffect` first sorts
  every action by what it does to the messages (`Effect`, ten cases), so that each
  invariant is proved over the cases and not over all the actions.
- `SendingOrder` and `CancelStops`: the action properties `SentInOrder` and
  `CancelIsFinal`.
- `Refinement`: `Spec => ImplementsMailQueue`, each case of `Effect` being a step of
  `MailQueue` or a stutter under the mapping.

Liveness (`OutboxDrains`) is only model-checked: fairness is out of the prover's reach.

## 4. ChainDatabase

### State

| Variable | Code |
|---|---|
| `fork` | `_fork_db`; `stored` says whether there is an entry, the other fields are those of `block_fork_data` |
| `record` | keys of `_block_id_to_block_record_db`; `_fork_number_db` lists the same blocks by number |
| `numToId` | `_block_num_to_id_db`, as a set of pairs, so that two blocks under one number would show |
| `undo` | `_undo_state_db` |
| `trxRec` | `_id_to_transaction_record_db`: no record, the transaction, or the empty record that an undo leaves |
| `coins` | `_balance_db`: the amount in each balance, 0 without a record |
| `paid` | what `pay_delegate` adds to account, votes and supply, in blocks |
| `pending`, `indexed`, `overlay` | `_pending_transaction_db`, `_pending_fee_index` and `_pending_trx_state` |
| `head` | `_head_block_id`, `_head_block_header` |
| `pc`, `mode`, `history`, `oldHead` | the call of `push_block` under way: which loop it is in, whether it switches or switches back, the rest of `get_fork_history`'s result, `current_head_id` |
| `early` | blocks whose timestamp `now()` has not reached |
| `fresh` | history: no block was popped since the pending transactions were last evaluated |

The block tree is a parameter: what each block builds on, the number its header
claims, its transactions, whether it passes the checks that concern the block
alone (signature, secret, fee rate, timestamp against its predecessor, digest),
and whether it is ahead of the clock. The theorems hold for every tree in which
no block is its own ancestor. A transaction is the amounts
it withdraws from each balance and those it deposits: a withdrawal may take a part, so
that several transactions withdraw from one balance one after the other. Its
withdrawals count before its deposits, as in the transfers of the wallet. Every
transaction withdraws something, since it pays a fee (`FeeAssumption`). Amounts are
natural numbers: that the supply stays below 2^63 is not part of the model.

### Actions

`PushBlock`: `on_new_block` and the part of `push_block` up to the choice between
extending, switching and only storing. `WalkBack`: one round of `get_fork_history`.
`PopBlock`, `PopsDone`: the first loop of `switch_to_fork`. `ExtendChain`,
`ExtendFails`, `GetBlockFails`: one round of the second loop, or the direct call, by its
outcome. `Throw` is where an exception goes: to the handler in `push_block`, which
switches back, or out of it. `StorePendingTransaction`: `on_new_transaction`. `Open`:
the process ends between any two steps, in the middle of a switch too, and the next one
opens the database: what was in memory is gone, the head is the last entry of
`_block_num_to_id_db`. The pending transactions are evaluated there before `_chain_id`
is set, with which their signatures are checked; so each of them throws, is not indexed,
and stays in `_pending_transaction_db`. `ClockCatchesUp`: time.

One call runs at a time, so an action is atomic; the steps of a call are its
loop rounds because each can end in an exception that leaves the earlier ones
done.

### What the runs show

Passing, `chain_forks`:

- `LinkedExactly`: whatever order blocks arrive in, the linked ones are those
  with an unbroken way back to the chain.
- `OneChain`: the included blocks run from the head to the base without a gap and
  the index of numbers holds exactly them, also half way through a switch and
  after a switch back that failed.
- `IncludedIsValid`: no verdict of `mark_invalid` sticks to a block of the chain.
- `RecordsMatchChain`: records with content are those of the transactions on the
  chain, and no transaction is there twice.
- `LedgerIsReplay`: balances and pay are always what applying the chain from the
  base on would give, so undo states restore what they should.
- `PendingIsNew`: no pending transaction has been applied.
- `PendingFitTogether`: the transactions that `get_pending_transactions` offers can be
  applied one after the other in some order, several withdrawals from one balance
  included, although some of them came before the head and were evaluated again in the
  order of their ids. It needs `fresh`: popping a block takes away what it deposits, and
  until the next block is applied the index may hold a transaction that spends that.
- `PushReturns`: every call returns.

Since `Open` may come between any two steps, the first six also say what the database
is worth after a crash in the middle of a switch.

Violated (PROJECT.json quotes the words they go against):

- `chain_revert`: a failed switch does not get back to the old head if a popped
  block had a transaction; the good blocks are marked invalid instead. A switch
  that fails before the first pop is "reverted" too, by popping the head and
  applying it again.

Seen in the model, without a run of their own: a block that arrives after one that
builds on it is stored and stays "unknown" (`store_and_index` overwrites the flag;
`NodeSync` models this too); and a longer good fork with a transaction in it is not
adopted, since `get_block` looks its transactions up on the current chain. After `open` none of
the stored pending transactions is offered, also those that the balances still cover
("process the pending transactions to cache by fees" is the comment there), nor are
they taken in again, until the next block has `clear_pending` evaluate them.

### Bounds

The base, the first head on it, two blocks on that head, a fork of three blocks
from it and a bad block in the fork that claims too high a number. That is the smallest
tree in which a switch pops one or several blocks, succeeds, fails at the first
or a later block, and is reverted with and without transactions. All three
transactions withdraw one unit from a balance that holds two, and 2 also spends what 3
deposits. So two of them share a balance and the third does not fit any more, and a
pending transaction is confirmed, made invalid or made possible by a block, and comes
in another order than the ids have. `Open` needs a head above the base, since what is
below the base is not modelled: a crash in the one moment when a switch back to the
first head has popped it is left out. Deadlock is
not checked: once every block has come, nothing is left to do.

### Fairness

`FairSpec` asks weak fairness of the steps of a call: a call is not interrupted
and its loops run on. Nothing is assumed of the network or the clock.

### What is proved (`ChainDatabaseProofs`)

For every block tree, set of transactions and clock, from the assumptions of
the module:

- `NoDeadEnd`: `Spec => []LinkedExactly`. The inductive invariant `TreeInv` adds
  that a predecessor's `next_blocks` has every block stored (`NextIsComplete`),
  without which closing a gap would leave linked parts out; that recorded and
  included blocks have entries (`Shape`, `RecordIsStored`); and that a block about to
  be applied has a record (`PushedIsRecorded`). The main step, `PushKeepsTree`,
  rests on `ReachFacts`, which characterises what the marking loops visit as the
  least set closed under `next_blocks`.
- `AlwaysOneChain`: `Spec => []OneChain`, and `NoTransactionTwice`:
  `Spec => []RecordsMatchChain`. `ChainInv` adds to `TreeInv` that the undo state of
  a block on the chain empties the records of its transactions (`UndoEmpties`).
  Then a pop takes off exactly the top block, an extension adds one whose
  transactions had no record, and `open` finds the head that the last process had
  (`OpenFindsHead`).

### What is proved (`ChainLedgerProofs`)

- `ChainTypeCorrect`: `Spec => []TypeOK`. It needs `HistoryInv`, that the result of
  `get_fork_history` runs down the predecessors and, while blocks are applied, its
  last one is on top of the head.
- `ChainStaysValid`: `Spec => []IncludedIsValid`. `mark_invalid` walks from the failed
  block up through `next_blocks`; `ReachMissesChain` shows that this walk meets no
  block of the chain.
- `UndoBringsBack`: `Spec => []LedgerIsReplay`. The inductive part is `UndoBrings`: the
  undo state of each block on the chain leads from the replay up to it to the replay
  up to its predecessor.
- `PendingStaysNew` and `PendingFits`: `[]PendingIsNew`, `[]PendingFitTogether`.
  `PendingInv` says that as long as `fresh` holds there is an order of the offered
  transactions in which each is covered by what the ones before it leave
  (`IsRun`, `Runs`), and that `_pending_trx_state` over the balances is what they leave
  together. `RunsAdd` puts one more at the end, `RequeuedFacts` shows that what
  `clear_pending` builds has such an order, whatever subset passes, and `RunsFit` that
  such an order is what `PendingFitTogether` asks for. `AfterFacts`, `OverFacts` and
  `ThenFacts` say what evaluating one transaction does to the amounts.

The replay, the evaluation of a list of transactions and the requeueing are functions
defined by recursion. `ProofBasics` shows that such a definition has the function it
asks for, and gives induction in the form the provers take: a set of numbers with a
least element, instead of a predicate as parameter. For the replay, a recursion along
the tree, `AcyclicAssumption` is needed: no block is its own ancestor, since its id is
a hash over that of its predecessor.

Only model-checked: `PushReturns`, which is liveness.

## 5. MailFolder

A folder is a `message_db` and the rows that `MailboxModel` keeps of it. Whoever
changes a folder from outside writes the database first and posts a notification;
the rows follow when the event loop delivers it.

### State and actions

| Variable | Code |
|---|---|
| `kind` | which folder: Inbox (Spam is the same), Outbox, Sent or Drafts |
| `box.headers`, `box.data` | the two tables of the `message_db` |
| `box.rows` | the view's rows; `key` is the row's entry in `_digest2headers`, which `replaceMessage` does not update |
| `box.hidden` | keys of the rows that the proxy model filters out by the search text |
| `box.unread`, `box.sel` | `_unread_msg_count` (unsigned, so it wraps), the selection |
| `notes` | queued `OnReceivedMailMessage`, `OnMessageSaved`, `OnMessagePending`, `OnMessageSent` |
| `editors` | open `MailEditorMainWindow`s with their `DraftMessage` |
| `asked` | the positions `onDeleteMail` holds while its question is open |
| `stored` | digests handed out |
| `missed` | history, outside Drafts: messages whose removal was announced while the search hid their row |

`Arrive`, `MoveToSent`: the network and the transmission fiber. `NewEditor`,
`OpenDraft`, `Save`, `Send`, `CloseEditor`: the editors, in Drafts. `onIdentityDelete`:
drafts saved again under another identity, mail in the Outbox removed.
`searchEditChanged`, `Select`, `onMarkAsUnreadMail`, `AskDelete`, `CancelDelete`,
`ConfirmDelete`, `ConfirmDeletePastEnd`: the user at the folder; selecting one mail
displays it and so marks it as read, also when the selection shrinks to one because a
row was removed. `DeliverNote`: the event loop. `Restart`: everything but the database
is lost.

The proxy model sorts and filters. A new row appears at any position, in the view or
out of it. A row filtered out cannot be selected, leaves the selection, and
`removeMessage`, which goes through the proxy, removes neither it nor its message from
the database; the unread counter counts it all the same. A row that the search brings
back stands where it stood: that a draft replaced meanwhile might sort elsewhere is left
out. The modal question
lets the event loop run but not the user. An index that has no row any more is
invalid and `removeRow(-1)` reads before the vector: `ConfirmDeletePastEnd` ends the
process there.

### What the runs show

- `mail_folder` passes: `StoredIsShown`, every stored mail has a row; `ShownIsStored`,
  outside Drafts and once the notifications are in, a row without its mail is one that
  the search hid when its removal came; `UnreadIsCount`, the counter outside Drafts;
  `MarksAreSaved`; `RemovalTakesEffect`, the notification that takes away a sent mail or
  its draft leaves it in the database only if the search hides its row.
- `folder_delete` is violated: the answer to the question deletes the mails that
  stand at the selected positions by then.

The exception for a search is what the code does: `removeMessage` only asserts that the
row it found in the model has an index in the proxy. In a release build the row of a
sent mail then stays in the Outbox, and the draft of a sent mail in Drafts and in the
database.

The two exceptions for Drafts are what the code does: when a draft is saved
twice before the first notification is delivered, the first row is added without
contents or left over; and the counter goes by the editor's copy of the header,
which is stale once the row has been displayed, so it drifts and can wrap.

### Bounds

Three messages, two notifications under way, one editor. The second party that writes to
Drafts is `onIdentityDelete`. Two notifications are the least with which one is
overtaken by a change of the database. `UintMax` is 4, above every correct count. A
search may hide the third message (`Hideable`), so that a hidden row and rows in the
view stand side by side; `folder_delete` needs none. The proofs have every search.
Nothing deadlocks: a restart is always possible.

### What is proved (`MailFolderProofs`)

For any number of editors, messages and notifications under way, and any counter that
can count the messages (`UintMax > MaxMsgs`): `FolderTypes`, `StoredStaysShown`,
`ShownStaysStored`, `UnreadCountRight` and `MarksStaySaved`, the five invariants of the
run, and `RemovalWorks`, the action property. None of the invariants is inductive alone.
`FolderInv` is, and has two parts:

- `Good`, of the folder by itself: no two rows share a digest or a key, the selection
  holds keys of rows, marks are those of the database, and outside Drafts the counter
  counts the unread messages. That an increment or decrement does not wrap follows from
  the row whose mark changes being counted.
- `Linked`, of the folder and the queue. What a notification adds has no row and no
  other notification yet (`Fresh`), so that a delivery is never taken for a duplicate by
  `fillMailHeader`; it carries the mark the database has, and what it replaces is gone
  from the database (`Proper`); a row whose message is gone has its removal queued or
  missed it (`RowsLeave`); a stored message has a row or its addition queued
  (`Covered`); and a removal comes behind the addition it needs (`Finds`).

Displaying, marking, searching, deleting and crashing only drop messages and change marks
(`Dropped`); storing and posting, removing and posting, and delivering are the other
kinds of step (`LinkedStores`, `LinkedRemoves`, `LinkedHandles`). The loops of
`onDeleteMail`, `onMarkAsUnreadMail` and `onIdentityDelete` are recursive functions over the
rows; `RemoveAllFacts` shows that going from the last position to the first always meets
the row meant, `SelectNextFacts` what selecting a row afterwards changes,
`PlaceFacts` that a position in the view is one of a row, and `FilteredFacts` what
applying a search text, with the selections it causes, leaves alone.

## 6. Authorization

### State and actions

| Variable | Code |
|---|---|
| `status` | `auth_status` of the other client's contact, `none` if there is none |
| `requestDb`, `authDb` | `request_db`, `auth_db` |
| `identity` | whether the client's identity exists |
| `net` | the sender's `pending_db` and the transport, in order |
| `notes`, `items` | queued `OnReceivedAuthorizationMessage`, the `AuthorizationItem`s |
| `msgs` | history: every message sent; an answer knows its request (`re`) |

`onSend`: the request dialog. `received_request`: the network, which may deliver a
message twice. `DeliverNote`: an item for a request, `processResponse` for an
answer. `Answer`: accept, deny or block, with all the writes that go with it;
`CrashInAnswer` stops after any of them and starts again. `Restart` runs
`loadStoredRequests`. `onBlockContact`, `onUnblockContact`, `AddContact`,
`onRemoveContact`, `onIdentityDelete`: the user, between any two of these.

### What the run shows

`authorization` passes: `GrantedWasAgreed`, a granted right was asked for or
granted by the other side, with the same boxes; `StoredRequestIsShown`, no stored
request is out of the user's reach; `AnsweredOnce`; `BothAgree`, what one side
accepted the other shows as accepted.

The premises of the last two are what the code needs: a crash inside an answer
leaves the request to be answered again, and when both sides ask, each ends with
the boxes of its own answer. A request with no box checked is accepted without an
effect. A response for a deleted identity stays in `request_db` and is applied
again at each start. `received_request` is modelled for every filter option; that the
status decides what is received later is so only with the options of the mail filter set.

### Bounds

Four events in all (messages, troubles, edits), of which at most one trouble and
two edits: a request, its answer, and two more events of any kind. The boxes are
chat, mail and neither; both boxes go the way of one. The two clients are
interchangeable, so their permutations are a symmetry.

### What is proved (`AuthorizationProofs`)

For all bounds and any two clients: `AuthorizationTypes`, `OnlyAgreedIsGranted`,
`RequestsStayVisible`, `OneAnswerEach` and `SidesAgree`, the five invariants of the run.
`ShapeStep` sorts the actions by what one client does (asks, receives, is notified,
reloads, replies, dies, edits); `AuthInv` is proved over these shapes:

- `GrantedWasAgreed` and `StoredRequestIsShown` are inductive next to the types.
- `AnsweredOnce` needs `OrderInv`: as long as nothing is delivered twice or cut short,
  what is on the way to a client is younger than everything in its `request_db` and in
  order; notifications and items are about stored messages, each message in at most
  one of them; and nothing stored or on the way has been answered. So an answered
  request comes back from nowhere.
- `BothAgree` needs `AgreeInv`: when only one side asks and the other shows an
  acceptance, the other side has something left to deal with, or the two states agree,
  or the last message that the asker has to deal with accepts just these boxes
  (`Settled`). Identities stay as long as there are no edits (`IdentityStays`).
- `loadStoredRequests` is a recursive function over `request_db`; `LoadFacts` says what it
  leaves of the database, the status and the items, for any number of requests.

## 7. NodeSync

### State and actions

Every node runs the same code, so the state is one record per node (`NewNode` names
the member of `node_impl` behind each field) with one record per connection
(`NewConnection`, the members of `peer_connection`). `out` holds the messages on
their way. Blocks form a given tree; the client's part (`PushBlock`, `HandleBlock`,
`GetItemIds`, `ClientSynopsis`) is what `ChainDatabase` has for valid blocks without
transactions.

`Receive` is the read loop with `on_message`: one handler to its end. `SyncLoopPass`
and `SyncLoopRequest` are the two halves of `fetch_sync_items_loop`: planning is one
step, each request another, since sending may give up the thread; `SyncLoopFails` is
a request to a peer that is gone, which ends the loop. `ItemLoop`, `AdvertiseLoop`:
one stretch of the other two. `ProduceBlock`, `SendTransaction`: the client.
`Break` loses a connection with what was under way; `Reconnect` makes it again, with
new `peer_connection`s at both ends.

A handler calls `send_message` in its middle; that this can give up the thread is
modelled only for `fetch_sync_items_loop`, where the code plans before it sends.

### What the runs show

- `node_sync` passes: `NoPeerBlamed`, nobody is disconnected for what honest nodes
  do; `InSyncHasNothingToGet`; `OneRequest`; `TypeOK`, with a counter that wraps.
  `OneRequest` lets an item, not a block, be asked of a second peer once the first is
  gone: its `items_requested_from_peer` is no longer looked at then.
- `node_catch_up` passes: `ListsFollowOn`, `CatchesUp`.
- `node_refetch` is violated: after a break a requested block is never asked for
  again, since `_active_sync_requests` keeps it.

`CatchesUp` is checked without breaks, because of `node_refetch`, and without
production, because a quiet peer may stay marked as needing items and is then not
told of a new block (a comment in `process_backlog_of_sync_blocks` says it will ask
again).

### Bounds and fairness

Three nodes in a line with the middle one connecting to both others: the least
with two sources. Three blocks; a reply lists two (`Limit`, 2000 in the code), so
that a list takes two rounds. `node_sync` has a fork, one block or transaction and
one break; `CacheDuration` is 0 there so that an advertised item is gone when it
is asked for. Deadlock is not checked: a network in sync is silent.

`FairSpec`: a node with a message to read or a loop to run takes a step again and
again, and `p2p_network_connect_loop` retries. All of these are fibers of one
thread that the scheduler runs in turn.

### What is proved (`NodeSyncProofs`)

For every network, every tree of blocks, all limits and any number of breaks:
`SyncTypes`, `NobodyBlamed`, `ListsStayChains`, `InSyncIsDone` and `AskedOnce`, the five
invariants of the runs. The assumptions are in `NodeSync`: a block has a higher number than
the one before it; there is one first block (nodes of another chain are refused by their
`chain_id`; two delegates that both produce block 1 are left out); two nodes have one
connection; there are finitely many nodes and transactions; `UintMax` is above the number
of blocks. As in the model, a connection is made again only when no request of a pass of
`fetch_sync_items_loop` is left for it.

None of the properties is inductive, so `SyncInv` says more: whether a block is unasked
for, or cannot be linked, depends on messages that were sent several steps before.

- A node by itself, `NodeInv`. What is asked of a peer, or planned for it, is in its list,
  and nothing is while ids are on their way from it (`ConnInv`): so a new list never
  replaces one with requests out. A list follows on from a linked block and leaves room
  for what the peer says remains (`ListOn`), which bounds every count. A block asked for is
  in `_active_sync_requests`, one that is only planned is not, and no two are the same
  (`Requests`); the same for the items of the other loop (`Offers`).
- A connection, `Pair`, seen from each of its ends with the messages both ways. Requests
  for ids on the way there and answers on the way back are together at most one, and none
  unless `item_ids_requested_from_peer` is set; the same for every item with its two flags
  (`IdsUnderWay`, `ItemsUnderWay`). A synopsis holds only blocks that are linked or in the
  list (`Asked`), so an answer begins at one of these or at the first block (`Told`,
  `Answer`), which is what `MergeIds` needs to join lists without a gap.

A handler is a function from a node's state to the next one. `Leads` says that the state
it ends in is good and that nothing was sent that the other end could take for an answer;
there is a lemma for each handler (`OnIdsFacts`, `OnBlockFacts`, `OnFetchIdsFacts`, ...), and
`LeadsTwice` puts stretches of them together. Loops over peers or received blocks, the
halving of the synopsis and the chains themselves are recursive functions, whose values
`ProofBasics` provides. `LocalStep`, `ReadStep` and `RenewStep` carry a step of one node, of
a reader and of both ends of a connection over to the whole network.

## 8. What is not modelled

In the toolkit: genesis (the model begins above block 1, where the first block has a
record), a crash between two writes of one block, block generation, observers,
expiration of transactions, and of the evaluation everything but balances: signatures
(but for `open`, where all fail), votes, accounts, assets, proposals, markets, and fees,
which lower the supply that `paid` stands for only in its delegate pay part.
`update_delegate_production_info`, `update_active_delegate_list` and
`update_random_seed` write records that undo restores like the others; their only check,
the delegate's secret, is in `Sound`. `update_head_block` stores the block record once
more; only its key is modelled.

In the network: the handshake before its last message, address exchange, peer
selection and limits, inactivity timeouts, bandwidth. In `NodeSync` every block and
transaction is valid, so that the handlers of a rejected one are left out. A node
remembers there all blocks it has seen, where the code keeps the last 12
(`_most_recent_blocks_accepted`): the model is faithful as long as a block does not come
again after 12 others.

In the client: the content of messages, encryption and signing; the notifications that only
inform the user; chat; the options of the mail filter; the marks on the message a
mail answers. An exception of `store_message` in `AddPendingMessage`
queues nothing and changes nothing. `bts::application`, `bts::profile`,
`message_db` and `fc` are not in this repository: the model takes from their use
that a stored message survives a crash, that a header list is ordered by time,
and that `cancel_and_wait` raises an exception at the point where a fiber waits.
The build is taken to be a release build, in which `assert` does nothing.
Everything else is listed in PROJECT.json with its reason. Most of the
repository's lines are not the program's own logic: `src/miner/sphlib-3.0` is a
vendored hash library, and the widgets, generated forms and the toolkit's other
chains have no state worth a model. That is why the modelled lines are a small
share of all lines.

Every invariant and every action property that a passing run checks is also proved.
Liveness (`OutboxDrains`, `CatchesUp`, `PushReturns`) stays with TLC: the prover has no
rules for fairness and ENABLED.
