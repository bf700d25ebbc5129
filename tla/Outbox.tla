------------------------------- MODULE Outbox -------------------------------
(***************************************************************************)
(* The outgoing half of Keyhotee's mail client: TOutboxQueue and the       *)
(* TConnectionProcessor around it (ConnectionProcessor.cpp), with the GUI  *)
(* handlers of KeyhoteeMainWindow that share its databases.                *)
(*                                                                         *)
(* Everything runs on the GUI thread.  The two fibers (connection check    *)
(* and transmission) give up control only in fc::usleep and inside         *)
(* send_email / send_contact_request; a GUI handler runs to its end, or to *)
(* a modal question, without interruption.  What the queue tells the GUI   *)
(* goes through a FIFO of posted notifications (`notes') that the event    *)
(* loop delivers later; the ones that only write the status bar or open a  *)
(* message box are left out.  pending_db, sent_db and draft_db survive a crash; *)
(* fibers, notifications and the rows the GUI shows do not.                *)
(***************************************************************************)
EXTENDS Integers, Sequences, FiniteSets

CONSTANTS
  Identities,   \* the identities (wallet_identity) a profile may hold
  MaxMsgs,      \* bound: messages ever stored in pending_db
  MaxRcpts,     \* bound: recipients (to, cc and bcc together) of one mail
  MaxTroubles,  \* bound: disconnections, failed sends, database errors, crashes
  MaxStarts,    \* bound: starts of the program
  Hideable      \* bound: the messages whose row a search may filter out

ASSUME IdentitiesAssumption == Identities # {}
ASSUME BoundsAssumption ==
  /\ MaxMsgs \in Nat
  /\ MaxRcpts \in Nat \ {0}
  /\ MaxTroubles \in Nat
  /\ MaxStarts \in Nat \ {0}
  /\ Hideable \subseteq 1..MaxMsgs

Ids == 1..MaxMsgs

\* The content of a draft made from a row whose message is no longer in the
\* database: getMessageData hands out an empty mail.
Blank == 0

Message == [kind: {"mail", "auth"}, from: Identities, n: 0..MaxRcpts]
Note    == [type: {"pending", "sent"}, id: Ids]

VARIABLES
  (* Databases of the profile: these survive a crash. *)
  msg,         \* the messages ever stored in pending_db, in storage order
  outbox,      \* pending_db: the ids it still holds
  sent,        \* sent_db: how many copies of each id it holds
  drafts,      \* draft_db: the mails moved there from the outbox
  identities,  \* the identities of the profile
  (* The GUI. *)
  rows,        \* rows of _pending_model, the Outbox folder on the screen
  hidden,      \* the rows the search text filters out of the view
  notes,       \* notifications posted and not yet delivered
  app,         \* "running", "asking" (the quit question is open), "closing", "off"
  (* The fibers of TOutboxQueue. *)
  chk,         \* connectionCheckingLoop: "idle", "ready" or "sleep"
  txPc,        \* transmissionLoop: "idle", "ready", "send" or "sleep"
  txMsg,       \* the message being transferred in "send", else 0
  txDone,      \* recipients already served in this transfer, else 0
  txNotified,  \* notificationSent
  cancel,      \* CancelPromise->ready()
  (* The network. *)
  conn,        \* App->is_mail_connected()
  receiving,   \* ReceivingMail
  (* History, for the properties and the bounds. *)
  delivered,   \* how often each recipient of each message was sent to
  interrupted, \* ids with a transfer that ended early
  stuck,       \* ids whose OnMessageSent came while the search hid their row
  discarded,   \* ids the user deleted, and requests that went with an identity
               \* whose deletion the user confirmed
  stalled,     \* the transmission loop gave up on a database error
  troubles,
  starts

dbVars    == <<msg, outbox, sent, drafts, identities>>
txVars    == <<txPc, txMsg, txDone, txNotified>>
netVars   == <<conn, receiving>>
histVars  == <<delivered, interrupted, discarded, stalled, troubles, starts>>
vars == <<msg, outbox, sent, drafts, identities, rows, hidden, stuck, notes, app,
          chk, txPc, txMsg, txDone, txNotified, cancel, conn, receiving, delivered,
          interrupted, discarded, stalled, troubles, starts>>

-----------------------------------------------------------------------------
(* Operators the handlers share.                                           *)

Mails(box) == {i \in box : msg[i].kind = "mail"}
Auths(box) == {i \in box : msg[i].kind = "auth"}

\* Faulty variant: any queued message instead of the oldest.
IsNextAny(id) == id \in outbox

\* The next message fetchNextMessage returns: the oldest mail, and only when
\* there is none the oldest authorization message.
IsNext(id) ==
  /\ id \in outbox
  /\ IF msg[id].kind = "mail" THEN \A j \in Mails(outbox) : id <= j
                              ELSE Mails(outbox) = {} /\ \A j \in outbox : id <= j

\* findIdentityPrivateKey succeeds for the sender of the message.
HasSender(id) == msg[id].from \in identities

\* The process has a TOutboxQueue.
Alive == app # "off"

\* Faulty variant: the check is not started again.
NoNewCheck(c) == c

checkForAvailableConnection(c) == IF c = "idle" THEN "ready" ELSE c

startTransmission == txPc' = IF txPc = "idle" THEN "ready" ELSE txPc

Post(type, id) == [type |-> type, id |-> id]

\* A failure the model counts.
Trouble == troubles < MaxTroubles /\ troubles' = troubles + 1

\* AnyOperationsPending as it is written: with the loop active it tells
\* whether the queue is EMPTY.
AnyOperationsPending == txPc # "idle" /\ Mails(outbox) = {}

CanQuit == txPc = "idle" /\ ~receiving /\ ~AnyOperationsPending

-----------------------------------------------------------------------------
(* The user, through the main window.                                      *)

\* Faulty variant: the id of the message is one too small.
EnqueueOffByOne(m) ==
  /\ app = "running"
  /\ Len(msg) < MaxMsgs
  /\ m.from \in identities
  /\ msg' = Append(msg, m)
  /\ outbox' = outbox \cup {Len(msg)}
  /\ chk' = checkForAvailableConnection(chk)
  /\ UNCHANGED <<sent, drafts, identities, rows, hidden, stuck, app, txVars, cancel,
                 netVars, histVars>>

\* Both Add operations: store in pending_db and wake the connection check.
Enqueue(m) ==
  /\ app = "running"
  /\ Len(msg) < MaxMsgs
  /\ m.from \in identities
  /\ msg' = Append(msg, m)
  /\ outbox' = outbox \cup {Len(msg) + 1}
  /\ chk' = checkForAvailableConnection(chk)
  /\ UNCHANGED <<sent, drafts, identities, rows, hidden, stuck, app, txVars, cancel,
                 netVars, histVars>>

\* The editor does not insist on a recipient, so n may be 0.
AddPendingMessage(s, n) ==
  /\ Enqueue([kind |-> "mail", from |-> s, n |-> n])
  /\ notes' = Append(notes, Post("pending", Len(msg) + 1))

AddPendingAuthoMsg(s) ==
  /\ Enqueue([kind |-> "auth", from |-> s, n |-> 1])
  /\ UNCHANGED notes

\* searchEditChanged: the folder shows the rows that contain the text.  A text
\* for any choice of rows can be typed: the rows are all this model knows.
searchEditChanged ==
  /\ app = "running"
  /\ hidden' \in SUBSET (rows \cap Hideable)
  /\ UNCHANGED <<dbVars, rows, stuck, notes, app, chk, txVars, cancel, netVars, histVars>>

\* Mailbox::onDeleteMail on a row in view of the Outbox folder: row and database.
DeleteMail(id) ==
  /\ app = "running"
  /\ id \in rows \ hidden
  /\ rows' = rows \ {id}
  /\ outbox' = outbox \ {id}
  /\ discarded' = discarded \cup {id}
  /\ UNCHANGED <<msg, sent, drafts, identities, hidden, stuck, notes, app, chk, txVars, cancel,
                 netVars, delivered, interrupted, stalled, troubles, starts>>

\* What onIdentityDelete does to the mail it finds: every ROW of the identity
\* is saved as a draft under another sender and removed; authorization
\* messages are removed from the database.
RowsOf(s)  == {i \in rows : msg[i].from = s}

\* Faulty variant: the requests of the identity are left in pending_db.
NoAuthsOf(s) == {}

AuthsOf(s) == {i \in Auths(outbox) : msg[i].from = s}

DraftsFrom(moved) == {IF i \in outbox THEN i ELSE Blank : i \in moved}

DeleteIdentity(s) ==
  /\ app = "running"
  /\ s \in identities
  /\ identities # {s}
  /\ identities' = identities \ {s}
  /\ drafts' = drafts \cup DraftsFrom(RowsOf(s))
  /\ rows' = rows \ RowsOf(s)
  /\ hidden' = hidden \ RowsOf(s)
  /\ outbox' = outbox \ (RowsOf(s) \cup AuthsOf(s))
  /\ discarded' = discarded \cup AuthsOf(s)
  /\ UNCHANGED <<msg, sent, stuck, notes, app, chk, txVars, cancel, netVars,
                 delivered, interrupted, stalled, troubles, starts>>

-----------------------------------------------------------------------------
(* The event loop delivers a posted notification.                          *)

\* The new row may or may not contain the search text.
OnMessagePending(id) ==
  /\ rows' = IF id \in outbox THEN rows \cup {id} ELSE rows
  /\ hidden' \in {hidden, hidden \cup (rows' \cap {id} \cap Hideable)}
  /\ UNCHANGED <<outbox, stuck>>

\* Faulty variant: the row of a mail that has already left pending_db stays.
KeepSentRow(id) ==
  /\ rows' = rows \ (outbox \cap {id})
  /\ hidden' = hidden \cap rows'
  /\ UNCHANGED <<outbox, stuck>>

\* Mailbox::removeMessage: only a message that has a row is removed, from the
\* model and (again) from the database, and only if the filter shows the row:
\* the proxy has no index for any other one, and removes nothing.
OnMessageSent(id) ==
  /\ rows' = rows \ ({id} \ hidden)
  /\ outbox' = IF id \in rows \ hidden THEN outbox \ {id} ELSE outbox
  /\ stuck' = IF id \in hidden THEN stuck \cup {id} ELSE stuck
  /\ UNCHANGED hidden

DeliverNote ==
  /\ Alive
  /\ notes # <<>>
  /\ notes' = Tail(notes)
  /\ \/ Head(notes).type = "pending" /\ OnMessagePending(Head(notes).id)
     \/ Head(notes).type = "sent"    /\ OnMessageSent(Head(notes).id)
  /\ UNCHANGED <<msg, sent, drafts, identities, app, chk, txVars, cancel, netVars, histVars>>

-----------------------------------------------------------------------------
(* The fibers.                                                             *)

\* One round of connectionCheckingLoop: the check at the top for a fiber that
\* starts, the while condition first for one that wakes up.
CheckConnection ==
  /\ Alive
  /\ chk # "idle"
  /\ IF chk = "sleep" /\ cancel THEN chk' = "idle" /\ UNCHANGED txPc
     ELSE IF conn THEN chk' = "idle" /\ startTransmission
     ELSE chk' = "sleep" /\ UNCHANGED txPc
  /\ UNCHANGED <<dbVars, rows, hidden, stuck, notes, app, txMsg, txDone, txNotified, cancel,
                 netVars, histVars>>

\* The transmission fiber is about to evaluate the condition of its loop.
AtLoopTop == Alive /\ txPc \in {"ready", "sleep"}

FiberGone == txPc' = "idle" /\ txMsg' = 0 /\ txDone' = 0 /\ txNotified' = FALSE

LoopEnds ==
  /\ FiberGone
  /\ UNCHANGED <<dbVars, rows, hidden, stuck, notes, app, chk, cancel, netVars,
                 delivered, interrupted, discarded, starts>>

TxFinish ==
  /\ AtLoopTop
  /\ cancel \/ outbox = {}
  /\ LoopEnds
  /\ UNCHANGED <<stalled, troubles>>

\* fetchNextMessage swallows a database error and reports an empty queue.
TxFetchFails ==
  /\ AtLoopTop
  /\ ~cancel /\ outbox # {}
  /\ Trouble
  /\ stalled' = TRUE
  /\ LoopEnds

\* Faulty variant: the loop does not look at CancelPromise.
FetchedUncancelled(id) == AtLoopTop /\ IsNext(id)

\* The loop body has fetched id and found its sender.
Fetched(id) == AtLoopTop /\ ~cancel /\ IsNext(id)

TxBegin(id) ==
  /\ Fetched(id) /\ HasSender(id) /\ msg[id].n > 0 /\ conn
  /\ txPc' = "send"
  /\ txMsg' = id
  /\ txDone' = 0
  /\ txNotified' = TRUE
  /\ UNCHANGED <<dbVars, rows, hidden, stuck, notes, app, chk, cancel, netVars, histVars>>

\* Back to the end of the loop body: not cancelled, so sleep 250 ms.
LoopSleeps == txPc' = "sleep" /\ txMsg' = 0 /\ txDone' = 0 /\ txNotified' = TRUE

\* sendMail / sendAuthMsg throw before the first recipient: no connection.
TxNoConnection(id) ==
  /\ Fetched(id) /\ HasSender(id) /\ msg[id].n > 0 /\ ~conn
  /\ chk' = checkForAvailableConnection(chk)
  /\ LoopSleeps
  /\ UNCHANGED <<dbVars, rows, hidden, stuck, notes, app, cancel, netVars, histVars>>

\* A mail whose sender is gone stays at the head of the queue; an
\* authorization message whose sender is gone counts as transferred.
TxMissingSender(id) ==
  /\ Fetched(id) /\ ~HasSender(id)
  /\ outbox' = IF msg[id].kind = "mail" THEN outbox ELSE outbox \ {id}
  /\ LoopSleeps
  /\ UNCHANGED <<msg, sent, drafts, identities, rows, hidden, stuck, notes, app, chk,
                 cancel, netVars, histVars>>

\* Faulty variant: the mail is not removed from pending_db.
CopyToSentDB(id) ==
  /\ sent' = [sent EXCEPT ![id] = @ + 1]
  /\ notes' = Append(notes, Post("sent", id))
  /\ UNCHANGED outbox

\* moveMsgToSentDB: store in sent_db, post OnMessageSent, remove from pending_db.
moveMsgToSentDB(id) ==
  /\ sent' = [sent EXCEPT ![id] = @ + 1]
  /\ notes' = Append(notes, Post("sent", id))
  /\ outbox' = outbox \ {id}

\* A mail without recipients is "sent" without a connection.
TxNoRecipients(id) ==
  /\ Fetched(id) /\ HasSender(id) /\ msg[id].n = 0
  /\ moveMsgToSentDB(id)
  /\ LoopSleeps
  /\ UNCHANGED <<msg, drafts, identities, rows, hidden, stuck, app, chk, cancel,
                 netVars, histVars>>

\* What a completed transfer does to the databases.
Transferred(id) ==
  IF msg[id].kind = "mail" THEN moveMsgToSentDB(id)
  ELSE outbox' = outbox \ {id} /\ UNCHANGED <<sent, notes>>

Delivered == delivered' = [delivered EXCEPT ![txMsg][txDone + 1] = @ + 1]

\* Faulty variant: the recipients are counted one short.
LastButOne == txDone + 2 >= msg[txMsg].n

LastRecipient == txDone + 1 = msg[txMsg].n

InSend == Alive /\ txPc = "send"

\* send_email returned and another recipient follows.
TxNextRecipient ==
  /\ InSend /\ ~LastRecipient /\ conn
  /\ Delivered
  /\ txDone' = txDone + 1
  /\ UNCHANGED <<dbVars, rows, hidden, stuck, notes, app, chk, txPc, txMsg, txNotified, cancel,
                 netVars, interrupted, discarded, stalled, troubles, starts>>

\* The message has reached its last recipient.
TxTransferred ==
  /\ InSend /\ LastRecipient
  /\ Delivered
  /\ Transferred(txMsg)
  /\ LoopSleeps
  /\ UNCHANGED <<msg, drafts, identities, rows, hidden, stuck, app, chk, cancel,
                 netVars, interrupted, discarded, stalled, troubles, starts>>

\* The catch of transferMessage / transferAuthMsg: the message stays queued
\* and the connection is checked again.
TransferAborted ==
  /\ chk' = checkForAvailableConnection(chk)
  /\ LoopSleeps
  /\ interrupted' = interrupted \cup {txMsg}
  /\ UNCHANGED <<dbVars, rows, hidden, stuck, notes, app, cancel, netVars,
                 discarded, stalled, starts>>

\* send_email returned, and the connection is gone when the next one is due.
TxLostConnection ==
  /\ InSend /\ ~LastRecipient /\ ~conn
  /\ Delivered
  /\ TransferAborted
  /\ UNCHANGED troubles

\* send_email threw; the message may or may not have left.
TxSendFails ==
  /\ InSend
  /\ Trouble
  /\ Delivered \/ UNCHANGED delivered
  /\ TransferAborted

\* A database error inside moveMsgToSentDB, which only logs it: sent_db refused
\* the mail or its header, or pending_db did not let go of it.  The mail stays
\* in the outbox.
MoveFails(id) ==
  /\ Trouble
  /\ \/ UNCHANGED <<sent, notes>>
     \/ /\ sent' = [sent EXCEPT ![id] = @ + 1]
        /\ notes' \in {notes, Append(notes, Post("sent", id))}
  /\ LoopSleeps
  /\ interrupted' = interrupted \cup {id}
  /\ UNCHANGED <<msg, outbox, drafts, identities, rows, hidden, stuck, app, chk,
                 cancel, netVars, discarded, stalled, starts>>

TxStoreFails ==
  /\ InSend /\ LastRecipient /\ msg[txMsg].kind = "mail"
  /\ Delivered
  /\ MoveFails(txMsg)

TxNoRecipientsFails(id) ==
  /\ Fetched(id) /\ HasSender(id) /\ msg[id].n = 0
  /\ MoveFails(id)
  /\ UNCHANGED delivered

\* Nothing catches an error of remove_message for an authorization message that
\* was sent: the exception ends the fiber.
TxRemoveFails ==
  /\ InSend /\ msg[txMsg].kind = "auth"
  /\ Trouble
  /\ Delivered
  /\ FiberGone
  /\ interrupted' = interrupted \cup {txMsg}
  /\ stalled' = TRUE
  /\ UNCHANGED <<dbVars, rows, hidden, stuck, notes, app, chk, cancel, netVars, discarded, starts>>

-----------------------------------------------------------------------------
(* Quitting.                                                               *)

\* StopTransmission cancels both fibers and waits for them.  A fiber that
\* sleeps or has not started is unwound on the spot.  One inside send_email
\* either gets the cancellation as an exception, which transferMessage catches
\* like any other (and starts a new connection check), or sees its call return.
NothingToStop ==
  /\ txPc = "idle" /\ chk = "idle"
  /\ UNCHANGED <<dbVars, notes, chk, txVars, cancel, delivered, interrupted>>

StopsSleeping ==
  /\ txPc # "send" /\ ~(txPc = "idle" /\ chk = "idle")
  /\ chk' = "idle"
  /\ UNCHANGED <<dbVars, notes, delivered, interrupted>>

StopsSending ==
  /\ txPc = "send"
  /\ \/ \* canceled_exception, the message may or may not have left
        /\ chk' = "ready"
        /\ Delivered \/ UNCHANGED delivered
        /\ interrupted' = interrupted \cup {txMsg}
        /\ UNCHANGED <<dbVars, notes>>
     \/ \* the call returned and isCancelled() stops before the next recipient
        /\ ~LastRecipient
        /\ chk' = "idle"
        /\ Delivered
        /\ interrupted' = interrupted \cup {txMsg}
        /\ UNCHANGED <<dbVars, notes>>
     \/ \* the call to the last recipient returned
        /\ LastRecipient
        /\ chk' = "idle"
        /\ Delivered
        /\ Transferred(txMsg)
        /\ UNCHANGED <<msg, drafts, identities, interrupted>>

StopTransmission ==
  \/ NothingToStop
  \/ /\ StopsSleeping \/ StopsSending
     /\ cancel' = TRUE
     /\ FiberGone

\* closeEvent when nothing is being transmitted.  The other windows are closed
\* next; a mail editor asks a modal question first, while the fibers go on.
CloseWindow ==
  /\ app = "running"
  /\ CanQuit
  /\ app' = "closing"
  /\ UNCHANGED <<dbVars, rows, hidden, stuck, notes, chk, txVars, cancel, netVars, histVars>>

\* closeEvent when mail is being sent: the modal question of stopMailTransmission.
AskToStop ==
  /\ app = "running"
  /\ ~CanQuit /\ ~receiving
  /\ app' = "asking"
  /\ UNCHANGED <<dbVars, rows, hidden, stuck, notes, chk, txVars, cancel, netVars, histVars>>

AnswerNo ==
  /\ app = "asking"
  /\ app' = "running"
  /\ UNCHANGED <<dbVars, rows, hidden, stuck, notes, chk, txVars, cancel, netVars, histVars>>

\* CancelTransmission; then the other windows are closed.
AnswerYes ==
  /\ app = "asking"
  /\ app' = "closing"
  /\ StopTransmission
  /\ UNCHANGED <<rows, hidden, stuck, netVars, discarded, stalled, troubles, starts>>

\* A mail editor with an unsaved mail refuses to close: the program runs on.
WindowRefuses ==
  /\ app = "closing"
  /\ app' = "running"
  /\ UNCHANGED <<dbVars, rows, hidden, stuck, notes, chk, txVars, cancel, netVars, histVars>>

\* aboutToQuit deletes the main window and with it the TConnectionProcessor:
\* the Sink goes first, then TOutboxQueue::Release stops the fibers.
Release ==
  /\ app = "closing" /\ txPc # "send"
  /\ app' = "off"
  /\ StopTransmission
  /\ UNCHANGED <<rows, hidden, stuck, netVars, discarded, stalled, troubles, starts>>

-----------------------------------------------------------------------------
(* Crashes and starts.                                                     *)

\* Whatever was in memory is gone.
MemoryLost ==
  /\ app' = "off"
  /\ chk' = "idle" /\ FiberGone
  /\ rows' = {} /\ hidden' = {} /\ stuck' = {} /\ notes' = <<>>
  /\ interrupted' = IF txPc = "send" THEN interrupted \cup {txMsg} ELSE interrupted
  /\ UNCHANGED <<msg, identities, cancel, netVars, stalled, starts>>

\* Release with the fiber inside send_email: on its way out the fiber posts
\* OnMessageSent (before the mail is out of pending_db) or OnMessageSendingEnd
\* to the Sink, which is a null pointer by now.  The process dies there.
ReleaseInSend ==
  /\ app = "closing" /\ txPc = "send"
  /\ MemoryLost
  /\ \/ /\ Delivered \/ UNCHANGED delivered
        /\ UNCHANGED <<outbox, sent>>
     \/ /\ LastRecipient /\ msg[txMsg].kind = "mail"
        /\ Delivered
        /\ sent' = [sent EXCEPT ![txMsg] = @ + 1]
        /\ UNCHANGED outbox
     \/ /\ msg[txMsg].kind = "auth"
        /\ Delivered
        /\ outbox' = outbox \ {txMsg}
        /\ UNCHANGED sent
  /\ UNCHANGED <<drafts, discarded, troubles>>

Crash ==
  /\ Alive /\ Trouble
  /\ MemoryLost
  /\ UNCHANGED <<outbox, sent, drafts, delivered, discarded>>

\* Faulty variant: removed from pending_db before it is stored in sent_db.
CrashInSwappedMove ==
  /\ Trouble /\ InSend /\ LastRecipient /\ msg[txMsg].kind = "mail"
  /\ Delivered
  /\ outbox' = outbox \ {txMsg}
  /\ MemoryLost
  /\ UNCHANGED <<sent, drafts, discarded>>

\* A crash inside moveMsgToSentDB: in sent_db, not yet out of pending_db.
CrashInMove ==
  /\ Trouble /\ InSend /\ LastRecipient /\ msg[txMsg].kind = "mail"
  /\ Delivered
  /\ sent' = [sent EXCEPT ![txMsg] = @ + 1]
  /\ MemoryLost
  /\ UNCHANGED <<outbox, drafts, discarded>>

\* onIdentityDelete works from the last row upwards: the rows from r on are
\* drafts, and r itself may still be in pending_db.
SavedFrom(s, r) ==
  LET saved == {i \in RowsOf(s) : i >= r}
  IN  /\ drafts' = drafts \cup DraftsFrom(saved)
      /\ outbox' \in {outbox \ saved, outbox \ (saved \ {r})}
      /\ UNCHANGED discarded

\* All rows are drafts, and the requests up to k are out of pending_db.
RequestsGone(s, k) ==
  LET gone == {i \in AuthsOf(s) : i <= k}
  IN  /\ drafts' = drafts \cup DraftsFrom(RowsOf(s))
      /\ outbox' = outbox \ (RowsOf(s) \cup gone)
      /\ discarded' = discarded \cup gone

\* A crash inside onIdentityDelete, or after it and before removeIdentity: the
\* identity is still in the profile.
CrashInDeleteIdentity(s) ==
  /\ Trouble
  /\ app = "running" /\ s \in identities /\ identities # {s}
  /\ \/ \E r \in RowsOf(s) : SavedFrom(s, r)
     \/ \E k \in 0..Len(msg) : RequestsGone(s, k)
  /\ MemoryLost
  /\ UNCHANGED <<sent, delivered>>

\* The constructors: the Outbox folder is filled from pending_db and the
\* connection check is started for what an earlier session left behind.
Start ==
  /\ app = "off"
  /\ starts < MaxStarts
  /\ starts' = starts + 1
  /\ app' = "running"
  /\ rows' = Mails(outbox) /\ hidden' = {} /\ stuck' = {}
  /\ notes' = <<>>
  /\ chk' = "ready" /\ FiberGone
  /\ cancel' = FALSE
  /\ receiving' = FALSE
  /\ stalled' = FALSE
  /\ UNCHANGED <<dbVars, conn, delivered, interrupted, discarded, troubles>>

-----------------------------------------------------------------------------
(* The network (bts::application, outside this repository).                *)

Connect ==
  /\ ~conn
  /\ conn' = TRUE
  /\ UNCHANGED <<dbVars, rows, hidden, stuck, notes, app, chk, txVars, cancel, receiving, histVars>>

Disconnect ==
  /\ conn
  /\ conn' = FALSE
  /\ Trouble
  /\ UNCHANGED <<dbVars, rows, hidden, stuck, notes, app, chk, txVars, cancel, receiving, delivered,
                 interrupted, discarded, stalled, starts>>

receiving_mail_message ==
  /\ Alive /\ conn
  /\ receiving' = TRUE
  /\ UNCHANGED <<dbVars, rows, hidden, stuck, notes, app, chk, txVars, cancel, conn, histVars>>

message_transmission_finished ==
  /\ Alive /\ receiving
  /\ receiving' = FALSE
  /\ UNCHANGED <<dbVars, rows, hidden, stuck, notes, app, chk, txVars, cancel, conn, histVars>>

-----------------------------------------------------------------------------
Init ==
  /\ msg = <<>> /\ outbox = {} /\ sent = [i \in Ids |-> 0] /\ drafts = {}
  /\ identities = Identities
  /\ rows = {} /\ hidden = {} /\ stuck = {} /\ notes = <<>> /\ app = "running"
  /\ chk = "ready"
  /\ txPc = "idle" /\ txMsg = 0 /\ txDone = 0 /\ txNotified = FALSE
  /\ cancel = FALSE /\ conn = FALSE /\ receiving = FALSE
  /\ delivered = [i \in Ids |-> [k \in 1..MaxRcpts |-> 0]]
  /\ interrupted = {} /\ discarded = {} /\ stalled = FALSE
  /\ troubles = 0 /\ starts = 1

User ==
  \/ \E s \in Identities, n \in 0..MaxRcpts : AddPendingMessage(s, n)
  \/ \E s \in Identities : AddPendingAuthoMsg(s)
  \/ searchEditChanged
  \/ \E id \in Ids : DeleteMail(id)
  \/ \E s \in Identities : DeleteIdentity(s)
  \/ CloseWindow \/ AskToStop \/ AnswerNo \/ AnswerYes \/ WindowRefuses

Transmit ==
  \/ TxFinish \/ TxFetchFails
  \/ \E id \in Ids : \/ TxBegin(id) \/ TxNoConnection(id)
                     \/ TxMissingSender(id) \/ TxNoRecipients(id)
  \/ TxNextRecipient \/ TxTransferred \/ TxLostConnection
  \/ TxSendFails \/ TxStoreFails \/ TxRemoveFails
  \/ \E id \in Ids : TxNoRecipientsFails(id)

Process ==
  \/ Release \/ ReleaseInSend \/ Start \/ Crash \/ CrashInMove
  \/ \E s \in Identities : CrashInDeleteIdentity(s)

Network ==
  \/ Connect \/ Disconnect
  \/ receiving_mail_message \/ message_transmission_finished

Next == User \/ DeliverNote \/ CheckConnection \/ Transmit \/ Process \/ Network

Spec == Init /\ [][Next]_vars

\* The steps the fibers take on their own: the timer of KeyhoteeApplication::run
\* gives them the thread every 30 ms, and send_email eventually returns.
TransmitsOn ==
  \/ TxFinish \/ TxNextRecipient \/ TxTransferred \/ TxLostConnection
  \/ \E id \in Ids : \/ TxBegin(id) \/ TxNoConnection(id)
                     \/ TxMissingSender(id) \/ TxNoRecipients(id)

FairSpec ==
  Spec /\ WF_vars(DeliverNote) /\ WF_vars(CheckConnection) /\ WF_vars(TransmitsOn)

-----------------------------------------------------------------------------
(* Properties.                                                             *)

DbOK ==
  /\ msg \in Seq(Message) /\ Len(msg) <= MaxMsgs
  /\ outbox \subseteq 1..Len(msg)
  /\ sent \in [Ids -> Nat]
  /\ drafts \subseteq 0..Len(msg)
  /\ identities \subseteq Identities

GuiOK ==
  /\ rows \subseteq 1..Len(msg)
  /\ hidden \subseteq rows
  /\ stuck \subseteq 1..Len(msg)
  /\ notes \in Seq(Note)
  /\ app \in {"running", "asking", "closing", "off"}

FibersOK ==
  /\ chk \in {"idle", "ready", "sleep"}
  /\ txPc \in {"idle", "ready", "send", "sleep"}
  /\ txMsg \in 0..Len(msg)
  /\ txDone \in 0..MaxRcpts

FlagsOK ==
  /\ txNotified \in BOOLEAN /\ cancel \in BOOLEAN
  /\ conn \in BOOLEAN /\ receiving \in BOOLEAN /\ stalled \in BOOLEAN

HistoryOK ==
  /\ delivered \in [Ids -> [1..MaxRcpts -> Nat]]
  /\ interrupted \subseteq 1..Len(msg)
  /\ discarded \subseteq 1..Len(msg)
  /\ troubles \in 0..MaxTroubles
  /\ starts \in 1..MaxStarts

\* Type correctness of the databases, the GUI and the fibers: in particular the
\* ids in every folder are ids pending_db has handed out, and a transfer never
\* counts more recipients than a message can have.
TypeOK == DbOK /\ GuiOK /\ FibersOK /\ FlagsOK /\ HistoryOK

\* A mail accepted by Send is never lost: whatever is cancelled, fails or
\* crashes in between, it is in the Outbox, in Sent or in Drafts until the
\* user deletes it (order of the writes in moveMsgToSentDB, onIdentityDelete).
NoMailLost ==
  \A i \in 1..Len(msg) :
    msg[i].kind = "mail" =>
      i \in outbox \/ sent[i] > 0 \/ i \in drafts \/ i \in discarded

\* The Sent folder holds only mail that went to every one of its recipients,
\* although transferMessage may be interrupted between any two of them.
SentWasDelivered ==
  \A i \in 1..Len(msg) :
    sent[i] > 0 => \A k \in 1..msg[i].n : delivered[i][k] > 0

\* An authorization message leaves pending_db only when it was sent or when
\* onIdentityDelete, after the user's confirmation, took it out with those of
\* its identity (which a crash may then leave in the profile), although
\* transferAuthMsg reports success without sending when the identity is
\* missing: the requests of an identity are cleared before the identity goes.
NoRequestDropped ==
  \A i \in 1..Len(msg) :
    msg[i].kind = "auth" =>
      i \in outbox \/ delivered[i][1] > 0 \/ i \in discarded

\* A recipient gets the same mail twice only after a transfer of it ended
\* early: a failed send, a lost connection, a cancellation, a crash or a
\* database error, after which transmissionLoop starts over with everyone.
NoNeedlessResend ==
  \A i \in 1..Len(msg), k \in 1..MaxRcpts :
    delivered[i][k] > 1 => i \in interrupted

\* No lost wakeup: a queued message always has a fiber that will get to it.
\* AddPending* leave an active fiber alone, connectionCheckingLoop leaves an
\* active transmission alone, and the transmission ends on its own decision.
NeverForgotten ==
  Alive /\ outbox # {} /\ ~cancel /\ ~stalled => chk # "idle" \/ txPc # "idle"

\* Once every posted notification is delivered the Outbox folder has a row for
\* every mail in pending_db, and none for another mail unless the notification
\* that it was sent came while the search hid its row; although the fibers, the
\* user and identity deletion change the database while notifications about it
\* are still on their way.
FolderShowsOutbox ==
  Alive /\ notes = <<>> =>
    Mails(outbox) \subseteq rows /\ rows \subseteq Mails(outbox) \cup stuck

\* Mail leaves in the order in which it was queued: none is moved to Sent
\* before an older one that is still in the Outbox.
SentInOrder ==
  [][\A i \in Ids : sent'[i] > sent[i] => \A j \in Mails(outbox) : i <= j]_vars

\* A cancelled queue (StopTransmission) transmits nothing more in this session.
CancelIsFinal ==
  [][cancel /\ app' # "off" /\ app # "off" => sent' = sent /\ delivered' = delivered]_vars

\* A mail whose sender identity is gone is at the head of the queue, where
\* transferMessage leaves it.
Blocked == \E j \in Mails(outbox) : ~HasSender(j)

Drains == \A i \in Ids : i \in outbox ~> (i \notin outbox \/ Blocked)

\* With the program running and the mail server connected for good, every
\* queued message leaves the Outbox, unless a mail of a deleted identity
\* blocks the queue or the queue was cancelled or met a database error.
OutboxDrains ==
  <>[](conn /\ app = "running" /\ ~cancel /\ ~stalled) => Drains

\* What a reader of the databases sees of the messages.
Reached == [i \in Ids |-> {k \in 1..MaxRcpts : delivered[i][k] > 0}]
Filed == {i \in 1..Len(msg) : sent[i] > 0}
SavedDrafts == drafts \ {Blank}

Queue == INSTANCE MailQueue WITH queued <- outbox, reached <- Reached,
           filed <- Filed, drafts <- SavedDrafts, dropped <- discarded

\* The queue with its fibers, notifications, cancellations and crashes implements
\* the plain queue of MailQueue: a message leaves it only by reaching everyone, in
\* order, or by the user's will, and is in Sent only after that.
ImplementsMailQueue == Queue!Spec

-----------------------------------------------------------------------------
(* A claim of a comment that the code does not keep.                       *)

\* mailprocessor.hpp describes Send as "resulting in putting a message first
\* into Outbox queue and next into Sent folder".  CancelPromise is never reset,
\* so after a quit that another window refused nothing is sent any more.
SendReachesSent ==
  <>[](conn /\ app = "running" /\ ~stalled) => Drains
=============================================================================
