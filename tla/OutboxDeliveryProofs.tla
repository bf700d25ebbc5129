------------------------ MODULE OutboxDeliveryProofs ------------------------
(***************************************************************************)
(* More proofs about Outbox, on top of the invariants of OutboxProofs: the *)
(* folder on the screen, what was delivered to whom, and that the outbox   *)
(* implements MailQueue.                                                   *)
(***************************************************************************)
EXTENDS OutboxProofs

-----------------------------------------------------------------------------
(* The fiber inside send_email.                                            *)

\* A cancelled queue, or a process that is gone, is not inside send_email.
SessionInv == cancel \/ app = "off" => txPc # "send"

\* Every step keeps a cancelled queue out of send_email.
LEMMA SessionStep ==
  ASSUME SessionInv, Next PROVE SessionInv'
<1> USE DEF SessionInv, dbVars, txVars, netVars, histVars
<1>1. ASSUME FiberGone PROVE SessionInv'
  BY <1>1 DEF FiberGone
<1>2. ASSUME LoopSleeps PROVE SessionInv'
  BY <1>2 DEF LoopSleeps
<1>3. ASSUME UNCHANGED <<cancel, app, txPc>> PROVE SessionInv'
  BY <1>3
<1>4. ASSUME StopTransmission PROVE SessionInv'
  BY <1>1, <1>4 DEF StopTransmission, NothingToStop
<1>5. ASSUME CheckConnection PROVE SessionInv'
  BY <1>5 DEF CheckConnection, startTransmission
<1>6. ASSUME CloseWindow \/ AskToStop \/ AnswerNo \/ WindowRefuses PROVE SessionInv'
  BY <1>6 DEF CloseWindow, AskToStop, AnswerNo, WindowRefuses
<1>7. ASSUME NEW id \in Ids, TxBegin(id) PROVE SessionInv'
  BY <1>7 DEF TxBegin, Fetched, AtLoopTop, Alive
<1>8. ASSUME User PROVE SessionInv'
  BY <1>3, <1>4, <1>6, <1>8 DEF User, AddPendingMessage, AddPendingAuthoMsg, Enqueue,
     searchEditChanged, DeleteMail, DeleteIdentity, AnswerYes
<1>9. ASSUME Transmit PROVE SessionInv'
  BY <1>1, <1>2, <1>3, <1>7, <1>9 DEF Transmit, TxFinish, TxFetchFails, LoopEnds,
     TxNoConnection, TxMissingSender, TxNoRecipients, TxNextRecipient, TxTransferred,
     TxLostConnection, TxSendFails, TxStoreFails, TxRemoveFails, TransferAborted, MoveFails,
     TxNoRecipientsFails
<1>10. ASSUME Process PROVE SessionInv'
  BY <1>1, <1>4, <1>10 DEF Process, Release, ReleaseInSend, Start, Crash, CrashInMove,
     CrashInDeleteIdentity, MemoryLost
<1>11. ASSUME DeliverNote \/ Network PROVE SessionInv'
  BY <1>3, <1>11 DEF DeliverNote, Network, Connect, Disconnect, receiving_mail_message,
     message_transmission_finished
<1> QED BY <1>5, <1>8, <1>9, <1>10, <1>11 DEF Next

-----------------------------------------------------------------------------
(* The Outbox folder on the screen.                                        *)

\* Notifications are about messages that exist, OnMessagePending about mail.
NotesKnown ==
  \A k \in 1..Len(notes) :
    /\ notes[k].id <= Len(msg)
    /\ notes[k].type = "pending" => msg[notes[k].id].kind = "mail"

\* The folder shows mail only.
RowsAreMail == \A i \in rows : msg[i].kind = "mail"

\* A row whose mail has left pending_db goes with an OnMessageSent on its way,
\* unless that came while the search hid the row.
StaleRowsGo ==
  \A i \in rows \ (outbox \cup stuck) : \E k \in 1..Len(notes) : notes[k] = Post("sent", i)

\* A mail without a row gets one with an OnMessagePending on its way.
NewMailComes ==
  \A i \in Mails(outbox) \ rows : \E k \in 1..Len(notes) : notes[k] = Post("pending", i)

\* OnMessagePending of a mail is delivered before its OnMessageSent.
PendingFirst ==
  \A k, l \in 1..Len(notes) :
    notes[k].type = "sent" /\ notes[l] = Post("pending", notes[k].id) => l < k

FolderInv ==
  /\ NotesKnown /\ RowsAreMail
  /\ Alive => StaleRowsGo /\ NewMailComes /\ PendingFirst

\* What the types say of the notifications.
LEMMA NotesType ==
  ASSUME TypeInv
  PROVE  /\ notes \in Seq(Note) /\ Len(notes) \in Nat
         /\ \A k \in 1..Len(notes) : /\ notes[k].type \in {"pending", "sent"}
                                     /\ notes[k].id \in Nat
                                     /\ notes[k] = Post(notes[k].type, notes[k].id)
<1>1. notes \in Seq(Note)
  BY DEF TypeInv, TypeOK, GuiOK
<1>2. \A k \in 1..Len(notes) : notes[k] \in Note
  BY <1>1
<1>3. \A n \in Note : n.type \in {"pending", "sent"} /\ n.id \in Nat /\ n = Post(n.type, n.id)
  BY DEF Note, Post, Ids
<1> QED BY <1>1, <1>2, <1>3

\* A step that changes neither the messages, nor the rows, nor the notifications,
\* and takes no mail out of pending_db.
LEMMA FolderSame ==
  ASSUME FolderInv, UNCHANGED <<msg, rows, stuck, notes>>, Alive' => Alive,
         outbox' = outbox \/ \E i : msg[i].kind = "auth" /\ outbox' = outbox \ {i},
         TypeInv
  PROVE  FolderInv'
<1>1. Mails(outbox)' = Mails(outbox) /\ rows \ (outbox' \cup stuck') = rows \ (outbox \cup stuck)
  BY DEF Mails, FolderInv, RowsAreMail
<1> QED BY <1>1 DEF FolderInv, NotesKnown, RowsAreMail, StaleRowsGo, NewMailComes, PendingFirst

\* Posting OnMessageSent for a mail that may have left pending_db.
LEMMA FolderPostsSent ==
  ASSUME TypeInv, FolderInv, NEW id \in 1..Len(msg), Alive' => Alive,
         UNCHANGED <<msg, rows, stuck>>, notes' = Append(notes, Post("sent", id)),
         outbox' \in {outbox, outbox \ {id}}
  PROVE  FolderInv'
<1> DEFINE n == Len(notes)
<1>1. n \in Nat /\ notes \in Seq(Note)
  BY NotesType
<1>2. /\ Len(notes') = n + 1 /\ notes'[n + 1] = Post("sent", id)
      /\ \A k \in 1..n : notes'[k] = notes[k]
  BY <1>1
<1>3. \A k \in 1..Len(notes') : k \in 1..n \/ k = n + 1
  BY <1>1, <1>2
<1>4. Post("sent", id).type = "sent" /\ Post("sent", id).id = id
      /\ \A i : Post("sent", id) # Post("pending", i)
  BY DEF Post
<1>5. 1..n \subseteq 1..Len(notes') /\ n + 1 \in 1..Len(notes')
  BY <1>1, <1>2
<1> HIDE DEF n
<1>6. NotesKnown'
  BY <1>2, <1>3, <1>4 DEF FolderInv, NotesKnown, n
<1>7. RowsAreMail'
  BY DEF FolderInv, RowsAreMail
<1>8. ASSUME Alive PROVE StaleRowsGo'
  <2> SUFFICES ASSUME NEW i \in rows' \ (outbox' \cup stuck')
               PROVE  \E k \in 1..Len(notes') : notes'[k] = Post("sent", i)
    BY DEF StaleRowsGo
  <2>1. CASE i = id
    BY <1>2, <1>5, <2>1
  <2>2. CASE i # id
    <3>1. i \in rows \ (outbox \cup stuck)
      BY <2>2
    <3>2. PICK k \in 1..n : notes[k] = Post("sent", i)
      BY <1>8, <3>1 DEF FolderInv, StaleRowsGo, n
    <3> QED BY <1>2, <1>5, <3>2
  <2> QED BY <2>1, <2>2
<1>9. ASSUME Alive PROVE NewMailComes'
  <2> SUFFICES ASSUME NEW i \in Mails(outbox)' \ rows'
               PROVE  \E k \in 1..Len(notes') : notes'[k] = Post("pending", i)
    BY DEF NewMailComes
  <2>1. i \in Mails(outbox) \ rows
    BY DEF Mails
  <2>2. PICK k \in 1..n : notes[k] = Post("pending", i)
    BY <1>9, <2>1 DEF FolderInv, NewMailComes, n
  <2> QED BY <1>2, <1>5, <2>2
<1>10. ASSUME Alive PROVE PendingFirst'
  <2> SUFFICES ASSUME NEW k \in 1..Len(notes'), NEW l \in 1..Len(notes'),
                      notes'[k].type = "sent", notes'[l] = Post("pending", notes'[k].id)
               PROVE  l < k
    BY DEF PendingFirst
  <2>1. l \in 1..n
    BY <1>2, <1>3, <1>4
  <2>2. CASE k = n + 1
    BY <1>1, <2>1, <2>2 DEF n
  <2>3. CASE k \in 1..n
    BY <1>2, <1>10, <2>1, <2>3 DEF FolderInv, PendingFirst, n
  <2> QED BY <1>3, <2>2, <2>3
<1> QED BY <1>6, <1>7, <1>8, <1>9, <1>10 DEF FolderInv

\* Queueing a message, which posts OnMessagePending for a mail.
LEMMA FolderAccepts ==
  ASSUME TypeInv, FolderInv, NEW m \in Message, Enqueue(m),
         \/ m.kind = "auth" /\ notes' = notes
         \/ m.kind = "mail" /\ notes' = Append(notes, Post("pending", Len(msg) + 1))
  PROVE  FolderInv'
<1> DEFINE n == Len(notes)
           new == Len(msg) + 1
<1>1. n \in Nat /\ notes \in Seq(Note) /\ Len(msg) \in Nat /\ msg \in Seq(Message)
  BY NotesType DEF TypeInv, TypeOK, DbOK
<1>2. /\ Len(msg') = new /\ msg'[new] = m
      /\ \A i \in 1..Len(msg) : msg'[i] = msg[i]
      /\ outbox' = outbox \cup {new} /\ rows' = rows /\ stuck' = stuck /\ app' = app
  BY <1>1 DEF Enqueue
<1>3. rows \subseteq 1..Len(msg) /\ outbox \subseteq 1..Len(msg) /\ new \notin 1..Len(msg)
  BY <1>1 DEF TypeInv, TypeOK, DbOK, GuiOK
<1>4. RowsAreMail'
  BY <1>2, <1>3 DEF FolderInv, RowsAreMail
<1>5. Mails(outbox)' = Mails(outbox) \cup (IF m.kind = "mail" THEN {new} ELSE {})
  BY <1>2, <1>3 DEF Mails
<1>6. rows' \ (outbox' \cup stuck') = rows \ (outbox \cup stuck)
  BY <1>2, <1>3
<1>7. \A k \in 1..n : notes[k].id \in 1..Len(msg)
  <2>1. \A k \in 1..n : notes[k] \in Note /\ notes[k].id <= Len(msg)
    BY <1>1 DEF FolderInv, NotesKnown
  <2> QED BY <1>1, <2>1 DEF Note, Ids
<1>8. CASE m.kind = "auth" /\ notes' = notes
  <2>1. NotesKnown'
    BY <1>1, <1>2, <1>7, <1>8 DEF FolderInv, NotesKnown
  <2>2. Mails(outbox)' = Mails(outbox)
    BY <1>5, <1>8
  <2> QED BY <1>2, <1>4, <1>6, <1>8, <2>1, <2>2
      DEF FolderInv, StaleRowsGo, NewMailComes, PendingFirst, Alive
<1>9. CASE m.kind = "mail" /\ notes' = Append(notes, Post("pending", new))
  <2>1. /\ Len(notes') = n + 1 /\ notes'[n + 1] = Post("pending", new)
        /\ \A k \in 1..n : notes'[k] = notes[k]
    BY <1>1, <1>9
  <2>2. \A k \in 1..Len(notes') : k \in 1..n \/ k = n + 1
    BY <1>1, <2>1
  <2>3. 1..n \subseteq 1..Len(notes') /\ n + 1 \in 1..Len(notes')
    BY <1>1, <2>1
  <2>4. /\ Post("pending", new).type = "pending" /\ Post("pending", new).id = new
        /\ \A i : Post("pending", i) = Post("pending", new) => i = new
    BY DEF Post
  <2> HIDE DEF n, new
  <2>5. NotesKnown'
    <3> SUFFICES ASSUME NEW k \in 1..Len(notes')
                 PROVE  /\ notes'[k].id <= Len(msg')
                        /\ notes'[k].type = "pending" => msg'[notes'[k].id].kind = "mail"
      BY DEF NotesKnown
    <3>1. CASE k = n + 1
      BY <1>1, <1>2, <1>9, <2>1, <2>4, <3>1 DEF new
    <3>2. CASE k \in 1..n
      <4>1. notes[k].id \in 1..Len(msg) /\ notes'[k] = notes[k]
        BY <1>7, <2>1, <3>2
      <4>2. notes[k].type = "pending" => msg[notes[k].id].kind = "mail"
        BY <3>2 DEF FolderInv, NotesKnown, n
      <4> QED BY <1>1, <1>2, <4>1, <4>2 DEF new
    <3> QED BY <2>2, <3>1, <3>2
  <2>6. ASSUME Alive PROVE StaleRowsGo'
    <3> SUFFICES ASSUME NEW i \in rows \ (outbox \cup stuck)
                 PROVE  \E k \in 1..Len(notes') : notes'[k] = Post("sent", i)
      BY <1>6 DEF StaleRowsGo
    <3>1. PICK k \in 1..n : notes[k] = Post("sent", i)
      BY <2>6 DEF FolderInv, StaleRowsGo, n
    <3> QED BY <2>1, <2>3, <3>1
  <2>7. ASSUME Alive PROVE NewMailComes'
    <3> SUFFICES ASSUME NEW i \in Mails(outbox)' \ rows'
                 PROVE  \E k \in 1..Len(notes') : notes'[k] = Post("pending", i)
      BY DEF NewMailComes
    <3>1. CASE i = new
      BY <2>1, <2>3, <3>1
    <3>2. CASE i # new
      <4>1. i \in Mails(outbox) \ rows
        BY <1>2, <1>5, <3>2
      <4>2. PICK k \in 1..n : notes[k] = Post("pending", i)
        BY <2>7, <4>1 DEF FolderInv, NewMailComes, n
      <4> QED BY <2>1, <2>3, <4>2
    <3> QED BY <3>1, <3>2
  <2>8. ASSUME Alive PROVE PendingFirst'
    <3> SUFFICES ASSUME NEW k \in 1..Len(notes'), NEW l \in 1..Len(notes'),
                        notes'[k].type = "sent", notes'[l] = Post("pending", notes'[k].id)
                 PROVE  l < k
      BY DEF PendingFirst
    <3>1. k \in 1..n /\ notes'[k] = notes[k]
      BY <2>1, <2>2, <2>4
    <3>2. notes[k].id # new
      BY <1>3, <1>7, <3>1
    <3>3. l \in 1..n /\ notes'[l] = notes[l]
      BY <2>1, <2>2, <2>4, <3>1, <3>2
    <3> QED BY <2>8, <3>1, <3>3 DEF FolderInv, PendingFirst, n
  <2> QED BY <1>2, <1>4, <2>5, <2>6, <2>7, <2>8 DEF FolderInv, Alive
<1> QED BY <1>8, <1>9

\* A message is a mail or an authorization message.
LEMMA KindOf ==
  ASSUME TypeInv, NEW i \in 1..Len(msg)
  PROVE  msg[i] \in Message /\ (msg[i].kind = "mail" \/ msg[i].kind = "auth")
<1>1. msg[i] \in Message
  BY DEF TypeInv, TypeOK, DbOK
<1> QED BY <1>1 DEF Message

\* The user takes rows off the folder and the mail out of pending_db, together
\* with authorization messages.
LEMMA FolderRemoves ==
  ASSUME TypeInv, FolderInv, NEW R, NEW A,
         UNCHANGED <<msg, stuck, notes, app>>,
         rows' = rows \ R, outbox' = outbox \ (R \cup A), A \subseteq Auths(outbox)
  PROVE  FolderInv'
<1>1. \A i \in A : msg[i].kind = "auth"
  BY DEF Auths
<1>2. rows' \ (outbox' \cup stuck') \subseteq rows \ (outbox \cup stuck)
  BY <1>1 DEF FolderInv, RowsAreMail
<1>3. Mails(outbox)' \ rows' \subseteq Mails(outbox) \ rows
  BY DEF Mails
<1> QED BY <1>2, <1>3
    DEF FolderInv, NotesKnown, RowsAreMail, StaleRowsGo, NewMailComes, PendingFirst, Alive

\* The event loop delivers a notification.
LEMMA FolderDelivers ==
  ASSUME TypeInv, FolderInv, DeliverNote
  PROVE  FolderInv'
<1> DEFINE n == Len(notes)
           id == notes[1].id
<1>1. n \in Nat /\ notes \in Seq(Note) /\ notes # <<>> /\ Alive
  BY NotesType DEF DeliverNote
<1>2. n >= 1 /\ 1 \in 1..n /\ Head(notes) = notes[1]
  BY <1>1
<1>3. /\ notes' = Tail(notes) /\ Len(notes') = n - 1
      /\ \A k \in 1..(n - 1) : notes'[k] = notes[k + 1]
  BY <1>1, <1>2 DEF DeliverNote
<1>4. \A k \in 1..Len(notes') : k + 1 \in 1..n /\ notes'[k] = notes[k + 1]
  BY <1>1, <1>3
<1>5. \A k \in 1..n : k = 1 \/ (k - 1 \in 1..Len(notes') /\ notes'[k - 1] = notes[k])
  BY <1>1, <1>3
<1>6. UNCHANGED <<msg, app>>
  BY DEF DeliverNote
<1>7. notes[1] = Post(notes[1].type, id)
  BY <1>2, NotesType
<1>8. NotesKnown'
  BY <1>4, <1>6 DEF FolderInv, NotesKnown
<1>9. PendingFirst'
  <2> SUFFICES ASSUME NEW k \in 1..Len(notes'), NEW l \in 1..Len(notes'),
                      notes'[k].type = "sent", notes'[l] = Post("pending", notes'[k].id)
               PROVE  l < k
    BY DEF PendingFirst
  <2>1. k + 1 \in 1..n /\ notes'[k] = notes[k + 1] /\ l + 1 \in 1..n /\ notes'[l] = notes[l + 1]
    BY <1>4
  <2>2. l + 1 < k + 1
    BY <1>1, <2>1 DEF FolderInv, PendingFirst
  <2> QED BY <1>1, <1>3, <2>2
<1>10. \A t, u, i, j : Post(t, i) = Post(u, j) => t = u /\ i = j
  BY DEF Post
<1> HIDE DEF n
<1>11. CASE notes[1].type = "pending"
  <2>1. /\ rows' = (IF id \in outbox THEN rows \cup {id} ELSE rows) /\ outbox' = outbox
        /\ stuck' = stuck
    BY <1>2, <1>11 DEF DeliverNote, OnMessagePending
  <2>2. msg[id].kind = "mail"
    BY <1>2, <1>11 DEF FolderInv, NotesKnown, n
  <2>3. RowsAreMail'
    BY <1>6, <2>1, <2>2 DEF FolderInv, RowsAreMail
  <2>4. StaleRowsGo'
    <3> SUFFICES ASSUME NEW i \in rows' \ (outbox' \cup stuck')
                 PROVE  \E k \in 1..Len(notes') : notes'[k] = Post("sent", i)
      BY DEF StaleRowsGo
    <3>1. i \in rows \ (outbox \cup stuck)
      BY <2>1
    <3>2. PICK k \in 1..n : notes[k] = Post("sent", i)
      BY <1>1, <3>1 DEF FolderInv, StaleRowsGo, n
    <3>3. k # 1
      BY <1>7, <1>10, <1>11, <3>2
    <3> QED BY <1>5, <3>2, <3>3
  <2>5. NewMailComes'
    <3> SUFFICES ASSUME NEW i \in Mails(outbox)' \ rows'
                 PROVE  \E k \in 1..Len(notes') : notes'[k] = Post("pending", i)
      BY DEF NewMailComes
    <3>1. i \in Mails(outbox) \ rows /\ i # id
      BY <1>6, <2>1 DEF Mails
    <3>2. PICK k \in 1..n : notes[k] = Post("pending", i)
      BY <1>1, <3>1 DEF FolderInv, NewMailComes, n
    <3>3. k # 1
      BY <1>7, <1>10, <3>1, <3>2
    <3> QED BY <1>5, <3>2, <3>3
  <2> QED BY <1>8, <1>9, <2>3, <2>4, <2>5 DEF FolderInv
<1>12. CASE notes[1].type = "sent"
  <2>1. /\ rows' = rows \ ({id} \ hidden)
        /\ outbox' = IF id \in rows \ hidden THEN outbox \ {id} ELSE outbox
        /\ stuck' = IF id \in hidden THEN stuck \cup {id} ELSE stuck
    BY <1>2, <1>12 DEF DeliverNote, OnMessageSent
  <2>2. RowsAreMail'
    BY <1>6, <2>1 DEF FolderInv, RowsAreMail
  <2>3. StaleRowsGo'
    <3> SUFFICES ASSUME NEW i \in rows' \ (outbox' \cup stuck')
                 PROVE  \E k \in 1..Len(notes') : notes'[k] = Post("sent", i)
      BY DEF StaleRowsGo
    <3>1. i \in rows \ (outbox \cup stuck) /\ i # id
      BY <2>1
    <3>2. PICK k \in 1..n : notes[k] = Post("sent", i)
      BY <1>1, <3>1 DEF FolderInv, StaleRowsGo, n
    <3>3. k # 1
      BY <1>7, <1>10, <3>1, <3>2
    <3> QED BY <1>5, <3>2, <3>3
  <2>4. NewMailComes'
    <3> SUFFICES ASSUME NEW i \in Mails(outbox)' \ rows'
                 PROVE  \E k \in 1..Len(notes') : notes'[k] = Post("pending", i)
      BY DEF NewMailComes
    <3>1. i \in Mails(outbox)
      BY <1>6, <2>1 DEF Mails
    <3>2. CASE i \in rows
      <4>1. i = id /\ i \notin outbox'
        BY <2>1, <3>2
      <4> QED BY <4>1 DEF Mails
    <3>3. CASE i \notin rows
      <4>1. PICK k \in 1..n : notes[k] = Post("pending", i)
        BY <1>1, <3>1, <3>3 DEF FolderInv, NewMailComes, n
      <4>2. k # 1
        BY <1>7, <1>10, <1>12, <4>1
      <4> QED BY <1>5, <4>1, <4>2
    <3> QED BY <3>2, <3>3
  <2> QED BY <1>8, <1>9, <2>2, <2>3, <2>4 DEF FolderInv
<1> QED BY <1>2, <1>11, <1>12 DEF DeliverNote

\* What is posted and shown when the process ends, or begins.
LEMMA FolderRestarts ==
  ASSUME TypeInv, FolderInv, msg' = msg, notes' = <<>>,
         \/ app' = "off" /\ rows' = {}
         \/ rows' = Mails(outbox) /\ outbox' = outbox
  PROVE  FolderInv'
BY DEF FolderInv, NotesKnown, RowsAreMail, StaleRowsGo, NewMailComes, PendingFirst, Alive, Mails

\* Stopping the fibers posts OnMessageSent if the last recipient was served.
LEMMA FolderStops ==
  ASSUME TypeInv, FolderInv, StopTransmission, UNCHANGED <<rows, stuck>>, Alive
  PROVE  FolderInv'
<1>1. CASE NothingToStop \/ StopsSleeping
  BY <1>1, FolderSame DEF NothingToStop, StopsSleeping, dbVars
<1>2. CASE StopsSending
  <2>1. txMsg \in 1..Len(msg)
    BY <1>2, InHand DEF StopsSending
  <2>2. CASE UNCHANGED <<dbVars, notes>>
    BY <2>2, FolderSame DEF dbVars
  <2>3. CASE Transferred(txMsg) /\ msg' = msg
    <3>1. CASE msg[txMsg].kind = "mail"
      BY <2>1, <2>3, <3>1, FolderPostsSent DEF Transferred, moveMsgToSentDB
    <3>2. CASE msg[txMsg].kind # "mail"
      <4>1. msg[txMsg].kind = "auth"
        BY <2>1, <3>2, KindOf
      <4> QED BY <2>3, <3>2, <4>1, FolderSame DEF Transferred
    <3> QED BY <3>1, <3>2
  <2> QED BY <1>2, <2>2, <2>3 DEF StopsSending
<1> QED BY <1>1, <1>2 DEF StopTransmission

\* Every step keeps the folder and the notifications in line with pending_db.
LEMMA FolderStep ==
  ASSUME TypeInv, FolderInv, Next PROVE FolderInv'
<1> USE DEF dbVars
<1>1. ASSUME UNCHANGED <<msg, outbox, rows, stuck, notes>>, Alive' => Alive PROVE FolderInv'
  BY <1>1, FolderSame
<1>2. ASSUME NEW s \in Identities, NEW n \in 0..MaxRcpts, AddPendingMessage(s, n) PROVE FolderInv'
  BY <1>2, FolderAccepts DEF AddPendingMessage, Message
<1>3. ASSUME NEW s \in Identities, AddPendingAuthoMsg(s) PROVE FolderInv'
  <2>1. [kind |-> "auth", from |-> s, n |-> 1] \in Message
    BY BoundsAssumption DEF Message
  <2> QED BY <1>3, <2>1, FolderAccepts DEF AddPendingAuthoMsg
<1>4. ASSUME NEW id \in Ids, DeleteMail(id) PROVE FolderInv'
  <2> DEFINE R == {id}
             A == {}
  <2>1. outbox' = outbox \ (R \cup A) /\ A \subseteq Auths(outbox) /\ rows' = rows \ R
    BY <1>4 DEF DeleteMail
  <2>2. UNCHANGED <<msg, stuck, notes, app>>
    BY <1>4 DEF DeleteMail
  <2> HIDE DEF R, A
  <2> QED BY <2>1, <2>2, FolderRemoves
<1>5. ASSUME NEW s \in Identities, DeleteIdentity(s) PROVE FolderInv'
  BY <1>5, FolderRemoves DEF DeleteIdentity, AuthsOf
<1>6. ASSUME CloseWindow \/ AskToStop \/ AnswerNo \/ WindowRefuses PROVE FolderInv'
  BY <1>1, <1>6 DEF CloseWindow, AskToStop, AnswerNo, WindowRefuses, Alive
<1>7. ASSUME AnswerYes \/ Release PROVE FolderInv'
  BY <1>7, FolderStops DEF AnswerYes, Release, Alive
<1>20. ASSUME searchEditChanged PROVE FolderInv'
  BY <1>1, <1>20 DEF searchEditChanged, Alive
<1>8. ASSUME User PROVE FolderInv'
  BY <1>20, <1>2, <1>3, <1>4, <1>5, <1>6, <1>7, <1>8 DEF User
<1>9. ASSUME NEW id \in Ids, TxMissingSender(id) PROVE FolderInv'
  <2>1. id \in 1..Len(msg)
    BY <1>9 DEF TxMissingSender, Fetched, IsNext, TypeInv, TypeOK, DbOK
  <2> QED BY <1>9, <2>1, KindOf, FolderSame DEF TxMissingSender, Alive
<1>10. ASSUME NEW id \in Ids, TxNoRecipients(id) PROVE FolderInv'
  <2>1. id \in 1..Len(msg)
    BY <1>10 DEF TxNoRecipients, Fetched, IsNext, TypeInv, TypeOK, DbOK
  <2> QED BY <1>10, <2>1, FolderPostsSent DEF TxNoRecipients, moveMsgToSentDB, Alive
<1>11. ASSUME TxTransferred PROVE FolderInv'
  <2>1. txMsg \in 1..Len(msg)
    BY <1>11, InHand DEF TxTransferred, InSend
  <2>2. CASE msg[txMsg].kind = "mail"
    BY <1>11, <2>1, <2>2, FolderPostsSent DEF TxTransferred, Transferred, moveMsgToSentDB, Alive
  <2>3. CASE msg[txMsg].kind # "mail"
    <3>1. msg[txMsg].kind = "auth"
      BY <2>1, <2>3, KindOf
    <3> QED BY <1>11, <2>3, <3>1, FolderSame DEF TxTransferred, Transferred, Alive
  <2> QED BY <2>2, <2>3
<1>12. ASSUME NEW id \in 1..Len(msg), MoveFails(id) PROVE FolderInv'
  <2>1. CASE notes' = notes
    BY <1>1, <1>12, <2>1 DEF MoveFails, Alive
  <2>2. CASE notes' = Append(notes, Post("sent", id))
    BY <1>12, <2>2, FolderPostsSent DEF MoveFails, Alive
  <2> QED BY <1>12, <2>1, <2>2 DEF MoveFails
<1>13. ASSUME TxStoreFails PROVE FolderInv'
  BY <1>12, <1>13, InHand DEF TxStoreFails, InSend
<1>14. ASSUME NEW id \in Ids, TxNoRecipientsFails(id) PROVE FolderInv'
  <2>1. id \in 1..Len(msg)
    BY <1>14 DEF TxNoRecipientsFails, Fetched, IsNext, TypeInv, TypeOK, DbOK
  <2> QED BY <1>12, <1>14, <2>1 DEF TxNoRecipientsFails
<1>15. ASSUME Transmit PROVE FolderInv'
  BY <1>1, <1>9, <1>10, <1>11, <1>13, <1>14, <1>15 DEF Transmit, TxFinish, TxFetchFails,
     LoopEnds, TxBegin, TxNoConnection, TxNextRecipient, TxLostConnection, TxSendFails,
     TransferAborted, TxRemoveFails, Alive
<1>16. ASSUME MemoryLost PROVE FolderInv'
  BY <1>16, FolderRestarts DEF MemoryLost
<1>17. ASSUME Start PROVE FolderInv'
  BY <1>17, FolderRestarts DEF Start
<1>18. ASSUME Process PROVE FolderInv'
  BY <1>7, <1>16, <1>17, <1>18 DEF Process, ReleaseInSend, Crash, CrashInMove, CrashInDeleteIdentity
<1>19. ASSUME CheckConnection \/ Network PROVE FolderInv'
  BY <1>1, <1>19 DEF CheckConnection, Network, Connect, Disconnect, receiving_mail_message,
     message_transmission_finished, Alive
<1> QED BY <1>8, <1>15, <1>18, <1>19, FolderDelivers DEF Next

\* Once the notifications are delivered the folder has a row for every mail of
\* pending_db, and of others only those whose OnMessageSent came while the search
\* hid them, whatever the fibers, the user and the deletion of identities did in
\* the meantime.
THEOREM FolderCatchesUp == Spec => []FolderShowsOutbox
<1>1. Init => FolderInv
  BY DEF Init, FolderInv, NotesKnown, RowsAreMail, StaleRowsGo, NewMailComes, PendingFirst, Mails
<1>2. TypeInv /\ FolderInv /\ [Next]_vars => TypeInv' /\ FolderInv'
  <2>1. TypeInv /\ FolderInv /\ UNCHANGED vars => TypeInv' /\ FolderInv'
    BY DEF vars, TypeInv, TypeOK, DbOK, GuiOK, FibersOK, FlagsOK, HistoryOK, SendInv, AuthInv,
       FolderInv, NotesKnown, RowsAreMail, StaleRowsGo, NewMailComes, PendingFirst, Mails, Alive
  <2> QED BY <2>1, TypeStep, FolderStep
<1>3. FolderInv => FolderShowsOutbox
  <2> SUFFICES ASSUME FolderInv, Alive, notes = <<>>
               PROVE  Mails(outbox) \subseteq rows /\ rows \subseteq Mails(outbox) \cup stuck
    BY DEF FolderShowsOutbox
  <2>1. \A k \in 1..Len(notes) : FALSE
    OBVIOUS
  <2>2. rows \subseteq outbox \cup stuck
    BY <2>1 DEF FolderInv, StaleRowsGo
  <2>3. Mails(outbox) \subseteq rows
    BY <2>1 DEF FolderInv, NewMailComes
  <2> QED BY <2>2, <2>3 DEF FolderInv, RowsAreMail, Mails
<1> QED BY TypeInit, <1>1, <1>2, <1>3, PTL DEF Spec

-----------------------------------------------------------------------------
(* What a step can do to the messages, whatever fiber, handler or failure  *)
(* it comes from.                                                          *)

BaseInv == SafeInv /\ SessionInv /\ FolderInv

\* A transfer under way stays as it is, and none begins.
SendSame ==
  /\ txPc' = "send" <=> txPc = "send"
  /\ txPc = "send" => UNCHANGED <<txMsg, txDone>>

Quiet == SendSame /\ UNCHANGED <<dbVars, delivered, interrupted, discarded>>

Accepts ==
  /\ \E m \in Message : Enqueue(m) /\ (m.kind = "auth" => m.n = 1)
  /\ SendSame /\ UNCHANGED <<delivered, interrupted, discarded>>

\* A transfer that is under way does not outlive the step, and is noted.
CutShort ==
  /\ txPc' # "send"
  /\ interrupted' = IF txPc = "send" THEN interrupted \cup {txMsg} ELSE interrupted

\* The user deletes messages or an identity, perhaps with a crash half way.
UserTakes ==
  /\ UNCHANGED <<msg, sent, delivered>>
  /\ (SendSame /\ interrupted' = interrupted) \/ CutShort
  /\ outbox' \subseteq outbox
  /\ \A i \in outbox \ outbox' : i \in discarded' \/ (i \in drafts' /\ i \in rows)
  /\ drafts \subseteq drafts' /\ discarded \subseteq discarded'
  /\ \A i \in Auths(outbox') : HasSender(i) => msg[i].from \in identities'

\* The copy of a mail in sent_db leaves pending_db with its row.
NoteRemoves ==
  /\ SendSame
  /\ \E id \in rows : sent[id] > 0 /\ outbox' = outbox \ {id}
  /\ UNCHANGED <<msg, sent, drafts, identities, delivered, interrupted, discarded>>

Begins == \E id \in Ids : TxBegin(id)

Serves == TxNextRecipient

Completes ==
  /\ txPc = "send" /\ LastRecipient
  /\ Delivered /\ Transferred(txMsg)
  /\ txPc' # "send"
  /\ UNCHANGED <<msg, drafts, identities, interrupted, discarded>>

Aborts ==
  /\ txPc = "send" /\ CutShort
  /\ \/ (Delivered \/ UNCHANGED delivered) /\ UNCHANGED <<outbox, sent>>
     \/ /\ LastRecipient /\ msg[txMsg].kind = "mail" /\ Delivered
        /\ sent' = [sent EXCEPT ![txMsg] = @ + 1] /\ UNCHANGED outbox
     \/ /\ msg[txMsg].kind = "auth" /\ Delivered
        /\ outbox' = outbox \ {txMsg} /\ UNCHANGED sent
  /\ UNCHANGED <<msg, drafts, identities, discarded>>

\* A mail without recipients goes to sent_db, or fails to.
FilesEmpty(id) ==
  /\ IsNext(id) /\ msg[id].n = 0 /\ ~cancel
  /\ txPc # "send" /\ txPc' # "send"
  /\ \/ UNCHANGED <<sent, outbox>>
     \/ sent' = [sent EXCEPT ![id] = @ + 1] /\ outbox' \in {outbox, outbox \ {id}}
  /\ interrupted' \in {interrupted, interrupted \cup {id}}
  /\ UNCHANGED <<msg, drafts, identities, delivered, discarded>>

\* An authorization message whose sender is gone is dropped.
DropsRequest(id) ==
  /\ id \in outbox /\ msg[id].kind = "auth" /\ ~HasSender(id)
  /\ outbox' = outbox \ {id}
  /\ SendSame
  /\ UNCHANGED <<msg, sent, drafts, identities, delivered, interrupted, discarded>>

Effect ==
  \/ Quiet \/ Accepts \/ UserTakes \/ NoteRemoves
  \/ Begins \/ Serves \/ Completes \/ Aborts
  \/ \E id \in Ids : FilesEmpty(id) \/ DropsRequest(id)

\* Stopping the fibers completes or cuts short the transfer under way.
LEMMA StopEffect ==
  ASSUME BaseInv, StopTransmission, discarded' = discarded PROVE Effect
<1>1. CASE NothingToStop
  BY <1>1 DEF NothingToStop, Effect, Quiet, SendSame, txVars
<1>2. CASE StopsSleeping /\ FiberGone
  BY <1>2 DEF StopsSleeping, FiberGone, Effect, Quiet, SendSame
<1>3. CASE StopsSending /\ FiberGone
  BY <1>3 DEF StopsSending, FiberGone, Effect, Completes, Aborts, CutShort, dbVars
<1> QED BY <1>1, <1>2, <1>3 DEF StopTransmission

\* Every step has one of these effects.
LEMMA StepEffect ==
  ASSUME BaseInv, Next PROVE Effect
<1> USE DEF dbVars, histVars, txVars, BaseInv
<1>1. ASSUME NEW s \in Identities, NEW n \in 0..MaxRcpts, AddPendingMessage(s, n) PROVE Effect
  <2>1. [kind |-> "mail", from |-> s, n |-> n] \in Message
    BY DEF Message
  <2>2. UNCHANGED <<txPc, txMsg, txDone, delivered, interrupted, discarded>>
    BY <1>1 DEF AddPendingMessage, Enqueue
  <2> QED BY <1>1, <2>1, <2>2 DEF AddPendingMessage, Effect, Accepts, SendSame
<1>2. ASSUME NEW s \in Identities, AddPendingAuthoMsg(s) PROVE Effect
  <2>1. [kind |-> "auth", from |-> s, n |-> 1] \in Message
    BY BoundsAssumption DEF Message
  <2>2. UNCHANGED <<txPc, txMsg, txDone, delivered, interrupted, discarded>>
    BY <1>2 DEF AddPendingAuthoMsg, Enqueue
  <2> QED BY <1>2, <2>1, <2>2 DEF AddPendingAuthoMsg, Effect, Accepts, SendSame
<1>3. ASSUME NEW id \in Ids, DeleteMail(id) PROVE Effect
  BY <1>3 DEF DeleteMail, Effect, UserTakes, SendSame, HasSender
<1>4. ASSUME NEW s \in Identities, DeleteIdentity(s) PROVE Effect
  <2>1. \A i \in outbox \ outbox' : i \in discarded' \/ (i \in drafts' /\ i \in rows)
    BY <1>4, DraftsKeep DEF DeleteIdentity, RowsOf
  <2>2. \A i \in Auths(outbox') : HasSender(i) => msg[i].from \in identities'
    BY <1>4 DEF DeleteIdentity, HasSender, Auths, AuthsOf
  <2> QED BY <1>4, <2>1, <2>2 DEF DeleteIdentity, Effect, UserTakes, SendSame
<1>5. ASSUME CloseWindow \/ AskToStop \/ AnswerNo \/ WindowRefuses PROVE Effect
  BY <1>5 DEF CloseWindow, AskToStop, AnswerNo, WindowRefuses, Effect, Quiet, SendSame
<1>6. ASSUME AnswerYes \/ Release PROVE Effect
  BY <1>6, StopEffect DEF AnswerYes, Release
<1>24. ASSUME searchEditChanged PROVE Effect
  BY <1>24 DEF searchEditChanged, Effect, Quiet, SendSame
<1>7. ASSUME User PROVE Effect
  BY <1>24, <1>1, <1>2, <1>3, <1>4, <1>5, <1>6, <1>7 DEF User
<1>8. ASSUME DeliverNote PROVE Effect
  <2>1. notes \in Seq(Note) /\ 1 \in 1..Len(notes) /\ Head(notes) = notes[1]
    BY <1>8 DEF DeliverNote, SafeInv, TypeInv, TypeOK, GuiOK
  <2>2. Head(notes).type = "sent" => sent[Head(notes).id] > 0
    BY <2>1 DEF SafeInv, SentNotes
  <2>3. UNCHANGED <<msg, sent, drafts, identities, txPc, txMsg, txDone, delivered, interrupted, discarded>>
    BY <1>8 DEF DeliverNote
  <2>4. outbox' = outbox \/ \E id \in rows : sent[id] > 0 /\ outbox' = outbox \ {id}
    BY <1>8, <2>2 DEF DeliverNote, OnMessagePending, OnMessageSent
  <2> QED BY <2>3, <2>4 DEF Effect, Quiet, NoteRemoves, SendSame
<1>9. ASSUME CheckConnection PROVE Effect
  BY <1>9 DEF CheckConnection, startTransmission, Effect, Quiet, SendSame
<1>10. ASSUME TxFinish \/ TxFetchFails PROVE Effect
  BY <1>10 DEF TxFinish, TxFetchFails, LoopEnds, FiberGone, AtLoopTop, Effect, Quiet, SendSame
<1>11. ASSUME NEW id \in Ids, TxNoConnection(id) PROVE Effect
  BY <1>11 DEF TxNoConnection, LoopSleeps, Fetched, AtLoopTop, Effect, Quiet, SendSame
<1>12. ASSUME NEW id \in Ids, TxMissingSender(id) PROVE Effect
  <2>1. id \in outbox /\ ~HasSender(id) /\ txPc # "send" /\ txPc' # "send"
    BY <1>12 DEF TxMissingSender, LoopSleeps, Fetched, AtLoopTop, IsNext
  <2>2. msg[id].kind = "mail" \/ msg[id].kind = "auth"
    BY <2>1, KindOf DEF SafeInv, TypeInv, TypeOK, DbOK
  <2> QED BY <1>12, <2>1, <2>2 DEF TxMissingSender, Effect, Quiet, DropsRequest, SendSame
<1>13. ASSUME NEW id \in Ids, TxNoRecipients(id) \/ TxNoRecipientsFails(id) PROVE Effect
  <2>1. FilesEmpty(id)
    BY <1>13 DEF TxNoRecipients, TxNoRecipientsFails, MoveFails, moveMsgToSentDB, LoopSleeps,
       Fetched, AtLoopTop, FilesEmpty
  <2> QED BY <2>1 DEF Effect
<1>14. ASSUME TxTransferred PROVE Effect
  BY <1>14 DEF TxTransferred, InSend, LoopSleeps, Effect, Completes
<1>15. ASSUME TxLostConnection \/ TxSendFails PROVE Effect
  BY <1>15 DEF TxLostConnection, TxSendFails, InSend, TransferAborted, LoopSleeps, Effect, Aborts, CutShort
<1>16. ASSUME TxStoreFails \/ TxRemoveFails PROVE Effect
  BY <1>16 DEF TxStoreFails, TxRemoveFails, MoveFails, InSend, LoopSleeps, FiberGone, Effect, Aborts, CutShort
<1>17. ASSUME Transmit PROVE Effect
  BY <1>10, <1>11, <1>12, <1>13, <1>14, <1>15, <1>16, <1>17 DEF Transmit, Effect, Begins, Serves
<1>18. ASSUME ReleaseInSend \/ CrashInMove PROVE Effect
  BY <1>18 DEF ReleaseInSend, CrashInMove, InSend, MemoryLost, FiberGone, Effect, Aborts, CutShort
<1>19. ASSUME Crash PROVE Effect
  <2>1. CASE txPc = "send"
    BY <1>19, <2>1 DEF Crash, MemoryLost, FiberGone, Effect, Aborts, CutShort
  <2>2. CASE txPc # "send"
    BY <1>19, <2>2 DEF Crash, MemoryLost, FiberGone, Effect, Quiet, SendSame
  <2> QED BY <2>1, <2>2
<1>20. ASSUME NEW s \in Identities, CrashInDeleteIdentity(s) PROVE Effect
  <2> DEFINE Kept == /\ outbox' \subseteq outbox /\ drafts \subseteq drafts'
                     /\ discarded \subseteq discarded'
                     /\ \A i \in outbox \ outbox' :
                          i \in discarded' \/ (i \in drafts' /\ i \in rows)
  <2>1. ASSUME NEW r, SavedFrom(s, r) PROVE Kept
    BY <2>1, DraftsKeep DEF SavedFrom, RowsOf
  <2>2. ASSUME NEW k, RequestsGone(s, k) PROVE Kept
    BY <2>2, DraftsKeep DEF RequestsGone, RowsOf
  <2>3. Kept
    BY <1>20, <2>1, <2>2 DEF CrashInDeleteIdentity
  <2>4. UNCHANGED <<msg, sent, delivered, identities>> /\ CutShort
    BY <1>20 DEF CrashInDeleteIdentity, MemoryLost, FiberGone, CutShort
  <2> QED BY <2>3, <2>4 DEF Effect, UserTakes, HasSender
<1>21. ASSUME Start PROVE Effect
  BY <1>21 DEF Start, FiberGone, SessionInv, Effect, Quiet, SendSame
<1>22. ASSUME Process PROVE Effect
  BY <1>6, <1>18, <1>19, <1>20, <1>21, <1>22 DEF Process
<1>23. ASSUME Network PROVE Effect
  BY <1>23 DEF Network, Connect, Disconnect, receiving_mail_message,
     message_transmission_finished, Effect, Quiet, SendSame
<1> QED BY <1>7, <1>8, <1>9, <1>17, <1>22, <1>23 DEF Next

-----------------------------------------------------------------------------
(* What was delivered.                                                     *)

\* The mail being sent is the oldest in pending_db.
Oldest ==
  txPc = "send" /\ msg[txMsg].kind = "mail" => \A j \in Mails(outbox) : txMsg <= j

\* The recipients counted so far have been sent to.
Served == txPc = "send" => \A k \in 1..txDone : delivered[txMsg][k] > 0

\* Only recipients of a message are sent to.
OnlyRecipients ==
  \A i \in Ids, k \in 1..MaxRcpts : delivered[i][k] > 0 => i <= Len(msg) /\ k <= msg[i].n

\* Only messages that exist are in sent_db.
SentKnown == \A i \in Ids : sent[i] > 0 => i <= Len(msg)

DeliverInv == Oldest /\ Served /\ OnlyRecipients /\ SentKnown /\ SentWasDelivered

\* What the types say of a message and its counts.
LEMMA CountsType ==
  ASSUME TypeInv
  PROVE  /\ Len(msg) \in Nat /\ 1..Len(msg) \subseteq Ids
         /\ \A i \in 1..Len(msg) : msg[i].n \in 0..MaxRcpts
         /\ \A i \in Ids, k \in 1..MaxRcpts : delivered[i][k] \in Nat
         /\ \A i \in Ids : sent[i] \in Nat
<1>1. Len(msg) \in Nat /\ 1..Len(msg) \subseteq Ids
  BY BoundsAssumption DEF TypeInv, TypeOK, DbOK, Ids
<1>2. \A i \in 1..Len(msg) : msg[i].n \in 0..MaxRcpts
  BY KindOf DEF Message
<1>3. \A i \in Ids, k \in 1..MaxRcpts : delivered[i][k] \in Nat
  BY DEF TypeInv, TypeOK, HistoryOK
<1>4. \A i \in Ids : sent[i] \in Nat
  BY DEF TypeInv, TypeOK, DbOK
<1> QED BY <1>1, <1>2, <1>3, <1>4

\* A delivery counts for one recipient of the message in transfer.
LEMMA DeliveredFacts ==
  ASSUME TypeInv, txPc = "send", Delivered
  PROVE  /\ delivered'[txMsg][txDone + 1] = delivered[txMsg][txDone + 1] + 1
         /\ \A i \in Ids, k \in 1..MaxRcpts :
              ~(i = txMsg /\ k = txDone + 1) => delivered'[i][k] = delivered[i][k]
<1>1. delivered \in [Ids -> [1..MaxRcpts -> Nat]]
  BY DEF TypeInv, TypeOK, HistoryOK
<1>2. txMsg \in Ids /\ txDone + 1 \in 1..MaxRcpts
  BY InHand
<1>3. delivered'[txMsg] = [delivered[txMsg] EXCEPT ![txDone + 1] = @ + 1]
      /\ \A i \in Ids : i # txMsg => delivered'[i] = delivered[i]
  BY <1>1, <1>2 DEF Delivered
<1> QED BY <1>1, <1>2, <1>3

\* A new message leaves the others as they are.
LEMMA AcceptFacts ==
  ASSUME TypeInv, Accepts
  PROVE  /\ Len(msg') = Len(msg) + 1
         /\ \A i \in 1..Len(msg) : msg'[i] = msg[i]
         /\ outbox' = outbox \cup {Len(msg) + 1}
         /\ UNCHANGED <<sent, drafts, identities, delivered, interrupted, discarded>>
         /\ Len(msg) + 1 \in Ids
         /\ msg'[Len(msg) + 1].from \in identities
         /\ \E m \in Message : msg' = Append(msg, m) /\ (m.kind = "auth" => m.n = 1)
<1>1. PICK m \in Message : Enqueue(m) /\ (m.kind = "auth" => m.n = 1)
  BY DEF Accepts
<1>2. msg \in Seq(Message) /\ Len(msg) \in Nat
  BY DEF TypeInv, TypeOK, DbOK
<1>3. msg' = Append(msg, m) /\ outbox' = outbox \cup {Len(msg) + 1} /\ Len(msg) < MaxMsgs
      /\ m.from \in identities
  BY <1>1 DEF Enqueue
<1>4. /\ Len(msg') = Len(msg) + 1 /\ msg'[Len(msg) + 1] = m
      /\ \A i \in 1..Len(msg) : msg'[i] = msg[i]
  BY <1>2, <1>3
<1>5. Len(msg) + 1 \in Ids
  BY <1>2, <1>3, BoundsAssumption DEF Ids
<1>6. UNCHANGED <<sent, drafts, identities, delivered, interrupted, discarded>>
  BY <1>1 DEF Accepts, Enqueue
<1> QED BY <1>1, <1>3, <1>4, <1>5, <1>6

\* The mail being sent stays the oldest.
LEMMA OldestStep ==
  ASSUME TypeInv, Oldest, Effect PROVE Oldest'
<1> USE DEF Oldest
<1>1. ASSUME txPc' # "send" PROVE Oldest'
  BY <1>1
<1>2. ASSUME msg' = msg, outbox' \subseteq outbox, SendSame PROVE Oldest'
  BY <1>2 DEF SendSame, Mails
<1>3. ASSUME Accepts PROVE Oldest'
  <2>1. SendSame
    BY <1>3 DEF Accepts
  <2> SUFFICES ASSUME txPc = "send", msg'[txMsg].kind = "mail", NEW j \in Mails(outbox)'
               PROVE  txMsg <= j
    BY <2>1 DEF SendSame
  <2>2. txMsg \in 1..Len(msg) /\ Len(msg) \in Nat
    BY InHand, CountsType
  <2>3. msg[txMsg].kind = "mail"
    BY <1>3, <2>2, AcceptFacts
  <2>4. CASE j = Len(msg) + 1
    BY <2>2, <2>4
  <2>5. CASE j # Len(msg) + 1
    <3>1. j \in outbox /\ j \in 1..Len(msg)
      BY <1>3, <2>5, AcceptFacts DEF Mails, TypeInv, TypeOK, DbOK
    <3>2. j \in Mails(outbox)
      BY <1>3, <3>1, AcceptFacts DEF Mails
    <3> QED BY <2>3, <3>2
  <2> QED BY <2>4, <2>5
<1>4. ASSUME NEW id \in Ids, TxBegin(id) PROVE Oldest'
  BY <1>4 DEF TxBegin, Fetched, IsNext, dbVars, Mails
<1>5. ASSUME Quiet \/ UserTakes \/ NoteRemoves PROVE Oldest'
  BY <1>1, <1>2, <1>5 DEF Quiet, UserTakes, CutShort, NoteRemoves, dbVars
<1>6. ASSUME NEW id \in Ids, FilesEmpty(id) \/ DropsRequest(id) PROVE Oldest'
  BY <1>1, <1>2, <1>6 DEF FilesEmpty, DropsRequest
<1>7. ASSUME Serves PROVE Oldest'
  BY <1>7 DEF Serves, TxNextRecipient, dbVars, Mails
<1>8. ASSUME Completes \/ Aborts PROVE Oldest'
  BY <1>1, <1>8 DEF Completes, Aborts, CutShort
<1> QED BY <1>3, <1>4, <1>5, <1>6, <1>7, <1>8 DEF Effect, Begins

\* The counts never go down, and go up only for a recipient.
LEMMA CountsStep ==
  ASSUME TypeInv, OnlyRecipients, Effect
  PROVE  /\ OnlyRecipients'
         /\ \A i \in Ids, k \in 1..MaxRcpts : delivered[i][k] > 0 => delivered'[i][k] > 0
<1>1. /\ Len(msg) \in Nat /\ 1..Len(msg) \subseteq Ids
      /\ \A i \in Ids, k \in 1..MaxRcpts : delivered[i][k] \in Nat
  BY CountsType
<1>2. ASSUME delivered' = delivered, msg' = msg
      PROVE  /\ OnlyRecipients'
             /\ \A i \in Ids, k \in 1..MaxRcpts : delivered[i][k] > 0 => delivered'[i][k] > 0
  BY <1>2 DEF OnlyRecipients
<1>3. ASSUME Accepts
      PROVE  /\ OnlyRecipients'
             /\ \A i \in Ids, k \in 1..MaxRcpts : delivered[i][k] > 0 => delivered'[i][k] > 0
  <2>1. delivered' = delivered /\ Len(msg') = Len(msg) + 1 /\ \A i \in 1..Len(msg) : msg'[i] = msg[i]
    BY <1>3, AcceptFacts
  <2>2. ASSUME NEW i \in Ids, NEW k \in 1..MaxRcpts, delivered'[i][k] > 0
        PROVE  i <= Len(msg') /\ k <= msg'[i].n
    <3>1. i <= Len(msg) /\ k <= msg[i].n
      BY <2>1, <2>2 DEF OnlyRecipients
    <3>2. i \in 1..Len(msg)
      BY <1>1, <3>1 DEF Ids
    <3> QED BY <1>1, <2>1, <3>1, <3>2
  <2> QED BY <2>1, <2>2 DEF OnlyRecipients
<1>4. ASSUME txPc = "send", Delivered, msg' = msg
      PROVE  /\ OnlyRecipients'
             /\ \A i \in Ids, k \in 1..MaxRcpts : delivered[i][k] > 0 => delivered'[i][k] > 0
  <2>1. txMsg \in 1..Len(msg) /\ txDone \in Nat /\ txDone + 1 <= msg[txMsg].n /\ txDone + 1 \in 1..MaxRcpts
    BY <1>4, InHand
  <2>2. /\ delivered'[txMsg][txDone + 1] = delivered[txMsg][txDone + 1] + 1
        /\ \A i \in Ids, k \in 1..MaxRcpts :
              ~(i = txMsg /\ k = txDone + 1) => delivered'[i][k] = delivered[i][k]
    BY <1>4, DeliveredFacts
  <2>3. ASSUME NEW i \in Ids, NEW k \in 1..MaxRcpts
        PROVE  /\ delivered'[i][k] > 0 => i <= Len(msg) /\ k <= msg[i].n
               /\ delivered[i][k] > 0 => delivered'[i][k] > 0
    <3>1. CASE i = txMsg /\ k = txDone + 1
      BY <1>1, <2>1, <2>2, <3>1
    <3>2. CASE ~(i = txMsg /\ k = txDone + 1)
      BY <2>2, <3>2 DEF OnlyRecipients
    <3> QED BY <3>1, <3>2
  <2> QED BY <1>4, <2>3 DEF OnlyRecipients
<1>5. Accepts \/ (delivered' = delivered /\ msg' = msg) \/ (txPc = "send" /\ Delivered /\ msg' = msg)
  BY DEF Effect, Quiet, UserTakes, NoteRemoves, Begins, TxBegin, Serves, TxNextRecipient, InSend,
     Completes, Aborts, FilesEmpty, DropsRequest, dbVars, histVars
<1> QED BY <1>2, <1>3, <1>4, <1>5

\* The recipients counted so far have been sent to, after every step too.
LEMMA ServedStep ==
  ASSUME TypeInv, Served, OnlyRecipients, Effect PROVE Served'
<1> USE DEF Served
<1>1. ASSUME txPc' # "send" PROVE Served'
  BY <1>1
<1>2. ASSUME SendSame, delivered' = delivered PROVE Served'
  BY <1>2 DEF SendSame
<1>3. ASSUME NEW id \in Ids, TxBegin(id) PROVE Served'
  BY <1>3 DEF TxBegin
<1>4. ASSUME Serves PROVE Served'
  <2>1. /\ txPc = "send" /\ txPc' = "send" /\ txMsg' = txMsg /\ txDone' = txDone + 1 /\ Delivered
    BY <1>4 DEF Serves, TxNextRecipient, InSend
  <2>2. txMsg \in Ids /\ txDone \in Nat /\ txDone + 1 \in 1..MaxRcpts
    BY <2>1, InHand
  <2> SUFFICES ASSUME NEW k \in 1..(txDone + 1) PROVE delivered'[txMsg][k] > 0
    BY <2>1
  <2>3. k \in 1..MaxRcpts
    BY <2>2, BoundsAssumption
  <2>4. CASE k = txDone + 1
    BY <2>1, <2>2, <2>4, DeliveredFacts, CountsType
  <2>5. CASE k # txDone + 1
    <3>1. k \in 1..txDone
      BY <2>2, <2>5
    <3>2. delivered[txMsg][k] > 0
      BY <2>1, <3>1
    <3> QED BY <2>2, <2>3, <3>2, CountsStep
  <2> QED BY <2>4, <2>5
<1>5. ASSUME Quiet \/ Accepts \/ UserTakes \/ NoteRemoves PROVE Served'
  BY <1>1, <1>2, <1>5 DEF Quiet, Accepts, UserTakes, CutShort, NoteRemoves
<1>6. ASSUME NEW id \in Ids, FilesEmpty(id) \/ DropsRequest(id) PROVE Served'
  BY <1>1, <1>2, <1>6 DEF FilesEmpty, DropsRequest
<1>7. ASSUME Completes \/ Aborts PROVE Served'
  BY <1>1, <1>7 DEF Completes, Aborts, CutShort
<1> QED BY <1>3, <1>4, <1>5, <1>6, <1>7 DEF Effect, Begins

\* When the last recipient has been sent to, everyone has.
LEMMA EveryoneServed ==
  ASSUME TypeInv, Served, OnlyRecipients, Effect, txPc = "send", LastRecipient, Delivered
  PROVE  \A k \in 1..msg[txMsg].n : delivered'[txMsg][k] > 0
<1>1. /\ txMsg \in Ids /\ txDone \in Nat /\ txDone + 1 \in 1..MaxRcpts
      /\ msg[txMsg].n = txDone + 1
  BY InHand DEF LastRecipient
<1> SUFFICES ASSUME NEW k \in 1..(txDone + 1) PROVE delivered'[txMsg][k] > 0
  BY <1>1
<1>2. k \in 1..MaxRcpts
  BY <1>1, BoundsAssumption
<1>3. CASE k = txDone + 1
  BY <1>1, <1>3, DeliveredFacts, CountsType
<1>4. CASE k # txDone + 1
  <2>1. k \in 1..txDone
    BY <1>1, <1>4
  <2>2. delivered[txMsg][k] > 0
    BY <2>1 DEF Served
  <2> QED BY <1>1, <1>2, <2>2, CountsStep
<1> QED BY <1>3, <1>4

\* What a step adds to sent_db: nothing, or one copy of a mail that has been sent
\* to everyone and that was the oldest in pending_db.
LEMMA FilingFacts ==
  ASSUME TypeInv, Oldest, Served, OnlyRecipients, Effect
  PROVE  \/ sent' = sent
         \/ \E id \in 1..Len(msg) :
              /\ sent' = [sent EXCEPT ![id] = @ + 1]
              /\ msg' = msg /\ msg[id].kind = "mail"
              /\ \A k \in 1..msg[id].n : delivered'[id][k] > 0
              /\ \A j \in Mails(outbox) : id <= j
              /\ outbox' \in {outbox, outbox \ {id}}
              /\ UNCHANGED <<drafts, identities, discarded>>
<1> DEFINE Goal ==
      \/ sent' = sent
      \/ \E id \in 1..Len(msg) :
           /\ sent' = [sent EXCEPT ![id] = @ + 1]
           /\ msg' = msg /\ msg[id].kind = "mail"
           /\ \A k \in 1..msg[id].n : delivered'[id][k] > 0
           /\ \A j \in Mails(outbox) : id <= j
           /\ outbox' \in {outbox, outbox \ {id}}
           /\ UNCHANGED <<drafts, identities, discarded>>
<1>1. ASSUME Quiet \/ Accepts \/ UserTakes \/ NoteRemoves \/ Begins \/ Serves PROVE Goal
  BY <1>1, AcceptFacts DEF Quiet, UserTakes, NoteRemoves, Begins, TxBegin, Serves, TxNextRecipient, dbVars
<1>2. ASSUME NEW id \in Ids, DropsRequest(id) PROVE Goal
  BY <1>2 DEF DropsRequest
<1>3. ASSUME NEW id \in Ids, FilesEmpty(id) PROVE Goal
  <2>1. id \in 1..Len(msg) /\ msg[id].n = 0 /\ IsNext(id)
    BY <1>3 DEF FilesEmpty, IsNext, TypeInv, TypeOK, DbOK
  <2>2. msg[id].kind = "mail"
    BY <2>1, KindOf DEF TypeInv, AuthInv
  <2>3. \A k \in 1..msg[id].n : delivered'[id][k] > 0
    BY <2>1
  <2>4. \A j \in Mails(outbox) : id <= j
    BY <2>1, <2>2 DEF IsNext
  <2> QED BY <1>3, <2>1, <2>2, <2>3, <2>4 DEF FilesEmpty
<1>4. ASSUME txPc = "send", LastRecipient, Delivered, msg[txMsg].kind = "mail",
             sent' = [sent EXCEPT ![txMsg] = @ + 1], outbox' \in {outbox, outbox \ {txMsg}},
             UNCHANGED <<msg, drafts, identities, discarded>>
      PROVE  Goal
  BY <1>4, InHand, EveryoneServed DEF Oldest
<1>5. ASSUME Completes PROVE Goal
  BY <1>4, <1>5 DEF Completes, Transferred, moveMsgToSentDB
<1>6. ASSUME Aborts PROVE Goal
  BY <1>4, <1>6 DEF Aborts
<1> QED BY <1>1, <1>2, <1>3, <1>5, <1>6 DEF Effect

\* Every step keeps what is said of deliveries.
LEMMA DeliverStep ==
  ASSUME TypeInv, TypeInv', DeliverInv, Effect PROVE DeliverInv'
<1>1. Oldest' /\ Served' /\ OnlyRecipients'
  BY OldestStep, ServedStep, CountsStep DEF DeliverInv
<1>2. SentWasDelivered'
  <2>1. /\ Len(msg) \in Nat /\ 1..Len(msg) \subseteq Ids
        /\ \A i \in 1..Len(msg) : msg[i].n \in 0..MaxRcpts
    BY CountsType
  <2>2. \A i \in Ids, k \in 1..MaxRcpts : delivered[i][k] > 0 => delivered'[i][k] > 0
    BY CountsStep DEF DeliverInv
  <2>3. ASSUME NEW i \in 1..Len(msg), sent[i] > 0
        PROVE  \A k \in 1..msg[i].n : delivered'[i][k] > 0
    <3>1. \A k \in 1..msg[i].n : delivered[i][k] > 0 /\ k \in 1..MaxRcpts
      BY <2>1, <2>3, BoundsAssumption DEF DeliverInv, SentWasDelivered
    <3> QED BY <2>1, <2>2, <3>1
  <2>4. CASE sent' = sent /\ msg' = msg
    BY <2>3, <2>4 DEF SentWasDelivered
  <2>5. CASE \E id \in 1..Len(msg) :
               /\ sent' = [sent EXCEPT ![id] = @ + 1] /\ msg' = msg
               /\ \A k \in 1..msg[id].n : delivered'[id][k] > 0
    <3>1. PICK id \in 1..Len(msg) :
               /\ sent' = [sent EXCEPT ![id] = @ + 1] /\ msg' = msg
               /\ \A k \in 1..msg[id].n : delivered'[id][k] > 0
      BY <2>5
    <3>2. \A i \in 1..Len(msg) : i # id => sent'[i] = sent[i]
      BY <2>1, <3>1 DEF TypeInv, TypeOK, DbOK
    <3> QED BY <2>3, <3>1, <3>2 DEF SentWasDelivered
  <2>6. CASE Accepts
    <3> DEFINE new == Len(msg) + 1
    <3>1. /\ Len(msg') = new /\ \A i \in 1..Len(msg) : msg'[i] = msg[i]
          /\ sent' = sent /\ new \in Ids
      BY <2>6, AcceptFacts
    <3>2. ~(sent[new] > 0)
      BY <2>1, <3>1 DEF DeliverInv, SentKnown
    <3> QED BY <2>1, <2>3, <3>1, <3>2 DEF SentWasDelivered
  <2>7. msg' = msg \/ Accepts
    BY DEF Effect, Quiet, UserTakes, NoteRemoves, Begins, TxBegin, Serves, TxNextRecipient,
       Completes, Aborts, FilesEmpty, DropsRequest, dbVars
  <2> QED BY <2>4, <2>5, <2>6, <2>7, FilingFacts DEF DeliverInv
<1>3. SentKnown'
  <2>1. Len(msg) \in Nat /\ Len(msg) <= Len(msg')
    <3>1. msg' = msg \/ Accepts
      BY DEF Effect, Quiet, UserTakes, NoteRemoves, Begins, TxBegin, Serves, TxNextRecipient,
         Completes, Aborts, FilesEmpty, DropsRequest, dbVars
    <3> QED BY <3>1, AcceptFacts, CountsType
  <2>2. \A i \in Ids : sent'[i] = sent[i] \/ i \in 1..Len(msg)
    <3>1. CASE sent' = sent
      BY <3>1
    <3>2. CASE \E id \in 1..Len(msg) : sent' = [sent EXCEPT ![id] = @ + 1]
      BY <3>2 DEF TypeInv, TypeOK, DbOK
    <3> QED BY <3>1, <3>2, FilingFacts DEF DeliverInv
  <2>3. Len(msg') \in Nat
    BY DEF TypeInv, TypeOK, DbOK
  <2> QED BY <2>1, <2>2, <2>3 DEF DeliverInv, SentKnown, Ids
<1> QED BY <1>1, <1>2, <1>3 DEF DeliverInv


-----------------------------------------------------------------------------
(* Authorization messages.                                                 *)

\* The identity an authorization message is from is still in the profile.
AuthsHaveSender == \A i \in Auths(outbox) : HasSender(i)

RequestInv == AuthsHaveSender /\ NoRequestDropped

\* No step drops an authorization message that was not sent: the identity of the
\* ones in pending_db is there, and no row, hence no OnMessageSent, is about one.
LEMMA RequestStep ==
  ASSUME TypeInv, FolderInv, OnlyRecipients, RequestInv, Effect PROVE RequestInv'
<1>1. /\ Len(msg) \in Nat /\ 1..Len(msg) \subseteq Ids
      /\ outbox \subseteq 1..Len(msg) /\ 1 \in 1..MaxRcpts
  BY CountsType, BoundsAssumption DEF TypeInv, TypeOK, DbOK
<1>2. \A i \in Ids : delivered[i][1] > 0 => delivered'[i][1] > 0
  BY <1>1, CountsStep
<1>3. CASE Accepts
  <2> DEFINE new == Len(msg) + 1
  <2>1. /\ Len(msg') = new /\ \A i \in 1..Len(msg) : msg'[i] = msg[i]
        /\ outbox' = outbox \cup {new} /\ msg'[new].from \in identities
        /\ UNCHANGED <<identities, delivered, discarded>>
    BY <1>3, AcceptFacts
  <2>2. ASSUME NEW i \in 1..Len(msg'), i # new PROVE i \in 1..Len(msg) /\ msg'[i] = msg[i]
    BY <1>1, <2>1, <2>2
  <2> HIDE DEF new
  <2>3. AuthsHaveSender'
    <3> SUFFICES ASSUME NEW i \in Auths(outbox)' PROVE msg'[i].from \in identities
      BY <2>1 DEF AuthsHaveSender, HasSender
    <3>1. CASE i = new
      BY <2>1, <3>1
    <3>2. CASE i # new
      BY <1>1, <2>1, <3>2 DEF RequestInv, AuthsHaveSender, HasSender, Auths
    <3> QED BY <3>1, <3>2
  <2>4. NoRequestDropped'
    <3> SUFFICES ASSUME NEW i \in 1..Len(msg'), msg'[i].kind = "auth"
                 PROVE  i \in outbox' \/ delivered'[i][1] > 0 \/ i \in discarded'
      BY DEF NoRequestDropped
    <3> QED BY <2>1, <2>2 DEF RequestInv, NoRequestDropped
  <2> QED BY <2>3, <2>4 DEF RequestInv
<1>4. ASSUME msg' = msg, outbox' \subseteq outbox,
             \A i \in Auths(outbox') : HasSender(i) => msg[i].from \in identities'
      PROVE  AuthsHaveSender'
  BY <1>4 DEF RequestInv, AuthsHaveSender, HasSender, Auths
<1>5. ASSUME msg' = msg, discarded \subseteq discarded',
             \A i \in Auths(outbox) \ outbox' : delivered'[i][1] > 0 \/ i \in discarded'
      PROVE  NoRequestDropped'
  BY <1>1, <1>2, <1>5 DEF RequestInv, NoRequestDropped, Auths
<1>6. \A i \in rows : msg[i].kind # "auth"
  BY DEF FolderInv, RowsAreMail
<1>7. CASE UserTakes
  BY <1>4, <1>5, <1>6, <1>7 DEF UserTakes, Auths, RequestInv
<1>8. CASE NoteRemoves
  BY <1>4, <1>5, <1>6, <1>8 DEF NoteRemoves, Auths, HasSender, RequestInv
<1>9. CASE Quiet \/ Begins \/ Serves
  BY <1>4, <1>5, <1>9 DEF Quiet, Begins, TxBegin, Serves, TxNextRecipient, Auths, HasSender,
     dbVars, histVars, RequestInv
<1>10. ASSUME txPc = "send", Delivered, msg[txMsg].kind = "auth" PROVE delivered'[txMsg][1] > 0
  <2>1. txMsg \in Ids /\ txDone = 0
    BY <1>10, InHand DEF TypeInv, AuthInv
  <2> QED BY <1>1, <1>10, <2>1, DeliveredFacts, CountsType
<1>11. CASE Completes
  <2>1. msg' = msg /\ outbox' = outbox \ {txMsg} /\ UNCHANGED <<identities, discarded>>
    BY <1>11 DEF Completes, Transferred, moveMsgToSentDB
  <2>2. \A i \in Auths(outbox) \ outbox' : delivered'[i][1] > 0
    BY <1>10, <1>11, <2>1 DEF Completes, Auths
  <2> QED BY <1>4, <1>5, <2>1, <2>2 DEF Auths, HasSender, RequestInv
<1>12. CASE Aborts
  <2>1. /\ msg' = msg /\ UNCHANGED <<identities, discarded>>
        /\ \/ outbox' = outbox
           \/ outbox' = outbox \ {txMsg} /\ msg[txMsg].kind = "auth" /\ Delivered
    BY <1>12 DEF Aborts
  <2>2. txPc = "send"
    BY <1>12 DEF Aborts
  <2>3. \A i \in Auths(outbox) \ outbox' : delivered'[i][1] > 0
    BY <1>10, <2>1, <2>2 DEF Auths
  <2> QED BY <1>4, <1>5, <2>1, <2>3 DEF Auths, HasSender, RequestInv
<1>13. ASSUME NEW id \in Ids, FilesEmpty(id) PROVE RequestInv'
  <2>1. msg[id].kind # "auth"
    BY <1>1, <1>13 DEF FilesEmpty, IsNext, TypeInv, AuthInv
  <2> QED BY <1>4, <1>5, <1>13, <2>1 DEF FilesEmpty, Auths, HasSender, RequestInv
<1>14. ASSUME NEW id \in Ids, DropsRequest(id) PROVE FALSE
  BY <1>14 DEF DropsRequest, RequestInv, AuthsHaveSender, Auths
<1> QED BY <1>3, <1>7, <1>8, <1>9, <1>11, <1>12, <1>13, <1>14 DEF Effect

-----------------------------------------------------------------------------
(* No recipient is sent to twice without need.                             *)

\* Until a transfer of it ends early, a message has been sent at most once to a
\* recipient, not yet to the ones the transfer under way has not reached, and to
\* no one while it waits in pending_db.
FreshInv ==
  \A i \in Ids \ interrupted, k \in 1..MaxRcpts :
    /\ delivered[i][k] <= 1
    /\ txPc = "send" /\ txMsg = i /\ k > txDone => delivered[i][k] = 0
    /\ ~(txPc = "send" /\ txMsg = i) /\ i \in outbox => delivered[i][k] = 0

\* Every step keeps it.
LEMMA FreshStep ==
  ASSUME TypeInv, OnlyRecipients, FreshInv, Effect PROVE FreshInv'
<1>1. /\ Len(msg) \in Nat /\ 1..Len(msg) \subseteq Ids /\ outbox \subseteq 1..Len(msg)
      /\ \A i \in Ids, k \in 1..MaxRcpts : delivered[i][k] \in Nat
  BY CountsType DEF TypeInv, TypeOK, DbOK
<1>2. ASSUME SendSame, delivered' = delivered, outbox' \subseteq outbox, interrupted \subseteq interrupted'
      PROVE  FreshInv'
  BY <1>2 DEF FreshInv, SendSame
<1>3. CASE Accepts
  <2> DEFINE new == Len(msg) + 1
  <2>1. /\ outbox' = outbox \cup {new} /\ new \in Ids
        /\ UNCHANGED <<delivered, interrupted>> /\ SendSame
    BY <1>3, AcceptFacts DEF Accepts
  <2>2. \A k \in 1..MaxRcpts : delivered[new][k] = 0
    BY <1>1, <2>1 DEF OnlyRecipients
  <2>3. txPc = "send" => txMsg # new
    BY <1>1, InHand
  <2> HIDE DEF new
  <2> QED BY <2>1, <2>2, <2>3 DEF FreshInv, SendSame
<1>4. CASE Begins
  <2>1. PICK id \in Ids : TxBegin(id)
    BY <1>4 DEF Begins
  <2>2. /\ id \in outbox /\ txPc # "send" /\ txPc' = "send" /\ txMsg' = id
        /\ UNCHANGED <<outbox, delivered, interrupted>>
    BY <2>1 DEF TxBegin, Fetched, AtLoopTop, IsNext, dbVars, histVars
  <2> QED BY <2>2 DEF FreshInv
<1>5. CASE Serves
  <2>1. /\ txPc = "send" /\ txPc' = "send" /\ txMsg' = txMsg /\ txDone' = txDone + 1 /\ Delivered
        /\ UNCHANGED <<outbox, interrupted>>
    BY <1>5 DEF Serves, TxNextRecipient, InSend, dbVars
  <2>2. txMsg \in Ids /\ txDone \in Nat /\ txDone + 1 \in 1..MaxRcpts
    BY <2>1, InHand
  <2>3. ASSUME NEW i \in Ids \ interrupted, NEW k \in 1..MaxRcpts
        PROVE  /\ delivered'[i][k] <= 1
               /\ txMsg = i /\ k > txDone + 1 => delivered'[i][k] = 0
               /\ txMsg # i /\ i \in outbox => delivered'[i][k] = 0
    <3>1. CASE i = txMsg /\ k = txDone + 1
      <4>1. delivered[i][k] = 0
        BY <2>1, <2>2, <3>1 DEF FreshInv
      <4>2. delivered'[i][k] = 1
        BY <2>1, <3>1, <4>1, DeliveredFacts
      <4> QED BY <2>2, <3>1, <4>2
    <3>2. CASE ~(i = txMsg /\ k = txDone + 1)
      <4>1. delivered'[i][k] = delivered[i][k]
        BY <2>1, <3>2, DeliveredFacts
      <4> QED BY <2>1, <2>2, <4>1 DEF FreshInv
    <3> QED BY <3>1, <3>2
  <2> QED BY <2>1, <2>3 DEF FreshInv
<1>6. CASE Completes
  <2>1. /\ txPc = "send" /\ txPc' # "send" /\ Delivered
        /\ outbox' = outbox \ {txMsg} /\ interrupted' = interrupted
    BY <1>6 DEF Completes, Transferred, moveMsgToSentDB
  <2>2. txMsg \in Ids /\ txDone \in Nat /\ txDone + 1 \in 1..MaxRcpts
    BY <2>1, InHand
  <2>3. ASSUME NEW i \in Ids \ interrupted, NEW k \in 1..MaxRcpts
        PROVE  /\ delivered'[i][k] <= 1
               /\ txMsg # i /\ i \in outbox => delivered'[i][k] = 0
    <3>1. CASE i = txMsg /\ k = txDone + 1
      <4>1. delivered[i][k] = 0
        BY <2>1, <2>2, <3>1 DEF FreshInv
      <4> QED BY <2>1, <3>1, <4>1, DeliveredFacts
    <3>2. CASE ~(i = txMsg /\ k = txDone + 1)
      <4>1. delivered'[i][k] = delivered[i][k]
        BY <2>1, <3>2, DeliveredFacts
      <4> QED BY <2>1, <4>1 DEF FreshInv
    <3> QED BY <3>1, <3>2
  <2> QED BY <2>1, <2>3 DEF FreshInv
<1>7. ASSUME CutShort, outbox' \subseteq outbox,
             delivered' = delivered \/ (txPc = "send" /\ Delivered)
      PROVE  FreshInv'
  <2> SUFFICES ASSUME NEW i \in Ids \ interrupted', NEW k \in 1..MaxRcpts
               PROVE  delivered'[i][k] <= 1 /\ (i \in outbox' => delivered'[i][k] = 0)
    BY <1>7 DEF FreshInv, CutShort
  <2>1. i \in Ids \ interrupted /\ (txPc = "send" => i # txMsg)
    BY <1>7 DEF CutShort
  <2>2. delivered'[i][k] = delivered[i][k]
    BY <1>7, <2>1, DeliveredFacts
  <2> QED BY <1>7, <2>1, <2>2 DEF FreshInv
<1>8. CASE Aborts
  <2>1. CutShort /\ outbox' \subseteq outbox /\ (delivered' = delivered \/ (txPc = "send" /\ Delivered))
    BY <1>8 DEF Aborts
  <2> QED BY <1>7, <2>1
<1>9. CASE Quiet \/ UserTakes \/ NoteRemoves
  BY <1>2, <1>7, <1>9 DEF Quiet, UserTakes, NoteRemoves, dbVars
<1>10. ASSUME NEW id \in Ids, FilesEmpty(id) \/ DropsRequest(id) PROVE FreshInv'
  <2>1. SendSame /\ delivered' = delivered /\ outbox' \subseteq outbox /\ interrupted \subseteq interrupted'
    BY <1>10 DEF FilesEmpty, DropsRequest, SendSame
  <2> QED BY <1>2, <2>1
<1> QED BY <1>3, <1>4, <1>5, <1>6, <1>8, <1>9, <1>10 DEF Effect

-----------------------------------------------------------------------------
(* The theorems.                                                           *)

AllInv == BaseInv /\ DeliverInv /\ RequestInv /\ FreshInv

\* Nothing is delivered, sent or queued at the first start.
LEMMA AllInit == Init => AllInv
<1> SUFFICES ASSUME Init PROVE AllInv
  OBVIOUS
<1>1. TypeInv
  BY TypeInit
<1>2. Len(msg) = 0 /\ outbox = {} /\ rows = {} /\ Len(notes) = 0 /\ txPc = "idle"
  BY DEF Init
<1>3. (\A i \in Ids : sent[i] = 0) /\ \A i \in Ids, k \in 1..MaxRcpts : delivered[i][k] = 0
  BY DEF Init
<1>4. BaseInv
  BY <1>1, <1>2 DEF BaseInv, SafeInv, NoMailLost, SentNotes, SessionInv, FolderInv, NotesKnown,
     RowsAreMail, StaleRowsGo, NewMailComes, PendingFirst, Mails
<1>5. DeliverInv
  BY <1>2, <1>3 DEF DeliverInv, Oldest, Served, OnlyRecipients, SentKnown, SentWasDelivered
<1>6. RequestInv /\ FreshInv
  BY <1>2, <1>3 DEF RequestInv, AuthsHaveSender, NoRequestDropped, FreshInv, Auths
<1> QED BY <1>4, <1>5, <1>6 DEF AllInv

\* The invariants are inductive together.
LEMMA AllStep == AllInv /\ [Next]_vars => AllInv'
<1>1. ASSUME AllInv, Next PROVE AllInv'
  <2>1. TypeInv /\ SafeInv /\ SessionInv /\ FolderInv /\ OnlyRecipients
    BY <1>1 DEF AllInv, BaseInv, SafeInv, DeliverInv
  <2>2. BaseInv'
    BY <1>1, <2>1, TypeStep, SafeStep, SessionStep, FolderStep DEF BaseInv, SafeInv
  <2>3. Effect
    BY <1>1, StepEffect DEF AllInv
  <2>4. TypeInv'
    BY <2>2 DEF BaseInv, SafeInv
  <2> QED BY <1>1, <2>1, <2>2, <2>3, <2>4, DeliverStep, RequestStep, FreshStep DEF AllInv
<1>2. ASSUME AllInv, UNCHANGED vars PROVE AllInv'
  <2>1. BaseInv'
    BY <1>2 DEF AllInv, BaseInv, SafeInv, vars, TypeInv, TypeOK, DbOK, GuiOK, FibersOK, FlagsOK,
       HistoryOK, SendInv, AuthInv, NoMailLost, SentNotes, SessionInv, FolderInv, NotesKnown,
       RowsAreMail, StaleRowsGo, NewMailComes, PendingFirst, Mails, Alive
  <2>2. DeliverInv' /\ RequestInv' /\ FreshInv'
    BY <1>2 DEF AllInv, vars, DeliverInv, Oldest, Served, OnlyRecipients, SentKnown, SentWasDelivered,
       RequestInv, AuthsHaveSender, HasSender, NoRequestDropped, FreshInv, Auths, Mails
  <2> QED BY <2>1, <2>2 DEF AllInv
<1> QED BY <1>1, <1>2

\* The Sent folder holds only mail that went to every one of its recipients,
\* wherever transfers of it were interrupted, failed or crashed before.
THEOREM SentMeansDelivered == Spec => []SentWasDelivered
<1>1. AllInv => SentWasDelivered
  BY DEF AllInv, DeliverInv
<1> QED BY <1>1, AllInit, AllStep, PTL DEF Spec

\* An authorization message leaves pending_db only after it was sent, or by the
\* deletion of its identity, even one a crash cuts off: transferAuthMsg never meets
\* one whose sender is missing.
THEOREM RequestsAreSent == Spec => []NoRequestDropped
<1>1. AllInv => NoRequestDropped
  BY DEF AllInv, RequestInv
<1> QED BY <1>1, AllInit, AllStep, PTL DEF Spec

\* A recipient gets a message twice only after a transfer of it ended early.
THEOREM ResendsHaveCause == Spec => []NoNeedlessResend
<1>1. AllInv => NoNeedlessResend
  <2> SUFFICES ASSUME AllInv, NEW i \in 1..Len(msg), NEW k \in 1..MaxRcpts,
                      delivered[i][k] > 1, i \notin interrupted
               PROVE  FALSE
    BY DEF NoNeedlessResend
  <2>1. i \in Ids /\ delivered[i][k] \in Nat
    BY CountsType DEF AllInv, BaseInv, SafeInv
  <2> QED BY <2>1 DEF AllInv, FreshInv
<1> QED BY <1>1, AllInit, AllStep, PTL DEF Spec

\* Mail leaves in the order in which it was queued.
THEOREM SendingOrder == Spec => SentInOrder
<1>1. AllInv /\ [Next]_vars =>
        [\A i \in Ids : sent'[i] > sent[i] => \A j \in Mails(outbox) : i <= j]_vars
  <2> SUFFICES ASSUME AllInv, Next, NEW i \in Ids, sent'[i] > sent[i]
               PROVE  \A j \in Mails(outbox) : i <= j
    OBVIOUS
  <2>1. TypeInv /\ Oldest /\ Served /\ OnlyRecipients /\ Effect
    BY StepEffect DEF AllInv, BaseInv, SafeInv, DeliverInv
  <2>2. sent[i] \in Nat /\ sent \in [Ids -> Nat] /\ 1..Len(msg) \subseteq Ids
    BY <2>1, CountsType DEF TypeInv, TypeOK, DbOK
  <2>3. sent' # sent
    BY <2>2
  <2>4. PICK id \in 1..Len(msg) : /\ sent' = [sent EXCEPT ![id] = @ + 1]
                                  /\ \A j \in Mails(outbox) : id <= j
    BY <2>1, <2>3, FilingFacts
  <2>5. i = id
    BY <2>2, <2>4
  <2> QED BY <2>4, <2>5
<1> QED BY <1>1, AllInit, AllStep, PTL DEF Spec, SentInOrder

\* A cancelled queue transmits nothing more in this session.
THEOREM CancelStops == Spec => CancelIsFinal
<1>1. AllInv /\ [Next]_vars =>
        [cancel /\ app' # "off" /\ app # "off" => sent' = sent /\ delivered' = delivered]_vars
  <2> SUFFICES ASSUME AllInv, Next, cancel PROVE sent' = sent /\ delivered' = delivered
    OBVIOUS
  <2>1. TypeInv /\ Effect /\ txPc # "send"
    BY StepEffect DEF AllInv, BaseInv, SafeInv, SessionInv
  <2>2. ASSUME NEW id \in Ids PROVE ~FilesEmpty(id)
    BY DEF FilesEmpty
  <2> QED BY <2>1, <2>2, AcceptFacts DEF Effect, Quiet, UserTakes, NoteRemoves, Begins, TxBegin, Serves,
      TxNextRecipient, InSend, Completes, Aborts, DropsRequest, dbVars, histVars
<1> QED BY <1>1, AllInit, AllStep, PTL DEF Spec, CancelIsFinal

-----------------------------------------------------------------------------
(* The outbox implements MailQueue.                                        *)

\* The initial state is an empty queue.
LEMMA QueueInit == Init => Queue!Init
<1> SUFFICES ASSUME Init PROVE Queue!Init
  OBVIOUS
<1>1. msg = <<>> /\ outbox = {} /\ discarded = {}
  BY DEF Init
<1>2. Reached = [i \in Queue!Ids |-> {}]
  BY DEF Init, Reached, Queue!Ids, Ids
<1>3. Filed = {} /\ SavedDrafts = {}
  BY DEF Init, Filed, SavedDrafts
<1> QED BY <1>1, <1>2, <1>3 DEF Queue!Init

\* A delivery is a Reach of the message in transfer.
LEMMA DeliveryReaches ==
  ASSUME AllInv, AllInv', Effect, txPc = "send", Delivered, msg' = msg
  PROVE  Queue!Reach(txMsg)
<1>1. /\ TypeInv /\ Served /\ txMsg \in Ids /\ txMsg \in 1..Len(msg)
      /\ txDone \in Nat /\ txDone + 1 \in 1..MaxRcpts /\ txDone + 1 <= msg[txMsg].n
      /\ msg[txMsg].n \in Nat
  BY InHand DEF AllInv, BaseInv, SafeInv, DeliverInv
<1> DEFINE k == txDone + 1
<1>2. k \in 1..msg[txMsg].n
  BY <1>1
<1>3. 1..(k - 1) \subseteq Reached[txMsg]
  <2>1. \A j \in 1..(k - 1) : j \in 1..txDone /\ j \in 1..MaxRcpts
    BY <1>1, BoundsAssumption
  <2> QED BY <1>1, <2>1 DEF Served, Reached
<1>4. Reached' = [Reached EXCEPT ![txMsg] = @ \cup {k}]
  <2>1. /\ delivered'[txMsg][k] > 0
        /\ \A i \in Ids, j \in 1..MaxRcpts :
             ~(i = txMsg /\ j = k) => delivered'[i][j] = delivered[i][j]
    BY <1>1, DeliveredFacts, CountsType
  <2>2. ASSUME NEW i \in Ids
        PROVE  Reached'[i] = IF i = txMsg THEN Reached[i] \cup {k} ELSE Reached[i]
    <3>1. \A j \in 1..MaxRcpts : j \in Reached'[i] <=> delivered'[i][j] > 0
      BY DEF Reached
    <3>2. \A j \in 1..MaxRcpts : j \in Reached[i] <=> delivered[i][j] > 0
      BY DEF Reached
    <3>3. Reached[i] \subseteq 1..MaxRcpts /\ Reached'[i] \subseteq 1..MaxRcpts
      BY DEF Reached
    <3>4. k \in 1..MaxRcpts
      BY <1>1
    <3> HIDE DEF k
    <3> QED BY <2>1, <3>1, <3>2, <3>3, <3>4
  <2>3. Reached \in [Ids -> SUBSET (1..MaxRcpts)] /\ Reached' \in [Ids -> SUBSET (1..MaxRcpts)]
    BY DEF Reached
  <2> HIDE DEF k
  <2> QED BY <1>1, <2>2, <2>3
<1> HIDE DEF k
<1> QED BY <1>2, <1>3, <1>4 DEF Queue!Reach

\* A copy stored in sent_db, in the terms of MailQueue.
LEMMA FilingFiles ==
  ASSUME AllInv, AllInv', Effect, NEW id \in 1..Len(msg), msg' = msg,
         sent' = [sent EXCEPT ![id] = @ + 1], msg[id].kind = "mail",
         \A k \in 1..msg[id].n : delivered'[id][k] > 0,
         \A j \in Mails(outbox) : id <= j,
         outbox' \in {outbox, outbox \ {id}}
  PROVE  Queue!File(id)
<1>1. /\ TypeInv /\ 1..Len(msg) \subseteq Ids /\ sent \in [Ids -> Nat]
      /\ msg[id].n \in 0..MaxRcpts
  BY CountsType DEF AllInv, BaseInv, SafeInv, TypeInv, TypeOK, DbOK
<1>2. Reached'[id] = 1..msg[id].n
  <2>1. /\ Reached'[id] \subseteq 1..MaxRcpts
        /\ \A k \in 1..MaxRcpts : k \in Reached'[id] <=> delivered'[id][k] > 0
    BY <1>1 DEF Reached
  <2>2. \A k \in 1..MaxRcpts : delivered'[id][k] > 0 => k <= msg[id].n
    BY <1>1 DEF AllInv, DeliverInv, OnlyRecipients
  <2>3. 1..msg[id].n \subseteq 1..MaxRcpts
    BY <1>1, BoundsAssumption
  <2>4. 1..msg[id].n \subseteq Reached'[id]
    BY <2>1, <2>3
  <2>5. Reached'[id] \subseteq 1..msg[id].n
    BY <1>1, <2>1, <2>2
  <2> QED BY <2>4, <2>5
<1>3. Filed' = Filed \cup {id}
  BY <1>1 DEF Filed
<1>4. \A j \in outbox : msg[j].kind = "mail" => id <= j
  BY DEF Mails
<1> QED BY <1>2, <1>3, <1>4 DEF Queue!File

\* Every step of the outbox is a step of the queue, or none.
LEMMA QueueStep ==
  ASSUME AllInv, AllInv', Next PROVE [Queue!Next]_Queue!vars
<1>1. /\ TypeInv /\ OnlyRecipients /\ Effect /\ FolderInv /\ RequestInv
      /\ Oldest /\ Served
  BY StepEffect DEF AllInv, BaseInv, SafeInv, DeliverInv
<1>2. /\ Len(msg) \in Nat /\ 1..Len(msg) \subseteq Ids /\ outbox \subseteq 1..Len(msg)
      /\ sent \in [Ids -> Nat]
  BY <1>1, CountsType DEF TypeInv, TypeOK, DbOK
<1>3. ASSUME delivered' = delivered PROVE Reached' = Reached
  BY <1>3 DEF Reached
<1>4. ASSUME sent' = sent, msg' = msg PROVE Filed' = Filed
  BY <1>4 DEF Filed
<1>5. ASSUME drafts' = drafts PROVE SavedDrafts' = SavedDrafts
  BY <1>5 DEF SavedDrafts
<1>6. ASSUME UNCHANGED <<msg, outbox, delivered, sent, drafts, discarded>>
      PROVE  UNCHANGED Queue!vars
  BY <1>3, <1>4, <1>5, <1>6 DEF Queue!vars
<1>7. CASE Quiet \/ Begins
  BY <1>6, <1>7 DEF Quiet, Begins, TxBegin, dbVars, histVars
<1>8. CASE Accepts
  <2>1. PICK m \in Message : msg' = Append(msg, m)
    BY <1>1, <1>8, AcceptFacts
  <2>2. /\ outbox' = outbox \cup {Len(msg) + 1} /\ Len(msg') = Len(msg) + 1
        /\ UNCHANGED <<sent, drafts, delivered, discarded>> /\ Len(msg) + 1 \in Ids
    BY <1>1, <1>8, AcceptFacts
  <2>3. Filed' = Filed
    <3>1. ~(sent[Len(msg) + 1] > 0)
      BY <1>2, <2>2 DEF AllInv, DeliverInv, SentKnown
    <3>2. 1..Len(msg') = 1..Len(msg) \cup {Len(msg) + 1}
      BY <1>2, <2>2
    <3> QED BY <2>2, <3>1, <3>2 DEF Filed
  <2>4. Len(msg) < MaxMsgs
    BY <1>2, <2>2, BoundsAssumption DEF Ids
  <2>5. Queue!Accept(m)
    BY <1>3, <1>5, <2>1, <2>2, <2>3, <2>4 DEF Queue!Accept
  <2> QED BY <2>1, <2>5 DEF Queue!Next
<1>9. CASE UserTakes
  <2>1. /\ UNCHANGED <<msg, sent, delivered>> /\ outbox' \subseteq outbox
        /\ drafts \subseteq drafts' /\ discarded \subseteq discarded'
        /\ \A i \in outbox \ outbox' : i \in discarded' \/ i \in drafts'
    BY <1>9 DEF UserTakes
  <2>2. drafts' \subseteq 0..Len(msg) /\ discarded' \subseteq 1..Len(msg)
    BY <2>1 DEF AllInv, BaseInv, SafeInv, TypeInv, TypeOK, DbOK, HistoryOK
  <2>3. SavedDrafts \subseteq SavedDrafts' /\ SavedDrafts' \subseteq 1..Len(msg)
    BY <1>2, <2>1, <2>2 DEF SavedDrafts, Blank
  <2>4. outbox \ outbox' \subseteq SavedDrafts' \cup discarded'
    BY <1>2, <2>1 DEF SavedDrafts, Blank
  <2>5. Queue!TakeBack
    BY <1>3, <1>4, <2>1, <2>2, <2>3, <2>4 DEF Queue!TakeBack
  <2> QED BY <2>5 DEF Queue!Next
<1>10. CASE NoteRemoves
  <2>1. PICK id \in rows : sent[id] > 0 /\ outbox' = outbox \ {id}
    BY <1>10 DEF NoteRemoves
  <2>2. id \in 1..Len(msg) /\ id \in Filed
    BY <1>1, <2>1 DEF Filed, TypeInv, TypeOK, GuiOK
  <2>3. UNCHANGED <<msg, sent, drafts, delivered, discarded>>
    BY <1>10 DEF NoteRemoves
  <2>4. Queue!Retire(id)
    BY <1>3, <1>4, <1>5, <2>1, <2>2, <2>3 DEF Queue!Retire
  <2> QED BY <2>2, <2>4 DEF Queue!Next
<1>11. ASSUME NEW id \in 1..Len(msg), Queue!Reach(id) \/ delivered' = delivered,
              Queue!File(id) \/ Queue!Finish(id) \/ (outbox' = outbox /\ sent' = sent),
              UNCHANGED <<msg, drafts, discarded>>
       PROVE  Queue!Next
  <2>1. Queue!Transfer(id)
    BY <1>3, <1>4, <1>5, <1>11 DEF Queue!Transfer
  <2> QED BY <2>1 DEF Queue!Next
<1>12. ASSUME txPc = "send", Delivered, msg' = msg PROVE txMsg \in 1..Len(msg) /\ Queue!Reach(txMsg)
  BY <1>1, <1>12, InHand, DeliveryReaches
<1>13. CASE Serves
  BY <1>11, <1>12, <1>13 DEF Serves, TxNextRecipient, InSend, dbVars
<1>14. ASSUME txPc = "send", Delivered, msg[txMsg].kind = "auth", outbox' = outbox \ {txMsg},
              sent' = sent, msg' = msg
       PROVE  Queue!Finish(txMsg)
  <2>1. txMsg \in Ids /\ txDone + 1 \in 1..MaxRcpts
    BY <1>1, <1>14, InHand
  <2>2. delivered'[txMsg][txDone + 1] > 0
    BY <1>1, <1>14, <2>1, DeliveredFacts, CountsType
  <2>3. Reached'[txMsg] # {}
    BY <2>1, <2>2 DEF Reached
  <2> QED BY <1>4, <1>14, <2>3 DEF Queue!Finish
<1>15. ASSUME txPc = "send", LastRecipient, Delivered, msg[txMsg].kind = "mail", msg' = msg,
              sent' = [sent EXCEPT ![txMsg] = @ + 1], outbox' \in {outbox, outbox \ {txMsg}}
       PROVE  Queue!File(txMsg)
  <2>1. txMsg \in 1..Len(msg) /\ \A k \in 1..msg[txMsg].n : delivered'[txMsg][k] > 0
    BY <1>1, <1>15, InHand, EveryoneServed
  <2>2. \A j \in Mails(outbox) : txMsg <= j
    BY <1>1, <1>15 DEF Oldest
  <2> QED BY <1>1, <1>15, <2>1, <2>2, FilingFiles
<1>16. CASE Completes
  <2>1. /\ txPc = "send" /\ LastRecipient /\ Delivered /\ Transferred(txMsg)
        /\ UNCHANGED <<msg, drafts, discarded>>
    BY <1>16 DEF Completes
  <2>2. CASE msg[txMsg].kind = "mail"
    BY <1>11, <1>12, <1>15, <2>1, <2>2 DEF Transferred, moveMsgToSentDB
  <2>3. CASE msg[txMsg].kind # "mail"
    <3>1. msg[txMsg].kind = "auth"
      BY <1>1, <1>12, <2>1, <2>3, KindOf
    <3> QED BY <1>11, <1>12, <1>14, <2>1, <3>1 DEF Transferred
  <2> QED BY <2>2, <2>3
<1>17. CASE Aborts
  <2>1. txPc = "send" /\ UNCHANGED <<msg, drafts, discarded>>
    BY <1>17 DEF Aborts
  <2>2. txMsg \in 1..Len(msg)
    BY <1>1, <2>1, InHand
  <2>3. CASE (Delivered \/ UNCHANGED delivered) /\ UNCHANGED <<outbox, sent>>
    BY <1>11, <1>12, <2>1, <2>2, <2>3
  <2>4. CASE /\ LastRecipient /\ msg[txMsg].kind = "mail" /\ Delivered
             /\ sent' = [sent EXCEPT ![txMsg] = @ + 1] /\ UNCHANGED outbox
    BY <1>11, <1>12, <1>15, <2>1, <2>4
  <2>5. CASE /\ msg[txMsg].kind = "auth" /\ Delivered
             /\ outbox' = outbox \ {txMsg} /\ UNCHANGED sent
    BY <1>11, <1>12, <1>14, <2>1, <2>5
  <2> QED BY <1>17, <2>3, <2>4, <2>5 DEF Aborts
<1>18. ASSUME NEW id \in Ids, FilesEmpty(id) PROVE [Queue!Next]_Queue!vars
  <2>1. /\ id \in 1..Len(msg) /\ msg[id].n = 0 /\ IsNext(id)
        /\ UNCHANGED <<msg, delivered, drafts, discarded>>
    BY <1>2, <1>18 DEF FilesEmpty, IsNext
  <2>2. CASE UNCHANGED <<sent, outbox>>
    BY <1>6, <2>1, <2>2
  <2>3. CASE sent' = [sent EXCEPT ![id] = @ + 1] /\ outbox' \in {outbox, outbox \ {id}}
    <3>1. msg[id].kind = "mail"
      BY <1>1, <2>1, KindOf DEF TypeInv, AuthInv
    <3>2. \A k \in 1..msg[id].n : delivered'[id][k] > 0
      BY <2>1
    <3>3. \A j \in Mails(outbox) : id <= j
      BY <2>1, <3>1 DEF IsNext
    <3>4. Queue!File(id)
      BY <1>1, <2>1, <2>3, <3>1, <3>2, <3>3, FilingFiles
    <3> QED BY <1>11, <2>1, <3>4
  <2> QED BY <1>18, <2>2, <2>3 DEF FilesEmpty
<1>19. ASSUME NEW id \in Ids, DropsRequest(id) PROVE FALSE
  BY <1>1, <1>19 DEF DropsRequest, RequestInv, AuthsHaveSender, Auths
<1> QED BY <1>1, <1>7, <1>8, <1>9, <1>10, <1>13, <1>16, <1>17, <1>18, <1>19 DEF Effect

\* The outbox with its fibers, notifications, cancellations and crashes implements
\* the plain queue: a message leaves it only by reaching everyone, in order, or by
\* the user's will, and is in Sent only after that.
THEOREM Refinement == Spec => ImplementsMailQueue
<1>1. AllInv /\ AllInv' /\ [Next]_vars => [Queue!Next]_Queue!vars
  <2>1. UNCHANGED vars => UNCHANGED Queue!vars
    BY DEF vars, Queue!vars, Reached, Filed, SavedDrafts
  <2> QED BY <2>1, QueueStep
<1> QED BY <1>1, QueueInit, AllInit, AllStep, PTL DEF Spec, ImplementsMailQueue, Queue!Spec
=============================================================================
