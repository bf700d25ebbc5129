---------------------------- MODULE OutboxProofs ----------------------------
(***************************************************************************)
(* Proofs about Outbox, for every set of identities and all bounds.        *)
(***************************************************************************)
EXTENDS Outbox, TLAPS

USE IdentitiesAssumption, BoundsAssumption

-----------------------------------------------------------------------------
(* Type correctness.                                                       *)

\* While the transmission fiber is inside send_email it has a message and a
\* recipient of that message in its hands.
SendInv ==
  txPc = "send" => /\ txMsg \in 1..Len(msg)
                   /\ txDone < msg[txMsg].n

\* An authorization message has exactly one recipient.
AuthInv == \A i \in 1..Len(msg) : msg[i].kind = "auth" => msg[i].n = 1

TypeInv == TypeOK /\ SendInv /\ AuthInv

\* Initially nothing is queued and no fiber is sending.
LEMMA TypeInit == Init => TypeInv
<1> SUFFICES ASSUME Init PROVE TypeInv
  OBVIOUS
<1> USE DEF Init, Ids
<1>1. msg \in Seq(Message) /\ Len(msg) = 0 /\ notes \in Seq(Note)
  OBVIOUS
<1>2. delivered \in [Ids -> [1..MaxRcpts -> Nat]] /\ sent \in [Ids -> Nat]
  OBVIOUS
<1>3. /\ txNotified \in BOOLEAN /\ cancel \in BOOLEAN /\ conn \in BOOLEAN
      /\ receiving \in BOOLEAN /\ stalled \in BOOLEAN
  OBVIOUS
<1>4. TypeOK
  BY <1>1, <1>2, <1>3 DEF TypeOK, DbOK, GuiOK, FibersOK, FlagsOK, HistoryOK
<1> QED BY <1>1, <1>4 DEF TypeInv, SendInv, AuthInv

\* Storing a message in pending_db and posting OnMessagePending keep the types.
LEMMA TypeEnqueue ==
  ASSUME TypeInv,
         NEW m \in Message, m.kind = "auth" => m.n = 1, Enqueue(m),
         notes' = notes \/ notes' = Append(notes, Post("pending", Len(msg) + 1))
  PROVE  TypeInv'
<1> DEFINE new == Len(msg) + 1
<1> USE DEF TypeInv, TypeOK, Enqueue
<1>1. /\ msg' \in Seq(Message) /\ Len(msg') = new /\ new \in Ids
      /\ \A i \in 1..Len(msg) : msg'[i] = msg[i]
      /\ msg'[new] = m
  BY DEF DbOK, Ids
<1>2. notes' \in Seq(Note)
  <2>1. Post("pending", new) \in Note
    BY <1>1 DEF Post, Note
  <2>2. notes \in Seq(Note)
    BY DEF GuiOK
  <2> QED BY <2>1, <2>2
<1>3. DbOK'
  <2>1. Len(msg') <= MaxMsgs
    BY <1>1 DEF Ids
  <2>2. outbox' \subseteq 1..Len(msg')
    <3>1. outbox \subseteq 1..Len(msg) /\ Len(msg) \in Nat /\ outbox' = outbox \cup {new}
      BY DEF DbOK
    <3>2. 1..Len(msg) \subseteq 1..new /\ new \in 1..new
      BY <3>1
    <3> QED BY <1>1, <3>1, <3>2
  <2>3. sent' \in [Ids -> Nat] /\ identities' \subseteq Identities
    BY DEF DbOK
  <2>4. drafts' \subseteq 0..Len(msg')
    BY <1>1 DEF DbOK
  <2> QED BY <1>1, <2>1, <2>2, <2>3, <2>4 DEF DbOK
<1>4. GuiOK'
  BY <1>1, <1>2 DEF GuiOK, DbOK
<1>5. FibersOK'
  BY <1>1 DEF FibersOK, DbOK, checkForAvailableConnection, txVars
<1>6. FlagsOK'
  BY DEF FlagsOK, txVars, netVars, histVars
<1>7. HistoryOK'
  BY <1>1 DEF HistoryOK, DbOK, histVars
<1>8. SendInv' /\ AuthInv'
  BY <1>1 DEF DbOK, SendInv, AuthInv, txVars
<1> QED BY <1>3, <1>4, <1>5, <1>6, <1>7, <1>8


\* What the transmission fiber knows inside send_email.
LEMMA InHand ==
  ASSUME TypeInv, txPc = "send"
  PROVE  /\ txMsg \in 1..Len(msg) /\ txMsg \in Ids
         /\ txDone \in Nat /\ txDone + 1 \in 1..MaxRcpts
         /\ msg[txMsg].n \in 0..MaxRcpts /\ txDone + 1 <= msg[txMsg].n
<1>1. txMsg \in 1..Len(msg) /\ txMsg \in Ids /\ txDone < msg[txMsg].n
  BY DEF TypeInv, TypeOK, DbOK, SendInv, Ids
<1>2. msg[txMsg] \in Message
  BY <1>1 DEF TypeInv, TypeOK, DbOK
<1>3. msg[txMsg].n \in 0..MaxRcpts /\ txDone \in 0..MaxRcpts
  BY <1>2 DEF TypeInv, TypeOK, FibersOK, Message
<1> QED BY <1>1, <1>3

\* Counting a delivery keeps the type of the history.
LEMMA DeliveredType ==
  ASSUME TypeInv, txPc = "send", Delivered
  PROVE  delivered' \in [Ids -> [1..MaxRcpts -> Nat]]
<1>1. delivered \in [Ids -> [1..MaxRcpts -> Nat]]
  BY DEF TypeInv, TypeOK, HistoryOK
<1>2. txMsg \in Ids /\ txDone + 1 \in 1..MaxRcpts
  BY InHand
<1>3. [delivered[txMsg] EXCEPT ![txDone + 1] = @ + 1] \in [1..MaxRcpts -> Nat]
  BY <1>1, <1>2
<1> QED BY <1>1, <1>2, <1>3 DEF Delivered

\* Storing a copy in sent_db and posting OnMessageSent keep the types.
LEMMA StoredType ==
  ASSUME TypeInv, NEW id \in Ids
  PROVE  /\ [sent EXCEPT ![id] = @ + 1] \in [Ids -> Nat]
         /\ Append(notes, Post("sent", id)) \in Seq(Note)
<1>1. sent \in [Ids -> Nat] /\ notes \in Seq(Note)
  BY DEF TypeInv, TypeOK, DbOK, GuiOK
<1>2. Post("sent", id) \in Note
  BY DEF Post, Note
<1> QED BY <1>1, <1>2

\* A completed transfer keeps the types of the databases and notifications.
LEMMA TransferredType ==
  ASSUME TypeInv, NEW id \in Ids, Transferred(id)
  PROVE  /\ outbox' \subseteq outbox
         /\ sent' \in [Ids -> Nat]
         /\ notes' \in Seq(Note)
BY StoredType DEF Transferred, moveMsgToSentDB, TypeInv, TypeOK, DbOK, GuiOK

\* Drafts made from rows are ids, or blank.
LEMMA DraftsType ==
  ASSUME TypeInv, NEW S \in SUBSET rows
  PROVE  drafts \cup DraftsFrom(S) \subseteq 0..Len(msg)
<1>1. drafts \subseteq 0..Len(msg) /\ rows \subseteq 1..Len(msg) /\ Len(msg) \in Nat
  BY DEF TypeInv, TypeOK, DbOK, GuiOK
<1>2. \A i \in S : (IF i \in outbox THEN i ELSE Blank) \in 0..Len(msg)
  BY <1>1 DEF Blank
<1> QED BY <1>1, <1>2 DEF DraftsFrom

\* Every stored message has at most MaxRcpts recipients.
LEMMA MessageType ==
  ASSUME TypeInv, NEW id \in 1..Len(msg)
  PROVE  msg[id] \in Message /\ msg[id].n \in 0..MaxRcpts /\ msg[id].n \in Nat
<1>1. msg[id] \in Message
  BY DEF TypeInv, TypeOK, DbOK
<1> QED BY <1>1 DEF Message

\* Stopping the fibers writes no new message.
LEMMA StopKeepsMsg ==
  ASSUME StopTransmission PROVE msg' = msg
BY DEF StopTransmission, NothingToStop, StopsSleeping, StopsSending, dbVars

\* StopTransmission keeps the types, whatever the fibers were doing.
LEMMA TypeStop ==
  ASSUME TypeInv, StopTransmission
  PROVE  /\ DbOK' /\ notes' \in Seq(Note)
         /\ FibersOK' /\ SendInv' /\ AuthInv'
         /\ txNotified' \in BOOLEAN /\ cancel' \in BOOLEAN
         /\ delivered' \in [Ids -> [1..MaxRcpts -> Nat]]
         /\ interrupted' \subseteq 1..Len(msg')
<1> USE DEF dbVars, txVars
<1>1. CASE NothingToStop
  BY <1>1 DEF NothingToStop, TypeInv, TypeOK, DbOK, GuiOK, FibersOK, FlagsOK, HistoryOK,
     SendInv, AuthInv
<1>2. CASE ~NothingToStop
  <2> DEFINE Kept == /\ DbOK' /\ AuthInv' /\ notes' \in Seq(Note)
                     /\ chk' \in {"idle", "ready", "sleep"}
                     /\ delivered' \in [Ids -> [1..MaxRcpts -> Nat]]
                     /\ interrupted' \subseteq 1..Len(msg')
  <2>0. (StopsSleeping \/ StopsSending) /\ cancel' = TRUE /\ FiberGone
    BY <1>2 DEF StopTransmission
  <2>1. ASSUME StopsSleeping PROVE Kept
    BY <2>1 DEF StopsSleeping, TypeInv, TypeOK, DbOK, GuiOK, HistoryOK, AuthInv
  <2>2. ASSUME StopsSending PROVE Kept
    <3>1. /\ delivered' \in [Ids -> [1..MaxRcpts -> Nat]]
          /\ chk' \in {"idle", "ready", "sleep"}
      BY <2>2, DeliveredType DEF StopsSending, TypeInv, TypeOK, HistoryOK
    <3>2. msg' = msg /\ drafts' = drafts /\ identities' = identities
      BY <2>2 DEF StopsSending
    <3>3. txMsg \in 1..Len(msg) /\ txMsg \in Ids
      BY <2>2, InHand DEF StopsSending
    <3>4. interrupted' \subseteq 1..Len(msg')
      BY <2>2, <3>2, <3>3 DEF StopsSending, TypeInv, TypeOK, HistoryOK
    <3>5. \/ Transferred(txMsg)
          \/ UNCHANGED <<outbox, sent, notes>>
      BY <2>2 DEF StopsSending
    <3>6. outbox' \subseteq outbox /\ sent' \in [Ids -> Nat] /\ notes' \in Seq(Note)
      BY <3>3, <3>5, TransferredType DEF TypeInv, TypeOK, DbOK, GuiOK
    <3> QED BY <3>1, <3>2, <3>4, <3>6 DEF TypeInv, TypeOK, DbOK, AuthInv
  <2>3. Kept
    BY <2>0, <2>1, <2>2
  <2>4. FibersOK' /\ SendInv'
    BY <2>0, <2>3 DEF FiberGone, FibersOK, SendInv, DbOK
  <2>5. txNotified' \in BOOLEAN /\ cancel' \in BOOLEAN
    BY <2>0 DEF FiberGone
  <2> QED BY <2>3, <2>4, <2>5
<1> QED BY <1>1, <1>2

\* Every step keeps the types.
LEMMA TypeStep ==
  ASSUME TypeInv, Next PROVE TypeInv'
<1> USE DEF dbVars, txVars, netVars, histVars, Trouble
<1>0. ASSUME \/ \E i \in Identities, n \in 0..MaxRcpts : AddPendingMessage(i, n)
             \/ \E i \in Identities : AddPendingAuthoMsg(i)
      PROVE  TypeInv'
  <2>1. ASSUME NEW i \in Identities, NEW n \in 0..MaxRcpts, AddPendingMessage(i, n)
        PROVE  TypeInv'
    BY <2>1, TypeEnqueue DEF AddPendingMessage, Message
  <2>2. ASSUME NEW i \in Identities, AddPendingAuthoMsg(i)
        PROVE  TypeInv'
    BY <2>2, TypeEnqueue DEF AddPendingAuthoMsg, Message
  <2> QED BY <1>0, <2>1, <2>2
<1>1. ASSUME NEW id \in Ids, DeleteMail(id) PROVE TypeInv'
  BY <1>1 DEF DeleteMail, TypeInv, TypeOK, DbOK, GuiOK, FibersOK, FlagsOK, HistoryOK, SendInv, AuthInv
<1>33. ASSUME searchEditChanged PROVE TypeInv'
  BY <1>33 DEF searchEditChanged, TypeInv, TypeOK, DbOK, GuiOK, FibersOK, FlagsOK, HistoryOK, SendInv, AuthInv
<1>2. ASSUME NEW s \in Identities, DeleteIdentity(s) PROVE TypeInv'
  <2>0. /\ drafts' \subseteq 0..Len(msg)
        /\ outbox' \subseteq outbox /\ rows' \subseteq rows
    BY <1>2, DraftsType DEF DeleteIdentity, RowsOf
  <2>1. DbOK' /\ GuiOK'
    BY <1>2, <2>0 DEF DeleteIdentity, TypeInv, TypeOK, DbOK, GuiOK
  <2>2. FibersOK' /\ SendInv' /\ AuthInv'
    BY <1>2, <2>0 DEF DeleteIdentity, TypeInv, TypeOK, DbOK, FibersOK, SendInv, AuthInv
  <2>3. FlagsOK'
    BY <1>2, <2>0 DEF DeleteIdentity, TypeInv, TypeOK, FlagsOK
  <2>4. HistoryOK'
    BY <1>2, <2>0 DEF DeleteIdentity, AuthsOf, Auths, TypeInv, TypeOK, DbOK, HistoryOK
  <2> QED BY <2>1, <2>2, <2>3, <2>4 DEF TypeInv, TypeOK
<1>3. ASSUME DeliverNote PROVE TypeInv'
  <2>0. msg' = msg /\ UNCHANGED <<sent, drafts, identities, app>>
    BY <1>3 DEF DeliverNote
  <2>1. notes' \in Seq(Note)
    <3>1. notes \in Seq(Note) /\ notes # <<>> /\ notes' = Tail(notes)
      BY <1>3 DEF DeliverNote, TypeInv, TypeOK, GuiOK
    <3> QED BY <3>1
  <2>2. /\ outbox' \subseteq outbox /\ rows' \subseteq 1..Len(msg)
        /\ hidden' \subseteq rows' /\ stuck' \subseteq 1..Len(msg)
    <3>1. /\ outbox \subseteq 1..Len(msg) /\ rows \subseteq 1..Len(msg)
          /\ hidden \subseteq rows /\ stuck \subseteq 1..Len(msg)
      BY DEF TypeInv, TypeOK, DbOK, GuiOK
    <3>2. ASSUME NEW id, OnMessagePending(id)
          PROVE  /\ outbox' = outbox /\ stuck' = stuck /\ rows' \subseteq rows \cup outbox
                 /\ hidden' \subseteq rows'
      BY <3>1, <3>2 DEF OnMessagePending
    <3>3. ASSUME NEW id, OnMessageSent(id)
          PROVE  /\ outbox' \subseteq outbox /\ rows' \subseteq rows
                 /\ hidden' \subseteq rows' /\ stuck' \subseteq stuck \cup rows
      BY <3>1, <3>3 DEF OnMessageSent
    <3> QED BY <1>3, <3>1, <3>2, <3>3 DEF DeliverNote
  <2>3. DbOK' /\ GuiOK'
    BY <2>0, <2>1, <2>2 DEF TypeInv, TypeOK, DbOK, GuiOK
  <2>4. FibersOK' /\ SendInv' /\ AuthInv'
    BY <1>3 DEF DeliverNote, TypeInv, TypeOK, FibersOK, SendInv, AuthInv
  <2>5. FlagsOK' /\ HistoryOK'
    BY <1>3 DEF DeliverNote, TypeInv, TypeOK, FlagsOK, HistoryOK
  <2> QED BY <2>3, <2>4, <2>5 DEF TypeInv, TypeOK
<1>4. ASSUME CheckConnection PROVE TypeInv'
  BY <1>4 DEF CheckConnection, TypeInv, TypeOK, DbOK, GuiOK, FibersOK, FlagsOK, HistoryOK, SendInv, AuthInv, startTransmission
<1>5. ASSUME TxFinish PROVE TypeInv'
  <2>1. DbOK' /\ GuiOK'
    BY <1>5 DEF TxFinish, LoopEnds, TypeInv, TypeOK, DbOK, GuiOK
  <2>2. FibersOK' /\ SendInv' /\ AuthInv'
    BY <1>5 DEF TxFinish, LoopEnds, FiberGone, TypeInv, TypeOK, DbOK, FibersOK, SendInv, AuthInv
  <2>3. FlagsOK'
    BY <1>5 DEF TxFinish, LoopEnds, FiberGone, TypeInv, TypeOK, FlagsOK
  <2>4. HistoryOK'
    BY <1>5 DEF TxFinish, LoopEnds, TypeInv, TypeOK, DbOK, HistoryOK
  <2> QED BY <2>1, <2>2, <2>3, <2>4 DEF TypeInv, TypeOK
<1>6. ASSUME TxFetchFails PROVE TypeInv'
  <2>1. DbOK' /\ GuiOK'
    BY <1>6 DEF TxFetchFails, LoopEnds, TypeInv, TypeOK, DbOK, GuiOK
  <2>2. FibersOK' /\ SendInv' /\ AuthInv'
    BY <1>6 DEF TxFetchFails, LoopEnds, FiberGone, TypeInv, TypeOK, DbOK, FibersOK, SendInv, AuthInv
  <2>3. FlagsOK'
    BY <1>6 DEF TxFetchFails, LoopEnds, FiberGone, TypeInv, TypeOK, FlagsOK
  <2>4. HistoryOK'
    BY <1>6 DEF TxFetchFails, LoopEnds, TypeInv, TypeOK, DbOK, HistoryOK
  <2> QED BY <2>1, <2>2, <2>3, <2>4 DEF TypeInv, TypeOK
<1>7. ASSUME NEW id \in Ids, TxBegin(id) PROVE TypeInv'
  <2>0. id \in 1..Len(msg) /\ msg[id].n \in Nat
    BY <1>7, MessageType DEF TxBegin, Fetched, IsNext, TypeInv, TypeOK, DbOK, GuiOK
  <2>1. DbOK' /\ GuiOK'
    BY <1>7, <2>0 DEF TxBegin, TypeInv, TypeOK, DbOK, GuiOK
  <2>2. FibersOK' /\ SendInv' /\ AuthInv'
    BY <1>7, <2>0 DEF TxBegin, TypeInv, TypeOK, DbOK, FibersOK, SendInv, AuthInv
  <2>3. FlagsOK'
    BY <1>7, <2>0 DEF TxBegin, TypeInv, TypeOK, FlagsOK
  <2>4. HistoryOK'
    BY <1>7, <2>0 DEF TxBegin, TypeInv, TypeOK, DbOK, HistoryOK
  <2> QED BY <2>1, <2>2, <2>3, <2>4 DEF TypeInv, TypeOK
<1>8. ASSUME NEW id \in Ids, TxNoConnection(id) PROVE TypeInv'
  <2>1. DbOK' /\ GuiOK'
    BY <1>8 DEF TxNoConnection, TypeInv, TypeOK, DbOK, GuiOK
  <2>2. FibersOK' /\ SendInv' /\ AuthInv'
    BY <1>8 DEF TxNoConnection, LoopSleeps, checkForAvailableConnection, TypeInv, TypeOK, DbOK, FibersOK, SendInv, AuthInv
  <2>3. FlagsOK'
    BY <1>8 DEF TxNoConnection, LoopSleeps, TypeInv, TypeOK, FlagsOK
  <2>4. HistoryOK'
    BY <1>8 DEF TxNoConnection, TypeInv, TypeOK, DbOK, HistoryOK
  <2> QED BY <2>1, <2>2, <2>3, <2>4 DEF TypeInv, TypeOK
<1>9. ASSUME NEW id \in Ids, TxMissingSender(id) PROVE TypeInv'
  <2>1. DbOK' /\ GuiOK'
    BY <1>9 DEF TxMissingSender, TypeInv, TypeOK, DbOK, GuiOK
  <2>2. FibersOK' /\ SendInv' /\ AuthInv'
    BY <1>9 DEF TxMissingSender, LoopSleeps, TypeInv, TypeOK, DbOK, FibersOK, SendInv, AuthInv
  <2>3. FlagsOK'
    BY <1>9 DEF TxMissingSender, LoopSleeps, TypeInv, TypeOK, FlagsOK
  <2>4. HistoryOK'
    BY <1>9 DEF TxMissingSender, TypeInv, TypeOK, DbOK, HistoryOK
  <2> QED BY <2>1, <2>2, <2>3, <2>4 DEF TypeInv, TypeOK
<1>10. ASSUME NEW id \in Ids, TxNoRecipients(id) PROVE TypeInv'
  <2>1. DbOK' /\ GuiOK'
    BY <1>10, StoredType DEF TxNoRecipients, moveMsgToSentDB, TypeInv, TypeOK, DbOK, GuiOK
  <2>2. FibersOK' /\ SendInv' /\ AuthInv'
    BY <1>10 DEF TxNoRecipients, LoopSleeps, TypeInv, TypeOK, DbOK, FibersOK, SendInv, AuthInv
  <2>3. FlagsOK'
    BY <1>10 DEF TxNoRecipients, LoopSleeps, TypeInv, TypeOK, FlagsOK
  <2>4. HistoryOK'
    BY <1>10 DEF TxNoRecipients, TypeInv, TypeOK, DbOK, HistoryOK
  <2> QED BY <2>1, <2>2, <2>3, <2>4 DEF TypeInv, TypeOK
<1>11. ASSUME TxNextRecipient PROVE TypeInv'
  <2>0. /\ txPc = "send"
        /\ txMsg \in 1..Len(msg) /\ txMsg \in Ids
        /\ txDone \in Nat /\ txDone + 1 \in 1..MaxRcpts /\ msg[txMsg].n \in 0..MaxRcpts
        /\ txDone + 1 <= msg[txMsg].n
    BY <1>11, InHand DEF TxNextRecipient, InSend
  <2>1. DbOK' /\ GuiOK'
    BY <1>11, <2>0 DEF TxNextRecipient, TypeInv, TypeOK, DbOK, GuiOK
  <2>2. FibersOK' /\ SendInv' /\ AuthInv'
    BY <1>11, <2>0 DEF TxNextRecipient, LastRecipient, TypeInv, TypeOK, DbOK, FibersOK, SendInv, AuthInv
  <2>3. FlagsOK'
    BY <1>11, <2>0 DEF TxNextRecipient, TypeInv, TypeOK, FlagsOK
  <2>4. HistoryOK'
    BY <1>11, <2>0, DeliveredType DEF TxNextRecipient, TypeInv, TypeOK, DbOK, HistoryOK
  <2> QED BY <2>1, <2>2, <2>3, <2>4 DEF TypeInv, TypeOK
<1>12. ASSUME TxTransferred PROVE TypeInv'
  <2>0. /\ txPc = "send"
        /\ txMsg \in 1..Len(msg) /\ txMsg \in Ids
        /\ txDone \in Nat /\ txDone + 1 \in 1..MaxRcpts /\ msg[txMsg].n \in 0..MaxRcpts
        /\ txDone + 1 <= msg[txMsg].n
    BY <1>12, InHand DEF TxTransferred, InSend
  <2>1. DbOK' /\ GuiOK'
    BY <1>12, <2>0, TransferredType DEF TxTransferred, TypeInv, TypeOK, DbOK, GuiOK
  <2>2. FibersOK' /\ SendInv' /\ AuthInv'
    BY <1>12, <2>0 DEF TxTransferred, LoopSleeps, TypeInv, TypeOK, DbOK, FibersOK, SendInv, AuthInv
  <2>3. FlagsOK'
    BY <1>12, <2>0 DEF TxTransferred, LoopSleeps, TypeInv, TypeOK, FlagsOK
  <2>4. HistoryOK'
    BY <1>12, <2>0, DeliveredType DEF TxTransferred, TypeInv, TypeOK, DbOK, HistoryOK
  <2> QED BY <2>1, <2>2, <2>3, <2>4 DEF TypeInv, TypeOK
<1>13. ASSUME TxLostConnection PROVE TypeInv'
  <2>0. /\ txPc = "send"
        /\ txMsg \in 1..Len(msg) /\ txMsg \in Ids
        /\ txDone \in Nat /\ txDone + 1 \in 1..MaxRcpts /\ msg[txMsg].n \in 0..MaxRcpts
        /\ txDone + 1 <= msg[txMsg].n
    BY <1>13, InHand DEF TxLostConnection, InSend
  <2>1. DbOK' /\ GuiOK'
    BY <1>13, <2>0 DEF TxLostConnection, TransferAborted, TypeInv, TypeOK, DbOK, GuiOK
  <2>2. FibersOK' /\ SendInv' /\ AuthInv'
    BY <1>13, <2>0 DEF TxLostConnection, TransferAborted, LoopSleeps, checkForAvailableConnection, TypeInv, TypeOK, DbOK, FibersOK, SendInv, AuthInv
  <2>3. FlagsOK'
    BY <1>13, <2>0 DEF TxLostConnection, TransferAborted, LoopSleeps, TypeInv, TypeOK, FlagsOK
  <2>4. HistoryOK'
    BY <1>13, <2>0, DeliveredType DEF TxLostConnection, TransferAborted, TypeInv, TypeOK, DbOK, HistoryOK
  <2> QED BY <2>1, <2>2, <2>3, <2>4 DEF TypeInv, TypeOK
<1>14. ASSUME TxSendFails PROVE TypeInv'
  <2>0. /\ txPc = "send"
        /\ txMsg \in 1..Len(msg) /\ txMsg \in Ids
        /\ txDone \in Nat /\ txDone + 1 \in 1..MaxRcpts /\ msg[txMsg].n \in 0..MaxRcpts
        /\ txDone + 1 <= msg[txMsg].n
    BY <1>14, InHand DEF TxSendFails, InSend
  <2>1. DbOK' /\ GuiOK'
    BY <1>14, <2>0 DEF TxSendFails, TransferAborted, TypeInv, TypeOK, DbOK, GuiOK
  <2>2. FibersOK' /\ SendInv' /\ AuthInv'
    BY <1>14, <2>0 DEF TxSendFails, TransferAborted, LoopSleeps, checkForAvailableConnection, TypeInv, TypeOK, DbOK, FibersOK, SendInv, AuthInv
  <2>3. FlagsOK'
    BY <1>14, <2>0 DEF TxSendFails, TransferAborted, LoopSleeps, TypeInv, TypeOK, FlagsOK
  <2>4. delivered' \in [Ids -> [1..MaxRcpts -> Nat]]
    BY <1>14, <2>0, DeliveredType DEF TxSendFails, TransferAborted, TypeInv, TypeOK, HistoryOK
  <2>5. interrupted' \subseteq 1..Len(msg)
    BY <1>14, <2>0 DEF TxSendFails, TransferAborted, TypeInv, TypeOK, HistoryOK
  <2>6. msg' = msg /\ UNCHANGED <<discarded, starts>> /\ troubles' \in 0..MaxTroubles
    BY <1>14 DEF TxSendFails, TransferAborted, TypeInv, TypeOK, HistoryOK
  <2>7. HistoryOK'
    BY <2>4, <2>5, <2>6 DEF TypeInv, TypeOK, HistoryOK
  <2> QED BY <2>1, <2>2, <2>3, <2>7 DEF TypeInv, TypeOK
<1>15. ASSUME TxStoreFails PROVE TypeInv'
  <2> USE DEF MoveFails
  <2>0. /\ txPc = "send"
        /\ txMsg \in 1..Len(msg) /\ txMsg \in Ids
        /\ txDone \in Nat /\ txDone + 1 \in 1..MaxRcpts /\ msg[txMsg].n \in 0..MaxRcpts
        /\ txDone + 1 <= msg[txMsg].n
    BY <1>15, InHand DEF TxStoreFails, InSend
  <2>1. DbOK' /\ GuiOK'
    BY <1>15, <2>0, StoredType DEF TxStoreFails, TypeInv, TypeOK, DbOK, GuiOK
  <2>2. FibersOK' /\ SendInv' /\ AuthInv'
    <3>1. msg' = msg /\ chk' = chk /\ LoopSleeps
      BY <1>15 DEF TxStoreFails
    <3> QED BY <3>1 DEF LoopSleeps, TypeInv, TypeOK, DbOK, FibersOK, SendInv, AuthInv
  <2>3. FlagsOK'
    BY <1>15, <2>0 DEF TxStoreFails, LoopSleeps, TypeInv, TypeOK, FlagsOK
  <2>4. delivered' \in [Ids -> [1..MaxRcpts -> Nat]]
    BY <1>15, <2>0, DeliveredType DEF TxStoreFails, TypeInv, TypeOK, HistoryOK
  <2>5. interrupted' \subseteq 1..Len(msg)
    BY <1>15, <2>0 DEF TxStoreFails, TypeInv, TypeOK, HistoryOK
  <2>6. msg' = msg /\ UNCHANGED <<discarded, starts>> /\ troubles' \in 0..MaxTroubles
    BY <1>15 DEF TxStoreFails, TypeInv, TypeOK, HistoryOK
  <2>7. HistoryOK'
    BY <2>4, <2>5, <2>6 DEF TypeInv, TypeOK, HistoryOK
  <2> QED BY <2>1, <2>2, <2>3, <2>7 DEF TypeInv, TypeOK
<1>16. ASSUME CloseWindow PROVE TypeInv'
  BY <1>16 DEF CloseWindow, TypeInv, TypeOK, DbOK, GuiOK, FibersOK, FlagsOK, HistoryOK, SendInv, AuthInv
<1>17. ASSUME AskToStop PROVE TypeInv'
  BY <1>17 DEF AskToStop, TypeInv, TypeOK, DbOK, GuiOK, FibersOK, FlagsOK, HistoryOK, SendInv, AuthInv
<1>18. ASSUME AnswerNo PROVE TypeInv'
  BY <1>18 DEF AnswerNo, TypeInv, TypeOK, DbOK, GuiOK, FibersOK, FlagsOK, HistoryOK, SendInv, AuthInv
<1>19. ASSUME AnswerYes PROVE TypeInv'
  <2>1. DbOK' /\ FibersOK' /\ SendInv' /\ AuthInv' /\ notes' \in Seq(Note) /\ msg' = msg
    BY <1>19, TypeStop, StopKeepsMsg DEF AnswerYes
  <2>2. GuiOK'
    BY <1>19, <2>1 DEF AnswerYes, TypeInv, TypeOK, GuiOK
  <2>3. FlagsOK'
    BY <1>19, TypeStop DEF AnswerYes, TypeInv, TypeOK, FlagsOK
  <2>4. HistoryOK'
    BY <1>19, <2>1, TypeStop DEF AnswerYes, TypeInv, TypeOK, HistoryOK
  <2> QED BY <2>1, <2>2, <2>3, <2>4 DEF TypeInv, TypeOK
<1>20. ASSUME Release PROVE TypeInv'
  <2>1. DbOK' /\ FibersOK' /\ SendInv' /\ AuthInv' /\ notes' \in Seq(Note) /\ msg' = msg
    BY <1>20, TypeStop, StopKeepsMsg DEF Release
  <2>2. GuiOK'
    BY <1>20, <2>1 DEF Release, TypeInv, TypeOK, GuiOK
  <2>3. FlagsOK'
    BY <1>20, TypeStop DEF Release, TypeInv, TypeOK, FlagsOK
  <2>4. HistoryOK'
    BY <1>20, <2>1, TypeStop DEF Release, TypeInv, TypeOK, HistoryOK
  <2> QED BY <2>1, <2>2, <2>3, <2>4 DEF TypeInv, TypeOK
<1>21. ASSUME Crash PROVE TypeInv'
  <2>1. DbOK' /\ GuiOK'
    BY <1>21 DEF Crash, MemoryLost, TypeInv, TypeOK, DbOK, GuiOK
  <2>2. FibersOK' /\ SendInv' /\ AuthInv'
    BY <1>21 DEF Crash, MemoryLost, FiberGone, TypeInv, TypeOK, DbOK, FibersOK, SendInv, AuthInv
  <2>3. FlagsOK'
    BY <1>21 DEF Crash, MemoryLost, FiberGone, TypeInv, TypeOK, FlagsOK
  <2>4. interrupted' \subseteq 1..Len(msg)
    BY <1>21, InHand DEF Crash, MemoryLost, TypeInv, TypeOK, HistoryOK
  <2>5. msg' = msg /\ UNCHANGED <<delivered, discarded, starts>> /\ troubles' \in 0..MaxTroubles
    BY <1>21 DEF Crash, MemoryLost, TypeInv, TypeOK, HistoryOK
  <2>6. HistoryOK'
    BY <2>4, <2>5 DEF TypeInv, TypeOK, HistoryOK
  <2> QED BY <2>1, <2>2, <2>3, <2>6 DEF TypeInv, TypeOK
<1>22. ASSUME CrashInMove PROVE TypeInv'
  <2>0. /\ txPc = "send"
        /\ txMsg \in 1..Len(msg) /\ txMsg \in Ids
        /\ txDone \in Nat /\ txDone + 1 \in 1..MaxRcpts /\ msg[txMsg].n \in 0..MaxRcpts
        /\ txDone + 1 <= msg[txMsg].n
    BY <1>22, InHand DEF CrashInMove, InSend
  <2>1. DbOK' /\ GuiOK'
    <3>1. /\ UNCHANGED <<msg, outbox, drafts, identities>>
          /\ app' = "off" /\ rows' = {} /\ hidden' = {} /\ stuck' = {} /\ notes' = <<>>
      BY <1>22 DEF CrashInMove, MemoryLost
    <3>2. sent' \in [Ids -> Nat]
      BY <1>22, <2>0, StoredType DEF CrashInMove, TypeInv, TypeOK, DbOK
    <3> QED BY <3>1, <3>2 DEF TypeInv, TypeOK, DbOK, GuiOK
  <2>2. FibersOK' /\ SendInv' /\ AuthInv'
    BY <1>22, <2>0 DEF CrashInMove, MemoryLost, FiberGone, TypeInv, TypeOK, DbOK, FibersOK, SendInv, AuthInv
  <2>3. FlagsOK'
    BY <1>22, <2>0 DEF CrashInMove, MemoryLost, FiberGone, TypeInv, TypeOK, FlagsOK
  <2>4. delivered' \in [Ids -> [1..MaxRcpts -> Nat]]
    BY <1>22, <2>0, DeliveredType DEF CrashInMove, MemoryLost, TypeInv, TypeOK, HistoryOK
  <2>5. interrupted' \subseteq 1..Len(msg)
    BY <1>22, <2>0 DEF CrashInMove, MemoryLost, TypeInv, TypeOK, HistoryOK
  <2>6. msg' = msg /\ UNCHANGED <<discarded, starts>> /\ troubles' \in 0..MaxTroubles
    BY <1>22 DEF CrashInMove, MemoryLost, TypeInv, TypeOK, HistoryOK
  <2>7. HistoryOK'
    BY <2>4, <2>5, <2>6 DEF TypeInv, TypeOK, HistoryOK
  <2> QED BY <2>1, <2>2, <2>3, <2>7 DEF TypeInv, TypeOK
<1>23. ASSUME NEW s \in Identities, CrashInDeleteIdentity(s) PROVE TypeInv'
  <2>0. /\ drafts' \subseteq 0..Len(msg) /\ outbox' \subseteq outbox
        /\ discarded' \subseteq 1..Len(msg)
    <3>0. discarded \subseteq 1..Len(msg) /\ outbox \subseteq 1..Len(msg)
      BY DEF TypeInv, TypeOK, DbOK, HistoryOK
    <3>1. ASSUME NEW r, SavedFrom(s, r)
          PROVE  /\ drafts' \subseteq 0..Len(msg) /\ outbox' \subseteq outbox
                 /\ discarded' = discarded
      BY <3>1, DraftsType DEF SavedFrom, RowsOf
    <3>2. ASSUME NEW k, RequestsGone(s, k)
          PROVE  /\ drafts' \subseteq 0..Len(msg) /\ outbox' \subseteq outbox
                 /\ discarded' \subseteq discarded \cup outbox
      BY <3>2, DraftsType DEF RequestsGone, RowsOf, AuthsOf, Auths
    <3> QED BY <1>23, <3>0, <3>1, <3>2 DEF CrashInDeleteIdentity
  <2>1. DbOK' /\ GuiOK'
    <3>1. /\ UNCHANGED <<msg, sent, identities>>
          /\ app' = "off" /\ rows' = {} /\ hidden' = {} /\ stuck' = {} /\ notes' = <<>>
      BY <1>23 DEF CrashInDeleteIdentity, MemoryLost
    <3> QED BY <2>0, <3>1 DEF TypeInv, TypeOK, DbOK, GuiOK
  <2>2. FibersOK' /\ SendInv' /\ AuthInv'
    BY <1>23, <2>0 DEF CrashInDeleteIdentity, MemoryLost, FiberGone, TypeInv, TypeOK, DbOK, FibersOK, SendInv, AuthInv
  <2>3. FlagsOK'
    BY <1>23, <2>0 DEF CrashInDeleteIdentity, MemoryLost, FiberGone, TypeInv, TypeOK, FlagsOK
  <2>4. delivered' \in [Ids -> [1..MaxRcpts -> Nat]]
    BY <1>23, <2>0, InHand DEF CrashInDeleteIdentity, MemoryLost, TypeInv, TypeOK, HistoryOK
  <2>5. interrupted' \subseteq 1..Len(msg)
    BY <1>23, <2>0, InHand DEF CrashInDeleteIdentity, MemoryLost, TypeInv, TypeOK, HistoryOK
  <2>6. msg' = msg /\ UNCHANGED starts /\ troubles' \in 0..MaxTroubles
    BY <1>23 DEF CrashInDeleteIdentity, MemoryLost, TypeInv, TypeOK, HistoryOK
  <2>7. HistoryOK'
    BY <2>0, <2>4, <2>5, <2>6 DEF TypeInv, TypeOK, HistoryOK
  <2> QED BY <2>1, <2>2, <2>3, <2>7 DEF TypeInv, TypeOK
<1>24. ASSUME Start PROVE TypeInv'
  <2>1. DbOK' /\ GuiOK'
    <3>1. UNCHANGED <<msg, outbox, sent, drafts, identities>>
      BY <1>24 DEF Start
    <3>2. /\ app' = "running" /\ notes' = <<>> /\ rows' \subseteq outbox
          /\ hidden' = {} /\ stuck' = {}
      BY <1>24 DEF Start, Mails
    <3> QED BY <3>1, <3>2 DEF TypeInv, TypeOK, DbOK, GuiOK
  <2>2. FibersOK' /\ SendInv' /\ AuthInv'
    BY <1>24 DEF Start, FiberGone, TypeInv, TypeOK, DbOK, FibersOK, SendInv, AuthInv
  <2>3. FlagsOK'
    BY <1>24 DEF Start, FiberGone, TypeInv, TypeOK, FlagsOK
  <2>4. HistoryOK'
    BY <1>24 DEF Start, TypeInv, TypeOK, DbOK, HistoryOK
  <2> QED BY <2>1, <2>2, <2>3, <2>4 DEF TypeInv, TypeOK
<1>25. ASSUME Connect PROVE TypeInv'
  BY <1>25 DEF Connect, TypeInv, TypeOK, DbOK, GuiOK, FibersOK, FlagsOK, HistoryOK, SendInv, AuthInv
<1>26. ASSUME Disconnect PROVE TypeInv'
  <2>1. DbOK' /\ GuiOK'
    BY <1>26 DEF Disconnect, TypeInv, TypeOK, DbOK, GuiOK
  <2>2. FibersOK' /\ SendInv' /\ AuthInv'
    BY <1>26 DEF Disconnect, TypeInv, TypeOK, DbOK, FibersOK, SendInv, AuthInv
  <2>3. FlagsOK'
    BY <1>26 DEF Disconnect, TypeInv, TypeOK, FlagsOK
  <2>4. HistoryOK'
    BY <1>26 DEF Disconnect, TypeInv, TypeOK, DbOK, HistoryOK
  <2> QED BY <2>1, <2>2, <2>3, <2>4 DEF TypeInv, TypeOK
<1>27. ASSUME receiving_mail_message PROVE TypeInv'
  BY <1>27 DEF receiving_mail_message, TypeInv, TypeOK, DbOK, GuiOK, FibersOK, FlagsOK, HistoryOK, SendInv, AuthInv
<1>28. ASSUME message_transmission_finished PROVE TypeInv'
  BY <1>28 DEF message_transmission_finished, TypeInv, TypeOK, DbOK, GuiOK, FibersOK, FlagsOK, HistoryOK, SendInv, AuthInv
<1>29. ASSUME NEW id \in Ids, TxNoRecipientsFails(id) PROVE TypeInv'
  <2> USE DEF MoveFails
  <2>0. id \in 1..Len(msg)
    BY <1>29 DEF TxNoRecipientsFails, Fetched, IsNext, TypeInv, TypeOK, DbOK
  <2>1. DbOK' /\ GuiOK'
    BY <1>29, StoredType DEF TxNoRecipientsFails, TypeInv, TypeOK, DbOK, GuiOK
  <2>2. FibersOK' /\ SendInv' /\ AuthInv'
    BY <1>29 DEF TxNoRecipientsFails, LoopSleeps, TypeInv, TypeOK, DbOK, FibersOK, SendInv, AuthInv
  <2>3. FlagsOK'
    BY <1>29 DEF TxNoRecipientsFails, LoopSleeps, TypeInv, TypeOK, FlagsOK
  <2>4. HistoryOK'
    <3>1. /\ UNCHANGED <<msg, delivered, discarded, starts>>
          /\ interrupted' = interrupted \cup {id} /\ Trouble
      BY <1>29 DEF TxNoRecipientsFails
    <3> QED BY <2>0, <3>1 DEF TypeInv, TypeOK, HistoryOK
  <2> QED BY <2>1, <2>2, <2>3, <2>4 DEF TypeInv, TypeOK
<1>30. ASSUME TxRemoveFails PROVE TypeInv'
  <2>0. txPc = "send" /\ txMsg \in 1..Len(msg)
    BY <1>30, InHand DEF TxRemoveFails, InSend
  <2>1. DbOK' /\ GuiOK'
    BY <1>30 DEF TxRemoveFails, TypeInv, TypeOK, DbOK, GuiOK
  <2>2. FibersOK' /\ SendInv' /\ AuthInv'
    BY <1>30 DEF TxRemoveFails, FiberGone, TypeInv, TypeOK, DbOK, FibersOK, SendInv, AuthInv
  <2>3. FlagsOK'
    BY <1>30 DEF TxRemoveFails, FiberGone, TypeInv, TypeOK, FlagsOK
  <2>4. delivered' \in [Ids -> [1..MaxRcpts -> Nat]]
    BY <1>30, <2>0, DeliveredType DEF TxRemoveFails
  <2>5. HistoryOK'
    BY <1>30, <2>0, <2>4 DEF TxRemoveFails, TypeInv, TypeOK, HistoryOK
  <2> QED BY <2>1, <2>2, <2>3, <2>5 DEF TypeInv, TypeOK
<1>31. ASSUME WindowRefuses PROVE TypeInv'
  BY <1>31 DEF WindowRefuses, TypeInv, TypeOK, DbOK, GuiOK, FibersOK, FlagsOK, HistoryOK, SendInv, AuthInv
<1>32. ASSUME ReleaseInSend PROVE TypeInv'
  <2>0. txPc = "send" /\ txMsg \in 1..Len(msg) /\ txMsg \in Ids
    BY <1>32, InHand DEF ReleaseInSend
  <2>1. DbOK' /\ GuiOK'
    <3>1. /\ UNCHANGED <<msg, drafts, identities>>
          /\ app' = "off" /\ rows' = {} /\ hidden' = {} /\ stuck' = {} /\ notes' = <<>>
      BY <1>32 DEF ReleaseInSend, MemoryLost
    <3>2. outbox' \subseteq outbox /\ sent' \in [Ids -> Nat]
      BY <1>32, <2>0, StoredType DEF ReleaseInSend, TypeInv, TypeOK, DbOK
    <3> QED BY <3>1, <3>2 DEF TypeInv, TypeOK, DbOK, GuiOK
  <2>2. FibersOK' /\ SendInv' /\ AuthInv'
    BY <1>32 DEF ReleaseInSend, MemoryLost, FiberGone, TypeInv, TypeOK, DbOK, FibersOK, SendInv, AuthInv
  <2>3. FlagsOK'
    BY <1>32 DEF ReleaseInSend, MemoryLost, FiberGone, TypeInv, TypeOK, FlagsOK
  <2>4. delivered' \in [Ids -> [1..MaxRcpts -> Nat]]
    BY <1>32, <2>0, DeliveredType DEF ReleaseInSend, TypeInv, TypeOK, HistoryOK
  <2>5. HistoryOK'
    BY <1>32, <2>0, <2>4 DEF ReleaseInSend, MemoryLost, TypeInv, TypeOK, HistoryOK
  <2> QED BY <2>1, <2>2, <2>3, <2>5 DEF TypeInv, TypeOK
<1> QED
  BY <1>0, <1>1, <1>2, <1>3, <1>4, <1>5, <1>6, <1>7, <1>8, <1>9, <1>10, <1>11, <1>12, <1>13, <1>14, <1>15, <1>16, <1>17, <1>18, <1>19, <1>20, <1>21, <1>22, <1>23, <1>24, <1>25, <1>26, <1>27, <1>28, <1>29,
     <1>30, <1>31, <1>32, <1>33
  DEF Next, User, Transmit, Process, Network

\* Every state the program can reach is well typed, for any number of
\* messages, recipients, identities, failures and restarts.
THEOREM TypeCorrect == Spec => []TypeOK
<1>1. TypeInv /\ UNCHANGED vars => TypeInv'
  BY DEF vars, TypeInv, TypeOK, DbOK, GuiOK, FibersOK, FlagsOK, HistoryOK, SendInv, AuthInv
<1>2. TypeInv /\ [Next]_vars => TypeInv'
  BY <1>1, TypeStep
<1>3. TypeInv => TypeOK
  BY DEF TypeInv
<1> QED BY TypeInit, <1>2, <1>3, PTL DEF Spec

-----------------------------------------------------------------------------
(* No lost wakeup.                                                         *)

\* Every step leaves a queued message with a fiber that will get to it.
LEMMA WakeupStep ==
  ASSUME NeverForgotten, Next PROVE NeverForgotten'
<1> USE DEF NeverForgotten, Alive, dbVars, txVars, netVars, histVars
<1>1. ASSUME NEW m, Enqueue(m) PROVE NeverForgotten'
  BY <1>1 DEF Enqueue, checkForAvailableConnection
<1>2. ASSUME NEW id \in Ids, DeleteMail(id) PROVE NeverForgotten'
  BY <1>2 DEF DeleteMail
<1>3. ASSUME NEW s \in Identities, DeleteIdentity(s) PROVE NeverForgotten'
  BY <1>3 DEF DeleteIdentity
<1>4. ASSUME DeliverNote PROVE NeverForgotten'
  BY <1>4 DEF DeliverNote, OnMessagePending, OnMessageSent
<1>5. ASSUME CheckConnection PROVE NeverForgotten'
  BY <1>5 DEF CheckConnection, startTransmission
<1>6. ASSUME TxFinish \/ TxFetchFails \/ TxRemoveFails PROVE NeverForgotten'
  BY <1>6 DEF TxFinish, TxFetchFails, TxRemoveFails, LoopEnds, FiberGone
<1>7. ASSUME NEW id \in Ids, TxBegin(id) PROVE NeverForgotten'
  BY <1>7 DEF TxBegin
<1>8. ASSUME LoopSleeps PROVE NeverForgotten'
  BY <1>8 DEF LoopSleeps
<1>9. ASSUME TxNextRecipient PROVE NeverForgotten'
  BY <1>9 DEF TxNextRecipient, InSend
<1>10. ASSUME CloseWindow \/ AskToStop \/ AnswerNo \/ WindowRefuses PROVE NeverForgotten'
  BY <1>10 DEF CloseWindow, AskToStop, AnswerNo, WindowRefuses
<1>11. ASSUME AnswerYes PROVE NeverForgotten'
  BY <1>11 DEF AnswerYes, StopTransmission, NothingToStop
<1>12. ASSUME app' = "off" PROVE NeverForgotten'
  BY <1>12
<1>13. ASSUME Start PROVE NeverForgotten'
  BY <1>13 DEF Start
<1>14. ASSUME Network PROVE NeverForgotten'
  BY <1>14 DEF Network, Connect, Disconnect, receiving_mail_message,
     message_transmission_finished
<1>15. ASSUME User PROVE NeverForgotten'
  BY <1>1, <1>2, <1>3, <1>10, <1>11, <1>15 DEF User, AddPendingMessage, AddPendingAuthoMsg,
     searchEditChanged
<1>16. ASSUME Transmit PROVE NeverForgotten'
  BY <1>6, <1>7, <1>8, <1>9, <1>16 DEF Transmit, TxNoConnection, TxMissingSender,
     TxNoRecipients, TxTransferred, TxLostConnection, TxSendFails, TxStoreFails,
     TransferAborted, TxNoRecipientsFails, MoveFails
<1>17. ASSUME Process PROVE NeverForgotten'
  BY <1>12, <1>13, <1>17 DEF Process, Release, ReleaseInSend, Crash, CrashInMove,
     CrashInDeleteIdentity, MemoryLost
<1> QED BY <1>4, <1>5, <1>14, <1>15, <1>16, <1>17 DEF Next

\* A queued message always has a fiber that will get to it, unless the queue
\* was cancelled or gave up on a database error.
THEOREM NoLostWakeup == Spec => []NeverForgotten
<1>1. Init => NeverForgotten
  BY DEF Init, NeverForgotten
<1>2. NeverForgotten /\ UNCHANGED vars => NeverForgotten'
  BY DEF vars, NeverForgotten, Alive
<1>3. NeverForgotten /\ [Next]_vars => NeverForgotten'
  BY <1>2, WakeupStep
<1> QED BY <1>1, <1>3, PTL DEF Spec

-----------------------------------------------------------------------------
(* No mail is lost.                                                        *)

\* Behind a posted OnMessageSent there is a copy in sent_db: delivering it may
\* therefore remove the message from pending_db.
SentNotes ==
  \A k \in 1..Len(notes) : notes[k].type = "sent" => sent[notes[k].id] > 0

SafeInv == TypeInv /\ NoMailLost /\ SentNotes

\* Copies never leave sent_db.
LEMMA SentGrows ==
  ASSUME TypeInv, Next PROVE \A i \in Ids : sent[i] > 0 => sent'[i] > 0
<1> SUFFICES sent' = sent \/ \E id \in Ids : sent' = [sent EXCEPT ![id] = @ + 1]
  BY DEF TypeInv, TypeOK, DbOK
<1> USE DEF dbVars
<1>1. ASSUME User PROVE sent' = sent \/ \E id \in Ids : sent' = [sent EXCEPT ![id] = @ + 1]
  BY <1>1, InHand DEF User, AddPendingMessage, AddPendingAuthoMsg, Enqueue, DeleteMail,
     searchEditChanged, DeleteIdentity, CloseWindow, AskToStop, AnswerNo, AnswerYes, WindowRefuses, StopTransmission,
     NothingToStop, StopsSleeping, StopsSending, Transferred, moveMsgToSentDB
<1>2. ASSUME Transmit PROVE sent' = sent \/ \E id \in Ids : sent' = [sent EXCEPT ![id] = @ + 1]
  BY <1>2, InHand DEF Transmit, TxFinish, TxFetchFails, LoopEnds, TxBegin, TxNoConnection,
     TxMissingSender, TxNoRecipients, TxNextRecipient, TxTransferred, TxLostConnection,
     TxSendFails, TxStoreFails, TransferAborted, Transferred, moveMsgToSentDB, InSend,
     TxNoRecipientsFails, TxRemoveFails, MoveFails
<1>3. ASSUME Process PROVE sent' = sent \/ \E id \in Ids : sent' = [sent EXCEPT ![id] = @ + 1]
  BY <1>3, InHand DEF Process, Release, ReleaseInSend, Start, Crash, CrashInMove, CrashInDeleteIdentity,
     StopTransmission, NothingToStop, StopsSleeping, StopsSending, Transferred,
     moveMsgToSentDB, InSend
<1> QED BY <1>1, <1>2, <1>3 DEF Next, DeliverNote, CheckConnection, Network, Connect,
     Disconnect, receiving_mail_message, message_transmission_finished

\* A step that stores no new message loses no mail, if every mail it takes out
\* of pending_db is then in sent_db, in draft_db or deleted by the user.
LEMMA KeptByStep ==
  ASSUME TypeInv, NoMailLost, Next, msg' = msg,
         drafts \subseteq drafts', discarded \subseteq discarded',
         \A i \in Mails(outbox) \ outbox' :
           sent'[i] > 0 \/ i \in drafts' \/ i \in discarded'
  PROVE  NoMailLost'
<1> SUFFICES ASSUME NEW i \in 1..Len(msg), msg[i].kind = "mail"
             PROVE  i \in outbox' \/ sent'[i] > 0 \/ i \in drafts' \/ i \in discarded'
  BY DEF NoMailLost
<1>1. i \in Ids
  BY DEF TypeInv, TypeOK, DbOK, Ids
<1>2. sent[i] > 0 => sent'[i] > 0
  BY <1>1, SentGrows
<1> QED BY <1>2 DEF NoMailLost, Mails

\* The notifications stay backed by sent_db when a step posts nothing but
\* OnMessagePending, or OnMessageSent for a mail that is in sent_db by then.
LEMMA NotesByStep ==
  ASSUME TypeInv, SentNotes, Next,
         \/ notes' = notes
         \/ notes' = <<>>
         \/ notes # <<>> /\ notes' = Tail(notes)
         \/ \E id \in Ids : notes' = Append(notes, Post("pending", id))
         \/ \E id \in Ids : notes' = Append(notes, Post("sent", id)) /\ sent'[id] > 0
  PROVE  SentNotes'
<1>1. notes \in Seq(Note) /\ \A k \in 1..Len(notes) : notes[k].id \in Ids
  <2>1. notes \in Seq(Note)
    BY DEF TypeInv, TypeOK, GuiOK
  <2>2. \A k \in 1..Len(notes) : notes[k] \in Note
    BY <2>1
  <2> QED BY <2>1, <2>2 DEF Note
<1>2. \A k \in 1..Len(notes) : notes[k].type = "sent" => sent'[notes[k].id] > 0
  BY <1>1, SentGrows DEF SentNotes
<1>3. CASE notes' = notes \/ notes' = <<>>
  BY <1>2, <1>3 DEF SentNotes
<1>4. CASE notes # <<>> /\ notes' = Tail(notes)
  BY <1>1, <1>2, <1>4 DEF SentNotes
<1>5. ASSUME NEW id \in Ids, NEW type \in {"pending", "sent"},
             notes' = Append(notes, Post(type, id)),
             type = "sent" => sent'[id] > 0
      PROVE  SentNotes'
  <2>1. /\ Len(notes') = Len(notes) + 1 /\ Len(notes) \in Nat
        /\ notes'[Len(notes) + 1] = Post(type, id)
        /\ \A k \in 1..Len(notes) : notes'[k] = notes[k]
    BY <1>1, <1>5
  <2> SUFFICES ASSUME NEW k \in 1..Len(notes'), notes'[k].type = "sent"
               PROVE  sent'[notes'[k].id] > 0
    BY DEF SentNotes
  <2>2. k \in 1..Len(notes) \/ k = Len(notes) + 1
    BY <2>1
  <2> QED BY <1>2, <1>5, <2>1, <2>2 DEF Post
<1> QED BY <1>3, <1>4, <1>5

\* Queueing a message puts it in pending_db.
LEMMA KeptByEnqueue ==
  ASSUME TypeInv, NoMailLost, NEW m, Enqueue(m) PROVE NoMailLost'
<1>1. /\ Len(msg') = Len(msg) + 1 /\ Len(msg) \in Nat
      /\ \A i \in 1..Len(msg) : msg'[i] = msg[i]
      /\ outbox' = outbox \cup {Len(msg) + 1}
      /\ UNCHANGED <<sent, drafts, discarded>>
  BY DEF Enqueue, TypeInv, TypeOK, DbOK, histVars
<1>2. \A i \in 1..Len(msg') : i \in 1..Len(msg) \/ i \in outbox'
  BY <1>1
<1> QED BY <1>1, <1>2 DEF NoMailLost

\* A completed transfer takes a mail out of pending_db only with a copy in
\* sent_db, and says so only then.
LEMMA TransferKeeps ==
  ASSUME TypeInv, NEW id \in Ids, Transferred(id)
  PROVE  /\ \A i \in Mails(outbox) \ outbox' : sent'[i] > 0
         /\ \/ notes' = notes
            \/ notes' = Append(notes, Post("sent", id)) /\ sent'[id] > 0
BY DEF Transferred, moveMsgToSentDB, Mails, TypeInv, TypeOK, DbOK

\* Stopping the fibers takes a mail out of pending_db only if its last
\* recipient was served.
LEMMA StopKeeps ==
  ASSUME TypeInv, StopTransmission
  PROVE  /\ msg' = msg /\ drafts' = drafts
         /\ \A i \in Mails(outbox) \ outbox' : sent'[i] > 0
         /\ \/ notes' = notes
            \/ \E id \in Ids : notes' = Append(notes, Post("sent", id)) /\ sent'[id] > 0
<1>1. CASE NothingToStop \/ StopsSleeping
  BY <1>1 DEF NothingToStop, StopsSleeping, dbVars, Mails
<1>2. CASE StopsSending
  <2>1. txMsg \in Ids
    BY <1>2, InHand DEF StopsSending
  <2>2. msg' = msg /\ drafts' = drafts
    BY <1>2 DEF StopsSending, dbVars
  <2>3. Transferred(txMsg) \/ UNCHANGED <<outbox, notes>>
    BY <1>2 DEF StopsSending, dbVars
  <2> QED BY <2>1, <2>2, <2>3, TransferKeeps DEF Mails
<1> QED BY <1>1, <1>2 DEF StopTransmission

\* Removing the rows of a deleted identity leaves each of its mails in drafts.
LEMMA DraftsKeep ==
  ASSUME NEW S PROVE \A i \in S \cap outbox : i \in DraftsFrom(S)
BY DEF DraftsFrom

\* Every step keeps SafeInv.
LEMMA SafeStep ==
  ASSUME SafeInv, Next PROVE NoMailLost' /\ SentNotes'
<1> USE DEF dbVars, histVars
<1>0. TypeInv /\ NoMailLost /\ SentNotes
  BY DEF SafeInv
<1>1. ASSUME NEW m, Enqueue(m), Len(msg) + 1 \in Ids =>
               notes' = notes \/ notes' = Append(notes, Post("pending", Len(msg) + 1))
      PROVE  NoMailLost' /\ SentNotes'
  <2>1. Len(msg) + 1 \in Ids
    BY <1>0, <1>1 DEF Enqueue, TypeInv, TypeOK, DbOK, Ids
  <2> QED BY <1>0, <1>1, <2>1, KeptByEnqueue, NotesByStep
<1>2. ASSUME NEW id \in Ids, DeleteMail(id) PROVE NoMailLost' /\ SentNotes'
  BY <1>0, <1>2, KeptByStep, NotesByStep DEF DeleteMail, Mails
<1>3. ASSUME NEW s \in Identities, DeleteIdentity(s) PROVE NoMailLost' /\ SentNotes'
  <2>1. \A i \in Mails(outbox) \ outbox' : i \in drafts'
    BY <1>3, DraftsKeep DEF DeleteIdentity, Mails, AuthsOf, Auths
  <2> QED BY <1>0, <1>3, <2>1, KeptByStep, NotesByStep DEF DeleteIdentity
<1>4. ASSUME DeliverNote PROVE NoMailLost' /\ SentNotes'
  <2>1. SentNotes'
    BY <1>0, <1>4, NotesByStep DEF DeliverNote
  <2>2. notes \in Seq(Note) /\ 1 \in 1..Len(notes) /\ Head(notes) = notes[1]
    BY <1>0, <1>4 DEF DeliverNote, TypeInv, TypeOK, GuiOK
  <2>3. Head(notes).type = "sent" => sent[Head(notes).id] > 0
    BY <1>0, <2>2 DEF SentNotes
  <2>4. \A i \in Mails(outbox) \ outbox' : sent'[i] > 0
    BY <1>4, <2>3 DEF DeliverNote, OnMessagePending, OnMessageSent, Mails
  <2> QED BY <1>0, <1>4, <2>1, <2>4, KeptByStep DEF DeliverNote
<1>5. ASSUME UNCHANGED <<msg, outbox, drafts, discarded>>,
             notes' = notes \/ notes' = <<>>
      PROVE  NoMailLost' /\ SentNotes'
  BY <1>0, <1>5, KeptByStep, NotesByStep DEF Mails
<1>6. ASSUME NEW id \in Ids, TxMissingSender(id) PROVE NoMailLost' /\ SentNotes'
  BY <1>0, <1>6, KeptByStep, NotesByStep DEF TxMissingSender, Mails
<1>7. ASSUME NEW id \in Ids, UNCHANGED <<msg, drafts, discarded>>,
             Transferred(id)
      PROVE  NoMailLost' /\ SentNotes'
  <2>1. /\ \A i \in Mails(outbox) \ outbox' : sent'[i] > 0
        /\ \/ notes' = notes
           \/ notes' = Append(notes, Post("sent", id)) /\ sent'[id] > 0
    BY <1>0, <1>7, TransferKeeps
  <2>2. NoMailLost'
    BY <1>0, <1>7, <2>1, KeptByStep
  <2>3. SentNotes'
    BY <1>0, <1>7, <2>1, NotesByStep
  <2> QED BY <2>2, <2>3
<1>8. ASSUME NEW id \in Ids, TxNoRecipients(id) PROVE NoMailLost' /\ SentNotes'
  <2>1. /\ \A i \in Mails(outbox) \ outbox' : sent'[i] > 0
        /\ notes' = Append(notes, Post("sent", id)) /\ sent'[id] > 0
    BY <1>0, <1>8 DEF TxNoRecipients, moveMsgToSentDB, Mails, TypeInv, TypeOK, DbOK
  <2>2. UNCHANGED <<msg, drafts, discarded>>
    BY <1>8 DEF TxNoRecipients
  <2> QED BY <1>0, <2>1, <2>2, KeptByStep, NotesByStep
<1>9. ASSUME TxTransferred PROVE NoMailLost' /\ SentNotes'
  BY <1>0, <1>7, <1>9, InHand DEF TxTransferred, InSend
<1>10. ASSUME NEW id \in Ids, MoveFails(id) PROVE NoMailLost' /\ SentNotes'
  <2>1. UNCHANGED <<msg, outbox, drafts, discarded>>
    BY <1>10 DEF MoveFails
  <2>2. \/ notes' = notes
        \/ notes' = Append(notes, Post("sent", id)) /\ sent'[id] > 0
    BY <1>0, <1>10 DEF MoveFails, TypeInv, TypeOK, DbOK
  <2>3. NoMailLost'
    BY <1>0, <2>1, KeptByStep DEF Mails
  <2> QED BY <1>0, <2>1, <2>2, <2>3, NotesByStep
<1>11. ASSUME StopTransmission, discarded' = discarded PROVE NoMailLost' /\ SentNotes'
  <2>1. NoMailLost'
    BY <1>0, <1>11, StopKeeps, KeptByStep
  <2>2. SentNotes'
    BY <1>0, <1>11, StopKeeps, NotesByStep
  <2> QED BY <2>1, <2>2
<1>12. ASSUME NEW s \in Identities, CrashInDeleteIdentity(s)
       PROVE  NoMailLost' /\ SentNotes'
  <2>1. ASSUME NEW r, SavedFrom(s, r)
        PROVE  /\ \A i \in Mails(outbox) \ outbox' : i \in drafts'
               /\ drafts \subseteq drafts' /\ discarded \subseteq discarded'
    BY <2>1, DraftsKeep DEF SavedFrom, Mails
  <2>2. ASSUME NEW k, RequestsGone(s, k)
        PROVE  /\ \A i \in Mails(outbox) \ outbox' : i \in drafts'
               /\ drafts \subseteq drafts' /\ discarded \subseteq discarded'
    BY <2>2, DraftsKeep DEF RequestsGone, Mails, AuthsOf, Auths
  <2>3. /\ \A i \in Mails(outbox) \ outbox' : i \in drafts'
        /\ drafts \subseteq drafts' /\ discarded \subseteq discarded'
    BY <1>12, <2>1, <2>2 DEF CrashInDeleteIdentity
  <2>4. msg' = msg /\ notes' = <<>>
    BY <1>12 DEF CrashInDeleteIdentity, MemoryLost
  <2> QED BY <1>0, <2>3, <2>4, KeptByStep, NotesByStep
<1>17. ASSUME ReleaseInSend PROVE NoMailLost' /\ SentNotes'
  <2>1. /\ UNCHANGED <<msg, drafts, discarded>> /\ notes' = <<>>
        /\ outbox' = outbox \/ (msg[txMsg].kind = "auth" /\ outbox' = outbox \ {txMsg})
    BY <1>17 DEF ReleaseInSend, MemoryLost
  <2> QED BY <1>0, <2>1, KeptByStep, NotesByStep DEF Mails
<1>13. ASSUME User PROVE NoMailLost' /\ SentNotes'
  BY <1>1, <1>2, <1>3, <1>5, <1>11, <1>13 DEF User, AddPendingMessage,
     AddPendingAuthoMsg, searchEditChanged, CloseWindow, AskToStop, AnswerNo, AnswerYes,
     WindowRefuses
<1>14. ASSUME Transmit PROVE NoMailLost' /\ SentNotes'
  BY <1>0, <1>5, <1>6, <1>8, <1>9, <1>10, <1>14, InHand DEF Transmit, TxFinish,
     TxFetchFails, LoopEnds, TxBegin, TxNoConnection, TxNextRecipient, TxLostConnection,
     TxSendFails, TransferAborted, TxStoreFails, TxNoRecipientsFails, TxRemoveFails, InSend
<1>15. ASSUME Process PROVE NoMailLost' /\ SentNotes'
  BY <1>5, <1>11, <1>12, <1>15, <1>17 DEF Process, Release, Start, Crash, CrashInMove, MemoryLost
<1>16. ASSUME CheckConnection \/ Network PROVE NoMailLost' /\ SentNotes'
  BY <1>5, <1>16 DEF CheckConnection, Network, Connect, Disconnect,
     receiving_mail_message, message_transmission_finished
<1> QED BY <1>4, <1>13, <1>14, <1>15, <1>16 DEF Next

\* A mail the user sent is in the Outbox, in Sent or in Drafts until the user
\* deletes it, through every cancellation, failure and crash.
THEOREM NoMailIsLost == Spec => []NoMailLost
<1>1. Init => SafeInv
  <2>1. Init => NoMailLost /\ SentNotes
    BY DEF Init, NoMailLost, SentNotes
  <2> QED BY <2>1, TypeInit DEF SafeInv
<1>2. SafeInv /\ UNCHANGED vars => SafeInv'
  BY DEF vars, SafeInv, TypeInv, TypeOK, DbOK, GuiOK, FibersOK, FlagsOK, HistoryOK,
     SendInv, AuthInv, NoMailLost, SentNotes
<1>3. SafeInv /\ [Next]_vars => SafeInv'
  BY <1>2, TypeStep, SafeStep DEF SafeInv
<1>4. SafeInv => NoMailLost
  BY DEF SafeInv
<1> QED BY <1>1, <1>3, <1>4, PTL DEF Spec
=============================================================================
