----------------------------- MODULE MailFolder -----------------------------
(***************************************************************************)
(* One mail folder: its database (a bts::bitchat::message_db), the rows    *)
(* MailboxModel keeps of it, the proxy that sorts them and filters them by *)
(* the search text, the selection and viewer of Mailbox, and for the       *)
(* Drafts folder the editors that save into it.                            *)
(*                                                                         *)
(* The database is written first and the rows follow through the FIFO of   *)
(* posted notifications (`notes'), so the two differ while one is on its   *)
(* way.  `kind' says which folder this is and with it which handlers write *)
(* to it.  A digest stands for a message; digests are handed out in        *)
(* increasing order and never repeat (they cover the signature time).      *)
(* Of a header only the unread mark is kept; of the contents only whether  *)
(* they are in the database.                                               *)
(***************************************************************************)
EXTENDS Integers, Sequences, FiniteSets, SequencesExt

CONSTANTS
  Editors,   \* the windows of MailEditorMainWindow
  MaxMsgs,   \* bound: messages ever stored in the folder
  MaxNotes,  \* bound: notifications under way at a time
  UintMax,   \* the largest value of _unread_msg_count, an unsigned int
  Hideable   \* bound: the rows (their keys) a search may filter out

ASSUME FolderBoundsAssumption ==
  /\ MaxMsgs \in Nat \ {0}
  /\ MaxNotes \in Nat \ {0}
  /\ UintMax \in Nat
  /\ UintMax > MaxMsgs
  /\ Hideable \subseteq 1..MaxMsgs

Digests == 1..MaxMsgs
None    == 0                       \* no DraftMessage, no overwritten message
Marks   == {"read", "unread"}
Kinds   == {"inbox", "outbox", "sent", "drafts"}

\* A row; `key' is its entry in _digest2headers, which replaceMessage leaves
\* as it is.  Selections follow the row, so they are sets of keys here.
Row  == [digest: Digests, mark: Marks, key: Digests]
Note == [type: {"add", "replace", "remove"}, digest: Digests \union {None},
         mark: Marks, old: Digests \union {None}, oldMark: Marks]

VARIABLES
  kind,     \* which folder this is
  box,      \* [headers, data, rows, unread, hidden, sel]: database, model, the
            \* keys of the rows the search filters out, and the selection
  notes,    \* notifications posted and not yet delivered
  editors,  \* [open, digest, mark]: an editor and its DraftMessage
  asked,    \* onDeleteMail: the positions of the question put, {} for none
  stored,   \* digests handed out so far
  missed    \* history: outside Drafts, the messages whose removal was announced while
            \* the search hid their row

vars == <<kind, box, notes, editors, asked, stored, missed>>

-----------------------------------------------------------------------------
(* The database, external: what the calls of this code need of it.         *)

\* store_message: the message and its header, unread; `old' is replaced.
store_message(b, d, old) ==
  [b EXCEPT !.data    = (@ \union {d}) \ {old},
            !.headers = [x \in Digests |-> IF x = d THEN "unread"
                                           ELSE IF x = old THEN "none" ELSE @[x]]]

store_message_header(b, d, mark) == [b EXCEPT !.headers[d] = mark]

remove_message(b, d) == [b EXCEPT !.data = @ \ {d}, !.headers[d] = "none"]

\* The messages whose header and contents are both there.
Stored(b) == {d \in b.data : b.headers[d] # "none"}

-----------------------------------------------------------------------------
(* MailboxModel.                                                           *)

Inc(n) == (n + 1) % (UintMax + 1)

\* Faulty variant: signed arithmetic.
DecSigned(n) == n - 1

Dec(n) == (n + UintMax) % (UintMax + 1)

Keys(b)         == {b.rows[i].key : i \in DOMAIN b.rows}
Shown(b)        == {b.rows[i].digest : i \in DOMAIN b.rows}
UnreadRows(b)   == {i \in DOMAIN b.rows : b.rows[i].mark = "unread"}
RowsOf(b, d)    == {i \in DOMAIN b.rows : b.rows[i].digest = d}
RowOfKey(b, k)  == CHOOSE i \in DOMAIN b.rows : b.rows[i].key = k

\* The rows of the view, and the position of row i there.
InView(b)       == {i \in DOMAIN b.rows : b.rows[i].key \notin b.hidden}
Place(b, i)     == Cardinality({j \in InView(b) : j <= i})
ViewSize(b)     == Cardinality(InView(b))
RowsAt(b, S)    == {i \in InView(b) : Place(b, i) \in S}

\* fillMailHeader succeeds: no duplicate, and the contents can be read.
fillMailHeader(b, d) == d \notin Keys(b) /\ d \in b.data

\* The proxy sorts a new row to position at.p, and filters it out (at.out)
\* unless it contains the search text.
addMailHeader(b, d, mark, at) ==
  IF ~fillMailHeader(b, d) THEN b
  ELSE [b EXCEPT !.rows = InsertAt(@, at.p, [digest |-> d, mark |-> mark, key |-> d]),
                 !.hidden = IF at.out THEN @ \union ({d} \intersect Hideable) ELSE @,
                 !.unread = IF mark = "unread" THEN Inc(@) ELSE @]

\* Faulty variant: a replaced message that is not found is not added.
ReplaceOnly(b, old, oldMark, d, mark, at) ==
  IF RowsOf(b, old) # {} /\ fillMailHeader(b, d)
  THEN [b EXCEPT !.rows = [i \in DOMAIN @ |->
                   IF i \in RowsOf(b, old)
                   THEN [@[i] EXCEPT !.digest = d, !.mark = mark] ELSE @[i]],
                 !.unread = IF oldMark = "read" THEN Inc(@) ELSE @]
  ELSE b

\* The count goes by the header the editor holds of the old message, not by
\* the row that is overwritten.  Nothing tells the proxy that the row's data
\* changed: it stays in the view, or out of it.
replaceMessage(b, old, oldMark, d, mark, at) ==
  IF RowsOf(b, old) = {} THEN addMailHeader(b, d, mark, at)
  ELSE IF ~fillMailHeader(b, d) THEN b
  ELSE [b EXCEPT !.rows = [i \in DOMAIN @ |->
                   IF i \in RowsOf(b, old)
                   THEN [@[i] EXCEPT !.digest = d, !.mark = mark] ELSE @[i]],
                 !.unread = IF oldMark = "read" THEN Inc(@) ELSE @]

\* Faulty variant: the mark stays in the model.
MarkInModelOnly(b, i) ==
  IF b.rows[i].mark = "read" THEN b
  ELSE [b EXCEPT !.rows[i].mark = "read", !.unread = Dec(@)]

markMessageAsRead(b, i) ==
  IF b.rows[i].mark = "read" THEN b
  ELSE store_message_header([b EXCEPT !.rows[i].mark = "read", !.unread = Dec(@)],
                            b.rows[i].digest, "read")

markMessageAsUnread(b, i) ==
  IF b.rows[i].mark = "unread" THEN b
  ELSE store_message_header([b EXCEPT !.rows[i].mark = "unread", !.unread = Inc(@)],
                            b.rows[i].digest, "unread")

-----------------------------------------------------------------------------
(* Mailbox and MailViewer.                                                 *)

\* A single selected mail is displayed, and displaying marks it as read.
refreshMessageViewer(b) ==
  IF Cardinality(b.sel) # 1 THEN b
  ELSE markMessageAsRead(b, RowOfKey(b, CHOOSE k \in b.sel : TRUE))

onSelectionChanged(b, keys) ==
  IF keys = b.sel THEN b ELSE refreshMessageViewer([b EXCEPT !.sel = keys])

\* Faulty variant: the count forgets that an unread mail went.
RemoveUncounted(b, i) ==
  LET c == onSelectionChanged(b, b.sel \ {b.rows[i].key})
  IN  remove_message([c EXCEPT !.rows = RemoveAt(@, i), !.hidden = @ \ {b.rows[i].key}],
                     b.rows[i].digest)

\* removeRows(i, 1): the row leaves the selection first, which may display
\* the one mail still selected.
removeRow(b, i) ==
  LET c == onSelectionChanged(b, b.sel \ {b.rows[i].key})
  IN  remove_message([c EXCEPT !.rows = RemoveAt(@, i),
                               !.hidden = @ \ {b.rows[i].key},
                               !.unread = IF c.rows[i].mark = "unread" THEN Dec(@) ELSE @],
                     b.rows[i].digest)

\* The row of d is there but not in the view.
Hides(b, d) == \E i \in RowsOf(b, d) : b.rows[i].key \in b.hidden

\* The row is removed through the proxy, which has no index for a row it
\* filters out: removeRow(-1) removes nothing.
removeMessage(b, d) ==
  IF RowsOf(b, d) = {} \/ Hides(b, d) THEN b
  ELSE removeRow(b, CHOOSE i \in RowsOf(b, d) : TRUE)

\* The rows at the given positions, from the last to the first.
RemoveAll(b, S) ==
  LET n == Len(b.rows)
      gone[k \in 0..n] ==
        IF k = 0 THEN b
        ELSE IF n + 1 - k \in S THEN removeRow(gone[k - 1], n + 1 - k) ELSE gone[k - 1]
  IN  gone[n]

\* Selects the row after the last deleted position, n rows being gone.  It
\* counts the rows of the model but selects in the view; a position past the
\* end of the view selects nothing.
selectNextRow(b, last, n) ==
  LET next == last + 1 - n
      at   == RowsAt(b, {IF next <= Len(b.rows) THEN next ELSE Len(b.rows)})
  IN  IF at = {} THEN b ELSE onSelectionChanged(b, {b.rows[i].key : i \in at})

\* The proxy filters out the rows with keys H: block by block from the last,
\* each leaving the selection first; then the other rows come back.
FilteredOut(b, H) ==
  LET n == Len(b.rows)
      Below(i) == {b.rows[j].key : j \in i + 1..n}
      left[k \in 0..n] ==
        IF k = 0 THEN b
        ELSE IF n + 1 - k \in InView(b) /\ b.rows[n + 1 - k].key \notin H
             THEN onSelectionChanged(left[k - 1],
                                     left[k - 1].sel \ (H \intersect Below(n + 1 - k)))
             ELSE left[k - 1]
  IN  [onSelectionChanged(left[n], left[n].sel \ H) EXCEPT !.hidden = H]

\* readMailBoxHeadersDb at the start, the view sorted in some order.
Opened(b, order) ==
  [headers |-> b.headers, data |-> b.data, hidden |-> {}, sel |-> {},
   rows    |-> [i \in DOMAIN order |->
                 [digest |-> order[i], mark |-> b.headers[order[i]], key |-> order[i]]],
   unread  |-> Cardinality({d \in Stored(b) : b.headers[d] = "unread"})]

-----------------------------------------------------------------------------
(* The steps of the network and of the transmission fiber.                 *)

Post(type, d, mark, old, oldMark) ==
  /\ Len(notes) < MaxNotes
  /\ notes' = Append(notes, [type |-> type, digest |-> d, mark |-> mark,
                             old |-> old, oldMark |-> oldMark])

\* received_email (Inbox, and Spam alike), AddPendingMessage (Outbox) and the
\* Sent half of moveMsgToSentDB, which marks the mail as read.
Arrive ==
  LET d    == stored + 1
      mark == IF kind = "sent" THEN "read" ELSE "unread"
  IN  /\ kind # "drafts"
      /\ kind = "outbox" => asked = {}
      /\ stored < MaxMsgs
      /\ stored' = d
      /\ box' = store_message_header(store_message(box, d, None), d, mark)
      /\ Post("add", d, mark, None, "read")
      /\ UNCHANGED <<kind, editors, asked, missed>>

\* Faulty variant: the folder is not told.
MoveSilently ==
  /\ kind = "outbox"
  /\ \E d \in Stored(box) : box' = remove_message(box, d)
  /\ UNCHANGED <<kind, notes, editors, asked, stored, missed>>

\* The Outbox half of moveMsgToSentDB.
MoveToSent ==
  /\ kind = "outbox"
  /\ \E d \in Stored(box) :
       /\ Post("remove", None, "read", d, box.headers[d])
       /\ box' = remove_message(box, d)
  /\ UNCHANGED <<kind, editors, asked, stored, missed>>

-----------------------------------------------------------------------------
(* The editors of the Drafts folder.                                       *)

Idle == asked = {}       \* the modal question lets the user do nothing else

Closed == [open |-> FALSE, digest |-> None, mark |-> "read"]

Edits(e) == kind = "drafts" /\ Idle /\ editors[e].open

NewEditor(e) ==
  /\ kind = "drafts" /\ Idle /\ ~editors[e].open
  /\ editors' = [editors EXCEPT ![e] = [Closed EXCEPT !.open = TRUE]]
  /\ UNCHANGED <<kind, box, notes, asked, stored, missed>>

\* onDoubleClickedItem on the selected draft: LoadMessage copies the header.
OpenDraft(e) ==
  /\ kind = "drafts" /\ Idle /\ ~editors[e].open
  /\ \E i \in DOMAIN box.rows :
       /\ box.sel = {box.rows[i].key}
       /\ editors' = [editors EXCEPT ![e] =
            [open |-> TRUE, digest |-> box.rows[i].digest, mark |-> box.rows[i].mark]]
  /\ UNCHANGED <<kind, box, notes, asked, stored, missed>>

\* onSave with TConnectionProcessor::Save.
Save(e) ==
  LET d == stored + 1
  IN  /\ Edits(e)
      /\ stored < MaxMsgs
      /\ stored' = d
      /\ box' = store_message(box, d, editors[e].digest)
      /\ IF editors[e].digest = None
         THEN Post("add", d, "unread", None, "read")
         ELSE Post("replace", d, "unread", editors[e].digest, editors[e].mark)
      /\ editors' = [editors EXCEPT ![e] = [open |-> TRUE, digest |-> d, mark |-> "unread"]]
      /\ UNCHANGED <<kind, asked, missed>>

\* on_actionSend_triggered: the draft goes when OnMessagePending is delivered.
Send(e) ==
  /\ Edits(e)
  /\ Post("remove", None, "read", editors[e].digest, editors[e].mark)
  /\ editors' = [editors EXCEPT ![e] = Closed]
  /\ UNCHANGED <<kind, box, asked, stored, missed>>

CloseEditor(e) ==
  /\ Edits(e)
  /\ editors' = [editors EXCEPT ![e] = Closed]
  /\ UNCHANGED <<kind, box, notes, asked, stored, missed>>

\* The drafts at positions S are saved again one after the other, the row's
\* header being the message replaced.
SaveAgain(S) ==
  LET n == Len(box.rows)
      saved[i \in 0..n] ==
        IF i = 0 THEN [box |-> box, notes |-> notes, stored |-> stored]
        ELSE IF i \notin S THEN saved[i - 1]
        ELSE LET p   == saved[i - 1]
                 row == box.rows[i]
             IN  [box    |-> store_message(p.box, p.stored + 1, row.digest),
                  notes  |-> Append(p.notes,
                    [type |-> "replace", digest |-> p.stored + 1, mark |-> "unread",
                     old |-> row.digest, oldMark |-> row.mark]),
                  stored |-> p.stored + 1]
  IN  saved[n]

\* onIdentityDelete: the drafts S of the deleted identity are saved under
\* another one; its mails in the Outbox leave it.
onIdentityDelete ==
  /\ Idle
  /\ \E S \in SUBSET DOMAIN box.rows \ {{}} :
       \/ LET after == SaveAgain(S)
          IN  /\ kind = "drafts"
              /\ after.stored <= MaxMsgs
              /\ Len(after.notes) <= MaxNotes
              /\ box' = after.box
              /\ notes' = after.notes
              /\ stored' = after.stored
       \/ /\ kind = "outbox"
          /\ box' = RemoveAll(box, S)
          /\ UNCHANGED <<notes, stored>>
  /\ UNCHANGED <<kind, editors, asked, missed>>

-----------------------------------------------------------------------------
(* The user at the folder.                                                 *)

\* searchEditChanged: the folder shows the rows that contain the text.  A text
\* for any choice of rows can be typed.
searchEditChanged ==
  /\ Idle
  /\ \E H \in SUBSET (Keys(box) \intersect Hideable) :
       /\ H # box.hidden
       /\ box' = FilteredOut(box, H)
  /\ UNCHANGED <<kind, notes, editors, asked, stored, missed>>

Select ==
  /\ Idle
  /\ \E keys \in SUBSET (Keys(box) \ box.hidden) :
       /\ keys # box.sel
       /\ box' = onSelectionChanged(box, keys)
  /\ UNCHANGED <<kind, notes, editors, asked, stored, missed>>

onMarkAsUnreadMail ==
  /\ Idle
  /\ box.sel # {}
  /\ LET n == Len(box.rows)
         marked[i \in 0..n] ==
           IF i = 0 THEN box
           ELSE IF box.rows[i].key \in box.sel THEN markMessageAsUnread(marked[i - 1], i)
           ELSE marked[i - 1]
     IN  box' = marked[n]
  /\ UNCHANGED <<kind, notes, editors, asked, stored, missed>>

\* onDeleteMail up to its question: selectedRows() are positions in the view.
AskDelete ==
  /\ Idle
  /\ asked' = {Place(box, i) : i \in {j \in DOMAIN box.rows : box.rows[j].key \in box.sel}}
  /\ asked' # {}
  /\ UNCHANGED <<kind, box, notes, editors, stored, missed>>

CancelDelete ==
  /\ asked # {}
  /\ asked' = {}
  /\ UNCHANGED <<kind, box, notes, editors, stored, missed>>

\* onDeleteMail after the answer: the positions are mapped to the rows that
\* stand there now.
ConfirmDelete ==
  /\ asked # {}
  /\ asked \subseteq 1..ViewSize(box)
  /\ box' = selectNextRow(RemoveAll(box, RowsAt(box, asked)),
                          CHOOSE i \in asked : \A j \in asked : j <= i,
                          Cardinality(asked))
  /\ asked' = {}
  /\ UNCHANGED <<kind, notes, editors, stored, missed>>

\* Everything in memory is lost; the next start reads the database.
Reopen(b) ==
  /\ \E order \in SetToSeqs(Stored(b)) : box' = Opened(b, order)
  /\ notes' = <<>>
  /\ editors' = [e \in Editors |-> Closed]
  /\ asked' = {}
  /\ missed' = {}
  /\ UNCHANGED <<kind, stored>>

Restart == Reopen(box)

\* A position with no row any more maps to the invalid index, and removeRow(-1)
\* reads in front of the vector once the others are gone: the process dies.
ConfirmDeletePastEnd ==
  /\ asked # {}
  /\ ~(asked \subseteq 1..ViewSize(box))
  /\ Reopen(RemoveAll(box, RowsAt(box, asked)))

-----------------------------------------------------------------------------
(* The notifications.  OnReceivedMailMessage alone does not refresh.       *)

Delivered(n, at) ==
  CASE n.type = "add"     -> addMailHeader(box, n.digest, n.mark, at)
    [] n.type = "replace" -> replaceMessage(box, n.old, n.oldMark, n.digest, n.mark, at)
    [] n.type = "remove"  -> removeMessage(box, n.old)

DeliverNote ==
  /\ notes # <<>>
  /\ notes' = Tail(notes)
  /\ \E p \in 1..Len(box.rows) + 1, out \in BOOLEAN :
       LET after == Delivered(Head(notes), [p |-> p, out |-> out])
       IN  box' = IF kind = "inbox" THEN after ELSE refreshMessageViewer(after)
  /\ missed' = IF kind # "drafts" /\ Head(notes).type = "remove" /\ Hides(box, Head(notes).old)
               THEN missed \union {Head(notes).old} ELSE missed
  /\ UNCHANGED <<kind, editors, asked, stored>>

-----------------------------------------------------------------------------
Init ==
  /\ kind \in Kinds
  /\ box = [headers |-> [d \in Digests |-> "none"], data |-> {}, rows |-> <<>>,
            unread |-> 0, hidden |-> {}, sel |-> {}]
  /\ notes = <<>>
  /\ editors = [e \in Editors |-> Closed]
  /\ asked = {}
  /\ stored = 0
  /\ missed = {}

Next ==
  \/ Arrive \/ MoveToSent
  \/ \E e \in Editors : NewEditor(e) \/ OpenDraft(e) \/ Save(e) \/ Send(e) \/ CloseEditor(e)
  \/ onIdentityDelete
  \/ searchEditChanged \/ Select \/ onMarkAsUnreadMail
  \/ AskDelete \/ CancelDelete \/ ConfirmDelete \/ ConfirmDeletePastEnd
  \/ DeliverNote
  \/ Restart

Spec == Init /\ [][Next]_vars

-----------------------------------------------------------------------------
(* Properties.                                                             *)

\* The types of the state.  The selection (sel) never holds a row that is gone
\* or out of view, and no two rows share a digest, which the `assert(result.second)' of
\* pushBack relies on.
TypeOK ==
  /\ kind \in Kinds
  /\ box.headers \in [Digests -> Marks \union {"none"}]
  /\ box.data \subseteq Digests
  /\ box.rows \in Seq(Row)
  /\ box.unread \in 0..UintMax
  /\ box.hidden \subseteq Keys(box)
  /\ box.sel \subseteq Keys(box) \ box.hidden
  /\ \A i, j \in DOMAIN box.rows :
       i # j => box.rows[i].digest # box.rows[j].digest /\ box.rows[i].key # box.rows[j].key
  /\ notes \in Seq(Note)
  /\ editors \in [Editors -> [open: BOOLEAN, digest: 0..MaxMsgs, mark: Marks]]
  /\ asked \subseteq Digests
  /\ stored \in 0..MaxMsgs
  /\ missed \subseteq Digests

\* The folder has a row for every message of its database, or a notification
\* under way will add it: no interleaving of saves, deletions, sends and replacements
\* hides a stored mail until the next start.  (replaceMessage adds what it does
\* not find, "maybe deleted while editing".)
StoredIsShown ==
  Stored(box) \subseteq Shown(box) \union {notes[n].digest : n \in DOMAIN notes}

\* Outside Drafts, and once the notifications are delivered, every row still
\* has its message, except the rows the search hid when their removal was
\* announced: no other row displays or hands out a mail that is gone.  In
\* Drafts two saves before the first is delivered leave such a row.
ShownIsStored ==
  kind # "drafts" /\ notes = <<>> => Shown(box) \ Stored(box) \subseteq missed

\* The number beside the folder's name, kept up to date by increments and
\* decrements in five places, is the number of rows shown as unread.  Drafts
\* is left out: there replaceMessage counts by the editor's copy of the
\* header.
UnreadIsCount == kind # "drafts" => box.unread = Cardinality(UnreadRows(box))

\* What a row shows as read or unread is what the database says of a message
\* it still holds: the mark survives a crash at any time.
MarksAreSaved ==
  \A i \in DOMAIN box.rows :
    LET r == box.rows[i] IN r.digest \in box.data => box.headers[r.digest] = r.mark

\* The notification that takes a sent mail's draft out of Drafts (or a sent mail
\* out of the Outbox) leaves it in the database only if the search hides its
\* row at that moment, whatever was saved, replaced, selected or deleted in
\* between: removeMessage does nothing when it finds no row, and the draft of a
\* mail already sent would stay.
RemovalTakesEffect ==
  [][DeliverNote /\ Head(notes).type = "remove" =>
       Head(notes).old \notin box'.data \/ Hides(box, Head(notes).old)]_vars

-----------------------------------------------------------------------------
(* A claim of a comment that the code does not keep.                       *)

\* onDeleteMail: "remove selected mail from inbox model (and database)".  The
\* mails it removes are selected ones.
DeletesSelected ==
  [][asked # {} /\ asked' = {} =>
       \A i \in DOMAIN box.rows :
         box.rows[i].digest \in box.data \ box'.data => box.rows[i].key \in box.sel]_vars
=============================================================================
