--------------------------- MODULE Authorization ---------------------------
(***************************************************************************)
(* Contact authorization between two Keyhotee clients: a request for chat  *)
(* or mail, the item it becomes on the other side's screen, the answer and *)
(* the auth_status each side stores for the other, by which received_text  *)
(* and received_email later filter (RequestAuthorization.cpp,              *)
(* authorization.cpp, KeyhoteeMainWindow.cpp, ConnectionProcessor.cpp).    *)
(*                                                                         *)
(* Each client has one identity and knows the other as at most one         *)
(* contact.  Address book, request_db, auth_db and the outgoing queue are  *)
(* persistent; notifications and the items on the screen are not.  The     *)
(* transport is external: it keeps the order of one sender's messages and  *)
(* may deliver one again (the outbox repeats a transfer after a crash).    *)
(* Names, greetings, icons, extended keys and database errors are left out. *)
(***************************************************************************)
EXTENDS Integers, Sequences, FiniteSets, SequencesExt

CONSTANTS
  Clients,      \* the two clients
  Params,       \* the check boxes a request may carry: chat, mail, both, neither
  MaxMsgs,      \* bound: authorization messages ever sent
  MaxTroubles,  \* bound: crashes inside a handler, messages delivered twice
  MaxEdits,     \* bound: changes of an address book or of an identity by hand
  MaxEvents     \* bound: messages, troubles and edits together

ASSUME AuthorizationAssumption ==
  /\ IsFiniteSet(Clients) /\ Cardinality(Clients) = 2
  /\ Params \subseteq {"chat", "mail", "both", "neither"}
  /\ MaxMsgs \in Nat
  /\ MaxTroubles \in Nat
  /\ MaxEdits \in Nat
  /\ MaxEvents \in Nat

Accepted == {"accepted", "accepted_chat", "accepted_mail"}

\* auth_status of the contact, "none" when the other is not in the address book.
Status == Accepted \union {"none", "unauthorized", "sent_request", "i_block",
                           "blocked_me", "denied"}

Ids     == 1..MaxMsgs
Answers == {"accept", "deny", "block"}

\* `re' is the request an answer belongs to (history; the code does not send it).
Message == [from: Clients, kind: {"request", "accept", "block"},
            param: Params, re: 0..MaxMsgs]

VARIABLES
  (* Persistent, for each client. *)
  status,     \* auth_status of the other client
  requestDb,  \* request_db: messages received and not dealt with
  authDb,     \* auth_db: messages dealt with
  identity,   \* its identity still exists
  net,        \* messages on their way to it: the peer's queue and the transport
  (* Lost when the program ends. *)
  notes,      \* OnReceivedAuthorizationMessage notifications
  items,      \* AuthorizationItems on the screen, in order of appearance
  (* History. *)
  msgs,       \* every message ever sent
  troubles,
  edits       \* how often a user blocked, added or removed contact or identity

vars == <<status, requestDb, authDb, identity, net, notes, items, msgs, troubles, edits>>

\* There is room for another event.
Room == Len(msgs) + troubles + edits < MaxEvents

Peer(c) == CHOOSE d \in Clients : d # c

-----------------------------------------------------------------------------
(* The status of a contact.                                                *)

\* addAsNewContact: the box can be checked for somebody not in the book.
addAsNewContact(s, add) == IF s = "none" /\ add THEN "unauthorized" ELSE s

\* Faulty variant: the bits of the request are mixed up.
SwapsBits(s, kind, param, mine) ==
  IF s = "none" THEN s
  ELSE CASE kind = "accept" -> (CASE param = "chat" -> "accepted_mail"
                                  [] param = "mail" -> "accepted_chat"
                                  [] param = "both" -> "accepted"
                                  [] OTHER          -> s)
         [] kind = "block"  -> IF mine THEN "i_block" ELSE "blocked_me"
         [] kind = "deny"   -> "denied"

\* setAuthorizationStatus; `mine': this client gives the answer.  Nothing
\* happens without a contact, and an accepted request with no box checked
\* falls through the switch.
setAuthorizationStatus(s, kind, param, mine) ==
  IF s = "none" THEN s
  ELSE CASE kind = "accept" -> (CASE param = "chat" -> "accepted_chat"
                                  [] param = "mail" -> "accepted_mail"
                                  [] param = "both" -> "accepted"
                                  [] OTHER          -> s)
         [] kind = "block"  -> IF mine THEN "i_block" ELSE "blocked_me"
         [] kind = "deny"   -> "denied"

-----------------------------------------------------------------------------
(* Sending and receiving.                                                  *)

\* Faulty variant: the message is addressed to its sender.
SendAuthToSelf(c, kind, param, re) ==
  /\ Room /\ Len(msgs) < MaxMsgs
  /\ msgs' = Append(msgs, [from |-> c, kind |-> kind, param |-> param, re |-> re])
  /\ net' = [net EXCEPT ![c] = Append(@, Len(msgs) + 1)]

\* SendAuth: the message joins the queue of pending_db.
SendAuth(c, kind, param, re) ==
  /\ Room /\ Len(msgs) < MaxMsgs
  /\ msgs' = Append(msgs, [from |-> c, kind |-> kind, param |-> param, re |-> re])
  /\ net' = [net EXCEPT ![Peer(c)] = Append(@, Len(msgs) + 1)]

\* RequestAuthorization::onSend.
onSend(c) ==
  /\ identity[c]
  /\ \E param \in Params, add \in BOOLEAN :
       /\ SendAuth(c, "request", param, 0)
       /\ status' = [status EXCEPT ![c] =
            IF addAsNewContact(@, add) = "none" THEN "none" ELSE "sent_request"]
  /\ UNCHANGED <<requestDb, authDb, identity, notes, items, troubles, edits>>

\* Faulty variant: the message is stored and nobody is told.
ReceivedSilently(c) ==
  /\ net[c] # <<>>
  /\ net' = [net EXCEPT ![c] = Tail(@)]
  /\ requestDb' = [requestDb EXCEPT ![c] = @ \union {Head(net[c])}]
  /\ UNCHANGED <<status, authDb, identity, notes, items, msgs, troubles, edits>>

\* received_request.  Without the identity nothing can be decrypted.
received_request(c) ==
  /\ net[c] # <<>>
  /\ \/ net' = [net EXCEPT ![c] = Tail(@)] /\ UNCHANGED troubles
     \/ Room /\ troubles < MaxTroubles /\ troubles' = troubles + 1 /\ UNCHANGED net
  /\ IF identity[c] /\ status[c] # "i_block"
     THEN /\ requestDb' = [requestDb EXCEPT ![c] = @ \union {Head(net[c])}]
          /\ notes' = [notes EXCEPT ![c] = Append(@, Head(net[c]))]
     ELSE UNCHANGED <<requestDb, notes>>
  /\ UNCHANGED <<status, authDb, identity, items, msgs, edits>>

\* What OnReceivedAuthorizationMessage makes of the client state
\* p = [status, requestDb, authDb, items]: createAuthorizationItem, or
\* Authorization::processResponse, which needs the identity to clear request_db.
Handled(p, id, hasIdentity) ==
  IF msgs[id].kind = "request"
  THEN [p EXCEPT !.items = Append(@, id)]
  ELSE [p EXCEPT
         !.status    = setAuthorizationStatus(@, msgs[id].kind, msgs[id].param, FALSE),
         !.requestDb = IF hasIdentity THEN @ \ {id} ELSE @,
         !.authDb    = IF hasIdentity THEN @ \union {id} ELSE @]

\* What the handlers of client c read and change, and that it becomes p.
Client(c) == [status |-> status[c], requestDb |-> requestDb[c],
              authDb |-> authDb[c], items |-> items[c]]

Becomes(c, p) ==
  /\ status'    = [status    EXCEPT ![c] = p.status]
  /\ requestDb' = [requestDb EXCEPT ![c] = p.requestDb]
  /\ authDb'    = [authDb    EXCEPT ![c] = p.authDb]
  /\ items'     = [items     EXCEPT ![c] = p.items]

DeliverNote(c) ==
  /\ notes[c] # <<>>
  /\ notes' = [notes EXCEPT ![c] = Tail(@)]
  /\ Becomes(c, Handled(Client(c), Head(notes[c]), identity[c]))
  /\ UNCHANGED <<identity, net, msgs, troubles, edits>>

\* Faulty variant: only the answers are loaded.
LoadsAnswers(c, p) ==
  LET load[n \in 0..MaxMsgs] ==
        IF n = 0 THEN [p EXCEPT !.items = <<>>]
        ELSE IF n \in p.requestDb /\ msgs[n].kind # "request"
             THEN Handled(load[n - 1], n, identity[c])
             ELSE load[n - 1]
  IN  load[MaxMsgs]

\* loadStoredRequests at the start of the program: whatever request_db still
\* holds is handled again, the oldest first.
loadStoredRequests(c, p) ==
  LET load[n \in 0..MaxMsgs] ==
        IF n = 0 THEN [p EXCEPT !.items = <<>>]
        ELSE IF n \in p.requestDb THEN Handled(load[n - 1], n, identity[c])
        ELSE load[n - 1]
  IN  load[MaxMsgs]

\* The program of client c ends in any way and is started again.
Restart(c) ==
  /\ Becomes(c, loadStoredRequests(c, Client(c)))
  /\ notes' = [notes EXCEPT ![c] = <<>>]
  /\ UNCHANGED <<identity, net, msgs, troubles, edits>>

-----------------------------------------------------------------------------
(* Answering.  The persistent steps of an answer, in the code's order, are *)
(* the contact, the reply, the removal from request_db, the entry in       *)
(* auth_db and the status.                                                 *)

Steps == {"contact", "reply", "removed", "stored", "status"}

Rank == [contact |-> 1, reply |-> 2, removed |-> 3, stored |-> 4, status |-> 5]

\* Faulty variant: the request is not taken out of request_db.
KeepsRequest(p, id, answer, add, last, hasIdentity) ==
  LET s == IF answer = "deny" THEN p.status ELSE addAsNewContact(p.status, add)
  IN  [p EXCEPT
        !.status    = IF Rank[last] < Rank["status"] THEN s
                      ELSE setAuthorizationStatus(s, answer, msgs[id].param, TRUE),
        !.authDb    = IF hasIdentity /\ Rank[last] >= Rank["stored"] THEN @ \union {id} ELSE @]

\* The client state after the steps up to `last'.  storeAuthorization is a part
\* of sendReply, which returns at once without the identity.
Answered(p, id, answer, add, last, hasIdentity) ==
  LET s == IF answer = "deny" THEN p.status ELSE addAsNewContact(p.status, add)
  IN  [p EXCEPT
        !.status    = IF Rank[last] < Rank["status"] THEN s
                      ELSE setAuthorizationStatus(s, answer, msgs[id].param, TRUE),
        !.requestDb = IF hasIdentity /\ Rank[last] >= Rank["removed"] THEN @ \ {id} ELSE @,
        !.authDb    = IF hasIdentity /\ Rank[last] >= Rank["stored"] THEN @ \union {id} ELSE @]

\* sendReply: a denied request is not answered.
sendReply(c, id, answer) ==
  IF identity[c] /\ answer # "deny"
  THEN SendAuth(c, answer, msgs[id].param, id)
  ELSE UNCHANGED <<msgs, net>>

\* onAccept, onDeny and onBlock of one item's view, to the end; the context
\* menu of a sender's items calls them one after the other.
Answer(c, i, answer) ==
  LET id == items[c][i]
  IN  /\ sendReply(c, id, answer)
      /\ \E add \in BOOLEAN :
           Becomes(c, [Answered(Client(c), id, answer, add, "status", identity[c])
                       EXCEPT !.items = RemoveAt(@, i)])
      /\ UNCHANGED <<identity, notes, troubles, edits>>

\* The same handler cut short by the end of the process, and the next start.
CrashInAnswer(c, i, answer) ==
  LET id == items[c][i]
  IN  /\ Room /\ troubles < MaxTroubles
      /\ troubles' = troubles + 1
      /\ \E add \in BOOLEAN, last \in Steps \ {"status"} :
           /\ IF last = "contact" THEN UNCHANGED <<msgs, net>>
                                  ELSE sendReply(c, id, answer)
           /\ Becomes(c, loadStoredRequests(c,
                Answered(Client(c), id, answer, add, last, identity[c])))
      /\ notes' = [notes EXCEPT ![c] = <<>>]
      /\ UNCHANGED <<identity, edits>>

-----------------------------------------------------------------------------
(* The user at the address book.                                           *)

SetContact(c, s) ==
  /\ status' = [status EXCEPT ![c] = s]
  /\ Room /\ edits < MaxEdits /\ edits' = edits + 1
  /\ UNCHANGED <<requestDb, authDb, identity, net, notes, items, msgs, troubles>>

onBlockContact(c)   == status[c] \notin {"none", "i_block"} /\ SetContact(c, "i_block")
onUnblockContact(c) == status[c] = "i_block" /\ SetContact(c, "unauthorized")
AddContact(c)       == status[c] = "none" /\ SetContact(c, "unauthorized")
onRemoveContact(c)  == status[c] # "none" /\ SetContact(c, "none")

\* onIdentityDelete: the messages of the identity still queued are dropped; a
\* part of them may already be on the way.
onIdentityDelete(c) ==
  /\ identity[c]
  /\ identity' = [identity EXCEPT ![c] = FALSE]
  /\ \E k \in 0..Len(net[Peer(c)]) : net' = [net EXCEPT ![Peer(c)] = SubSeq(@, 1, k)]
  /\ Room /\ edits < MaxEdits /\ edits' = edits + 1
  /\ UNCHANGED <<status, requestDb, authDb, notes, items, msgs, troubles>>

-----------------------------------------------------------------------------
Init ==
  /\ status    \in [Clients -> {"none", "unauthorized"}]
  /\ requestDb = [c \in Clients |-> {}]
  /\ authDb    = [c \in Clients |-> {}]
  /\ identity  = [c \in Clients |-> TRUE]
  /\ net       = [c \in Clients |-> <<>>]
  /\ notes     = [c \in Clients |-> <<>>]
  /\ items     = [c \in Clients |-> <<>>]
  /\ msgs      = <<>>
  /\ troubles  = 0
  /\ edits     = 0

Next ==
  \E c \in Clients :
    \/ onSend(c) \/ received_request(c) \/ DeliverNote(c) \/ Restart(c)
    \/ \E i \in DOMAIN items[c], answer \in Answers :
         Answer(c, i, answer) \/ CrashInAnswer(c, i, answer)
    \/ onBlockContact(c) \/ onUnblockContact(c) \/ AddContact(c) \/ onRemoveContact(c)
    \/ onIdentityDelete(c)

Spec == Init /\ [][Next]_vars

-----------------------------------------------------------------------------
(* Properties.                                                             *)

\* The types of the state; what a client holds or is sent comes from the other
\* one.
TypeOK ==
  /\ status    \in [Clients -> Status]
  /\ requestDb \in [Clients -> SUBSET Ids]
  /\ authDb    \in [Clients -> SUBSET Ids]
  /\ identity  \in [Clients -> BOOLEAN]
  /\ net       \in [Clients -> Seq(Ids)]
  /\ notes     \in [Clients -> Seq(Ids)]
  /\ items     \in [Clients -> Seq(Ids)]
  /\ msgs      \in Seq(Message)
  /\ \A c \in Clients :
       \A id \in requestDb[c] \union authDb[c] \union Range(net[c])
               \union Range(notes[c]) \union Range(items[c]) :
         id \in DOMAIN msgs /\ msgs[id].from = Peer(c)
  /\ troubles  \in 0..MaxTroubles
  /\ edits     \in 0..MaxEdits

ParamOf(s) == CASE s = "accepted"      -> "both"
                [] s = "accepted_chat" -> "chat"
                [] s = "accepted_mail" -> "mail"

\* What setAuthorizationStatus grants the other side is exactly something the other
\* side asked for or accepted: no sequence of requests, answers, crashes and
\* re-read messages makes more of it, and one's own request never does.  With the
\* filter options set (_chat_allow_flag, _mail_allow_flag) received_text and
\* received_email let through what is granted here.
GrantedWasAgreed ==
  \A c \in Clients : status[c] \in Accepted =>
    \E m \in DOMAIN msgs :
      /\ msgs[m].from = Peer(c)
      /\ msgs[m].kind \in {"request", "accept"}
      /\ msgs[m].param = ParamOf(status[c])

\* A request in request_db is on the screen, or a notification will put it
\* there: it can be answered, in this session and after any restart.
StoredRequestIsShown ==
  \A c \in Clients : identity[c] =>
    \A id \in requestDb[c] :
      msgs[id].kind = "request" =>
        \/ \E i \in DOMAIN items[c] : items[c][i] = id
        \/ \E n \in DOMAIN notes[c] : notes[c][n] = id

\* No request is answered twice, say accepted and later blocked, however often
\* the program is restarted, unless it died within the answer or the request
\* was delivered twice.
AnsweredOnce ==
  troubles = 0 =>
    \A m, n \in DOMAIN msgs : msgs[m].re # 0 /\ msgs[m].re = msgs[n].re => m = n

Quiet == \A c \in Clients : net[c] = <<>> /\ notes[c] = <<>> /\ items[c] = <<>>

Asked == {msgs[m].param : m \in {n \in DOMAIN msgs : msgs[n].kind = "request"}}

Askers == {msgs[m].from : m \in {n \in DOMAIN msgs : msgs[n].kind = "request"}}

\* When everything is delivered and answered and only one side ever asked, the
\* two agree: if the other side accepts the asker, the asker shows the same
\* acceptance, whatever restarts there were in between.  Not so when both ask
\* (each ends with what the other was granted), after a request without boxes,
\* or after a crash inside an answer.
BothAgree ==
  \A c \in Clients :
    /\ Quiet /\ Askers = {c} /\ "neither" \notin Asked
    /\ edits = 0 /\ troubles = 0
    /\ status[c] # "none" /\ status[Peer(c)] \in Accepted
    => status[c] = status[Peer(c)]
=============================================================================
