----------------------------- MODULE MailQueue -----------------------------
(***************************************************************************)
(* What the outbox of the mail client promises, without fibers, windows,   *)
(* notifications, crashes or a network: an accepted message stays in the   *)
(* queue until it has reached its recipients, one after the other, and is  *)
(* then filed in order; or the user takes it back.  Outbox implements it.  *)
(***************************************************************************)
EXTENDS Integers, Sequences

CONSTANTS
  Message,    \* records with a kind, "mail" or "auth", and a number n of recipients
  MaxMsgs     \* bound: messages ever accepted

VARIABLES
  msg,        \* the messages accepted so far, in that order
  queued,     \* those in the queue
  reached,    \* the recipients each has reached
  filed,      \* mail in the Sent folder
  drafts,     \* mail that went back to the Drafts folder
  dropped     \* what the user has deleted

vars == <<msg, queued, reached, filed, drafts, dropped>>

Ids == 1..MaxMsgs

Init ==
  /\ msg = << >> /\ queued = {} /\ reached = [i \in Ids |-> {}]
  /\ filed = {} /\ drafts = {} /\ dropped = {}

Accept(m) ==
  /\ Len(msg) < MaxMsgs
  /\ msg' = Append(msg, m)
  /\ queued' = queued \cup {Len(msg) + 1}
  /\ UNCHANGED <<reached, filed, drafts, dropped>>

\* The recipients are served in order; after a failure they may be served again.
Reach(i) ==
  \E k \in 1..msg[i].n :
    /\ 1..(k - 1) \subseteq reached[i]
    /\ reached' = [reached EXCEPT ![i] = @ \cup {k}]

\* A mail that has reached everyone is filed, and leaves the queue at once or
\* later; no older mail is left in the queue.
File(i) ==
  /\ msg[i].kind = "mail"
  /\ reached'[i] = 1..msg[i].n
  /\ \A j \in queued : msg[j].kind = "mail" => i <= j
  /\ filed' = filed \cup {i}
  /\ queued' \in {queued, queued \ {i}}

\* An authorization message that has reached its recipient leaves the queue.
Finish(i) ==
  /\ msg[i].kind = "auth"
  /\ reached'[i] # {}
  /\ queued' = queued \ {i}
  /\ UNCHANGED filed

Transfer(i) ==
  /\ Reach(i) \/ UNCHANGED reached
  /\ File(i) \/ Finish(i) \/ UNCHANGED <<queued, filed>>
  /\ UNCHANGED <<msg, drafts, dropped>>

\* The copy of a filed mail that has stayed in the queue.
Retire(i) ==
  /\ i \in filed
  /\ queued' = queued \ {i}
  /\ UNCHANGED <<msg, reached, filed, drafts, dropped>>

\* The user deletes messages, or an identity: its mail is saved as drafts first.
\* A crash may leave saved mail in the queue.
TakeBack ==
  /\ UNCHANGED <<msg, reached, filed>>
  /\ queued' \subseteq queued
  /\ queued \ queued' \subseteq drafts' \cup dropped'
  /\ drafts \subseteq drafts' /\ drafts' \subseteq 1..Len(msg)
  /\ dropped \subseteq dropped' /\ dropped' \subseteq 1..Len(msg)

Next ==
  \/ TakeBack
  \/ \E m \in Message : Accept(m)
  \/ \E i \in 1..Len(msg) : Transfer(i) \/ Retire(i)

Spec == Init /\ [][Next]_vars
=============================================================================
