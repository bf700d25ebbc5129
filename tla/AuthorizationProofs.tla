------------------------ MODULE AuthorizationProofs ------------------------
(***************************************************************************)
(* Proofs about Authorization, for any two clients and all bounds.         *)
(***************************************************************************)
EXTENDS Authorization, ProofBasics, FiniteSetTheorems, SequenceTheorems, TLAPS

-----------------------------------------------------------------------------
(* The two clients.                                                        *)

\* Each client has one peer, and is the peer of its peer.
LEMMA PeerFacts ==
  ASSUME NEW c \in Clients
  PROVE  /\ Peer(c) \in Clients /\ Peer(c) # c /\ Peer(Peer(c)) = c
         /\ \A d \in Clients : d = c \/ d = Peer(c)
<1>1. IsFiniteSet(Clients) /\ Cardinality(Clients) = 2
  BY AuthorizationAssumption
<1> DEFINE S == Clients \ {c}
<1>2. IsFiniteSet(S) /\ Cardinality(S) = 1
  BY <1>1, FS_RemoveElement
<1>3. PICK b : S = {b}
  BY <1>2, FS_Singleton
<1>4. Clients = {c, b} /\ b # c
  BY <1>3
<1>5. Peer(c) = b /\ Peer(b) = c
  BY <1>4 DEF Peer
<1> QED BY <1>4, <1>5

-----------------------------------------------------------------------------
(* The operators.                                                          *)

\* The status after one's own answer, and after the other side's.
OwnStatus(s, kind, param)   == setAuthorizationStatus(s, kind, param, TRUE)
TheirStatus(s, kind, param) == setAuthorizationStatus(s, kind, param, FALSE)

\* What setAuthorizationStatus makes of a status: a contact stays one, only an
\* accepted request grants anything, and exactly what it asked for.
Answering(s, kind, param, r) ==
  /\ r \in Status /\ (r = "none" <=> s = "none")
  /\ r \in Accepted => r = s \/ (kind = "accept" /\ ParamOf(r) = param)
  /\ s # "none" /\ kind = "accept" /\ param # "neither" => r \in Accepted /\ ParamOf(r) = param
  /\ s # "none" /\ kind # "accept" => r \notin Accepted
  /\ s # "i_block" /\ r = TheirStatus(s, kind, param) => r # "i_block"

\* setAuthorizationStatus does that, whoever answers.
LEMMA StatusFacts ==
  ASSUME NEW s \in Status, NEW kind \in {"accept", "block", "deny"},
         NEW param \in {"chat", "mail", "both", "neither"}, NEW r,
         r = OwnStatus(s, kind, param) \/ r = TheirStatus(s, kind, param)
  PROVE  Answering(s, kind, param, r)
<1>1. s = "none" => r = s
  BY DEF setAuthorizationStatus, OwnStatus, TheirStatus
<1>2. s # "none" /\ kind = "block" => r = "i_block" \/ r = "blocked_me"
  BY DEF setAuthorizationStatus, OwnStatus, TheirStatus
<1>3. s # "none" /\ kind = "block" /\ r = TheirStatus(s, kind, param) =>
        r = "blocked_me"
  BY DEF setAuthorizationStatus, OwnStatus, TheirStatus
<1>4. s # "none" /\ kind = "deny" => r = "denied"
  BY DEF setAuthorizationStatus, OwnStatus, TheirStatus
<1>5. s # "none" /\ kind = "accept" /\ param = "chat" => r = "accepted_chat"
  BY DEF setAuthorizationStatus, OwnStatus, TheirStatus
<1>6. s # "none" /\ kind = "accept" /\ param = "mail" => r = "accepted_mail"
  BY DEF setAuthorizationStatus, OwnStatus, TheirStatus
<1>7. s # "none" /\ kind = "accept" /\ param = "both" => r = "accepted"
  BY DEF setAuthorizationStatus, OwnStatus, TheirStatus
<1>8. s # "none" /\ kind = "accept" /\ param = "neither" => r = s
  BY DEF setAuthorizationStatus, OwnStatus, TheirStatus
<1>9. /\ ParamOf("accepted_chat") = "chat" /\ ParamOf("accepted_mail") = "mail"
      /\ ParamOf("accepted") = "both"
  BY DEF ParamOf
<1>10. {"none", "i_block", "blocked_me", "denied"} \cap Accepted = {}
       /\ {"accepted", "accepted_chat", "accepted_mail", "i_block", "blocked_me", "denied"} \subseteq Status
  BY DEF Accepted, Status
<1>11. {"accepted", "accepted_chat", "accepted_mail"} = Accepted
  BY DEF Accepted
<1>12. /\ r \in Status /\ (r = "none" <=> s = "none")
       /\ s # "i_block" /\ r = TheirStatus(s, kind, param) => r # "i_block"
  BY <1>1, <1>2, <1>3, <1>4, <1>5, <1>6, <1>7, <1>8, <1>10
<1>13. r \in Accepted => r = s \/ (kind = "accept" /\ ParamOf(r) = param)
  BY <1>1, <1>2, <1>4, <1>5, <1>6, <1>7, <1>8, <1>9, <1>10
<1>14. s # "none" /\ kind = "accept" /\ param # "neither" => r \in Accepted /\ ParamOf(r) = param
  BY <1>5, <1>6, <1>7, <1>9, <1>11
<1>15. s # "none" /\ kind # "accept" => r \notin Accepted
  BY <1>2, <1>4, <1>10
<1> QED BY <1>12, <1>13, <1>14, <1>15 DEF Answering

\* Two acceptances of the same boxes are the same status.
LEMMA ParamDecides ==
  ASSUME NEW s \in Accepted, NEW r \in Accepted, ParamOf(s) = ParamOf(r)
  PROVE  s = r
BY DEF Accepted, ParamOf


-----------------------------------------------------------------------------
(* Handling one message, and all of request_db at the start.               *)

ClientStates == [status: Status, requestDb: SUBSET Ids, authDb: SUBSET Ids, items: Seq(Ids)]

\* A message is a request or one of two answers, for chat, mail, both or neither.
LEMMA MessageFacts ==
  ASSUME msgs \in Seq(Message), NEW id \in DOMAIN msgs
  PROVE  /\ msgs[id].kind \in {"request", "accept", "block"} /\ msgs[id].from \in Clients
         /\ msgs[id].param \in {"chat", "mail", "both", "neither"} /\ msgs[id].param \in Params
         /\ msgs[id].re \in 0..MaxMsgs
<1>1. msgs[id] \in Message
  OBVIOUS
<1> QED BY <1>1, AuthorizationAssumption DEF Message

\* What handling one message makes of the client state x.
Handling(x, id, h, y) ==
  /\ y \in ClientStates
  /\ msgs[id].kind = "request" =>
       /\ y.items = Append(x.items, id) /\ y.status = x.status
       /\ y.requestDb = x.requestDb /\ y.authDb = x.authDb
  /\ msgs[id].kind # "request" =>
       /\ y.items = x.items
       /\ y.status = TheirStatus(x.status, msgs[id].kind, msgs[id].param)
       /\ y.requestDb = IF h THEN x.requestDb \ {id} ELSE x.requestDb
       /\ y.authDb = IF h THEN x.authDb \union {id} ELSE x.authDb

\* Handled does that.
LEMMA HandledFacts ==
  ASSUME msgs \in Seq(Message), NEW x \in ClientStates, NEW id \in Ids, id \in DOMAIN msgs,
         NEW h \in BOOLEAN
  PROVE  Handling(x, id, h, Handled(x, id, h))
<1> DEFINE y == Handled(x, id, h)
<1>1. CASE msgs[id].kind = "request"
  <2>1. y = [x EXCEPT !.items = Append(@, id)]
    BY <1>1 DEF Handled
  <2>2. Append(x.items, id) \in Seq(Ids)
    BY DEF ClientStates
  <2> HIDE DEF y
  <2>3. /\ y.items = Append(x.items, id) /\ y.status = x.status
        /\ y.requestDb = x.requestDb /\ y.authDb = x.authDb
    BY <2>1 DEF ClientStates
  <2>4. y \in ClientStates
    BY <2>1, <2>2 DEF ClientStates
  <2> QED BY <1>1, <2>3, <2>4 DEF y, Handling
<1>2. CASE msgs[id].kind # "request"
  <2> DEFINE s == TheirStatus(x.status, msgs[id].kind, msgs[id].param)
             r == IF h THEN x.requestDb \ {id} ELSE x.requestDb
             a == IF h THEN x.authDb \union {id} ELSE x.authDb
  <2>1. y = [x EXCEPT !.status = s, !.requestDb = r, !.authDb = a]
    BY <1>2 DEF Handled, TheirStatus
  <2>2. s \in Status
    <3>1. x.status \in Status /\ msgs[id].kind \in {"accept", "block", "deny"}
          /\ msgs[id].param \in {"chat", "mail", "both", "neither"}
      BY <1>2, MessageFacts DEF ClientStates
    <3> QED BY <3>1, StatusFacts DEF Answering
  <2>3. r \in SUBSET Ids /\ a \in SUBSET Ids
    BY DEF ClientStates
  <2> HIDE DEF y, s, r, a
  <2>4. y.items = x.items /\ y.status = s /\ y.requestDb = r /\ y.authDb = a
    BY <2>1 DEF ClientStates
  <2>5. y \in ClientStates
    BY <2>1, <2>2, <2>3 DEF ClientStates
  <2> QED BY <1>2, <2>4, <2>5 DEF y, s, r, a, Handling
<1> QED BY <1>1, <1>2

\* The status s after the messages up to n of request_db: that of the last answer.
LoadedStatus(p, n, s) ==
  /\ s = "none" <=> p.status = "none"
  /\ p.status # "i_block" => s # "i_block"
  /\ s = p.status \/ \E id \in p.requestDb : msgs[id].kind # "request"
  /\ s \in Accepted =>
       s = p.status \/ \E id \in p.requestDb : msgs[id].kind = "accept" /\ msgs[id].param = ParamOf(s)
  /\ \A m \in p.requestDb :
       /\ p.status # "none" /\ m <= n /\ msgs[m].kind = "accept" /\ msgs[m].param # "neither"
       /\ \A k \in p.requestDb : k <= n /\ msgs[k].kind # "request" => k <= m
       => s \in Accepted /\ ParamOf(s) = msgs[m].param

\* The screen after the messages up to n: the requests, each once.
LoadedItems(p, n, its) ==
  /\ \A id \in p.requestDb :
       id <= n /\ msgs[id].kind = "request" => \E k \in 1..Len(its) : its[k] = id
  /\ \A k \in 1..Len(its) : its[k] \in p.requestDb /\ its[k] <= n /\ msgs[its[k]].kind = "request"
  /\ \A j, k \in 1..Len(its) : its[j] = its[k] => j = k

\* The databases after the messages up to n: the answers are dealt with, given
\* the identity.
LoadedDbs(p, n, h, r, a) ==
  /\ r = IF h THEN {id \in p.requestDb : id > n \/ msgs[id].kind = "request"} ELSE p.requestDb
  /\ a \subseteq p.authDb \union p.requestDb

Loaded(p, n, h, x) ==
  /\ x \in ClientStates
  /\ LoadedStatus(p, n, x.status) /\ LoadedItems(p, n, x.items)
  /\ LoadedDbs(p, n, h, x.requestDb, x.authDb)

\* A message that is not in request_db changes nothing.
LEMMA LoadedSkip ==
  ASSUME NEW p \in ClientStates, NEW n \in 1..MaxMsgs, NEW h \in BOOLEAN, NEW x,
         Loaded(p, n - 1, h, x), n \notin p.requestDb
  PROVE  Loaded(p, n, h, x)
<1>1. \A id \in p.requestDb : /\ id \in Nat /\ n \in Nat
                              /\ id <= n <=> id <= n - 1
                              /\ id > n <=> id > n - 1
  BY AuthorizationAssumption DEF ClientStates, Ids
<1>2. LoadedStatus(p, n, x.status)
  BY <1>1 DEF Loaded, LoadedStatus
<1>3. LoadedItems(p, n, x.items)
  BY <1>1 DEF Loaded, LoadedItems
<1>4. LoadedDbs(p, n, h, x.requestDb, x.authDb)
  BY <1>1 DEF Loaded, LoadedDbs
<1> QED BY <1>2, <1>3, <1>4 DEF Loaded

\* Handling the next message of request_db.
LEMMA LoadedNext ==
  ASSUME msgs \in Seq(Message), NEW p \in ClientStates, NEW n \in 1..MaxMsgs, NEW h \in BOOLEAN, NEW x,
         p.requestDb \subseteq DOMAIN msgs, Loaded(p, n - 1, h, x), n \in p.requestDb
  PROVE  Loaded(p, n, h, Handled(x, n, h))
<1> DEFINE y == Handled(x, n, h)
<1>1. \A id \in p.requestDb : /\ id \in Nat /\ n \in Nat
                              /\ id <= n <=> (id <= n - 1 \/ id = n)
                              /\ id > n <=> (id > n - 1 /\ id # n)
  BY AuthorizationAssumption DEF ClientStates, Ids
<1>2. x \in ClientStates /\ n \in Ids /\ n \in DOMAIN msgs
  BY DEF Loaded, Ids
<1>7. Handling(x, n, h, y)
  BY <1>2, HandledFacts
<1> HIDE DEF y
<1>3. /\ y \in ClientStates
      /\ msgs[n].kind = "request" =>
              /\ y.items = Append(x.items, n) /\ y.status = x.status
              /\ y.requestDb = x.requestDb /\ y.authDb = x.authDb
      /\ msgs[n].kind # "request" =>
              /\ y.items = x.items
              /\ y.status = TheirStatus(x.status, msgs[n].kind, msgs[n].param)
              /\ y.requestDb = IF h THEN x.requestDb \ {n} ELSE x.requestDb
              /\ y.authDb = IF h THEN x.authDb \union {n} ELSE x.authDb
  BY <1>7 DEF Handling
<1>0. y \in ClientStates
  BY <1>3
<1>4. /\ LoadedStatus(p, n - 1, x.status) /\ LoadedItems(p, n - 1, x.items)
      /\ LoadedDbs(p, n - 1, h, x.requestDb, x.authDb)
  BY DEF Loaded
<1>5. CASE msgs[n].kind = "request"
  <2>1. LoadedStatus(p, n, y.status)
    BY <1>1, <1>3, <1>4, <1>5 DEF LoadedStatus
  <2>2. LoadedDbs(p, n, h, y.requestDb, y.authDb)
    BY <1>1, <1>3, <1>4, <1>5 DEF LoadedDbs
  <2>3. LoadedItems(p, n, y.items)
    <3> DEFINE l == Len(x.items)
    <3>1. x.items \in Seq(Ids) /\ l \in Nat
      BY <1>2 DEF ClientStates
    <3>2. /\ Len(y.items) = l + 1 /\ y.items[l + 1] = n
          /\ \A k \in 1..l : y.items[k] = x.items[k]
      <4>1. y.items = Append(x.items, n)
        BY <1>3, <1>5
      <4> QED BY <1>2, <3>1, <4>1
    <3>3. 1..Len(y.items) = 1..l \union {l + 1} /\ l + 1 \notin 1..l
      BY <3>1, <3>2
    <3>4. \A k \in 1..l : x.items[k] \in p.requestDb /\ x.items[k] <= n - 1
      BY <1>4 DEF LoadedItems
    <3>5. \A k \in 1..l : x.items[k] # n /\ x.items[k] <= n
      BY <1>1, <3>4
    <3> HIDE DEF l
    <3>6. \A id \in p.requestDb :
            id <= n /\ msgs[id].kind = "request" => \E k \in 1..Len(y.items) : y.items[k] = id
      BY <1>1, <1>4, <3>2, <3>3 DEF LoadedItems, l
    <3>7. \A k \in 1..Len(y.items) :
            y.items[k] \in p.requestDb /\ y.items[k] <= n /\ msgs[y.items[k]].kind = "request"
      BY <1>1, <1>4, <1>5, <3>2, <3>3, <3>5 DEF LoadedItems, l
    <3>8. \A j, k \in 1..Len(y.items) : y.items[j] = y.items[k] => j = k
      BY <1>4, <3>2, <3>3, <3>5 DEF LoadedItems, l
    <3> QED BY <3>6, <3>7, <3>8 DEF LoadedItems
  <2> QED BY <1>0, <2>1, <2>2, <2>3 DEF Loaded, y
<1>6. CASE msgs[n].kind # "request"
  <2>1. LoadedItems(p, n, y.items)
    BY <1>1, <1>3, <1>4, <1>6 DEF LoadedItems
  <2>2. LoadedDbs(p, n, h, y.requestDb, y.authDb)
    <3>1. CASE h
      <4>1. y.requestDb = x.requestDb \ {n} /\ y.authDb = x.authDb \union {n}
        BY <1>3, <1>6, <3>1
      <4> QED BY <1>1, <1>4, <1>6, <3>1, <4>1 DEF LoadedDbs
    <3>2. CASE ~h
      <4>1. y.requestDb = x.requestDb /\ y.authDb = x.authDb
        BY <1>3, <1>6, <3>2
      <4> QED BY <1>1, <1>4, <1>6, <3>2, <4>1 DEF LoadedDbs
    <3> QED BY <3>1, <3>2
  <2>3. /\ y.status = "none" <=> x.status = "none"
        /\ y.status \in Accepted =>
             y.status = x.status \/ (msgs[n].kind = "accept" /\ ParamOf(y.status) = msgs[n].param)
        /\ x.status # "none" /\ msgs[n].kind = "accept" /\ msgs[n].param # "neither" =>
             y.status \in Accepted /\ ParamOf(y.status) = msgs[n].param
        /\ x.status # "i_block" => y.status # "i_block"
    <3>1. x.status \in Status /\ msgs[n].kind \in {"accept", "block", "deny"}
          /\ msgs[n].param \in {"chat", "mail", "both", "neither"}
      BY <1>2, <1>6, MessageFacts DEF ClientStates
    <3>2. y.status = TheirStatus(x.status, msgs[n].kind, msgs[n].param)
      BY <1>3, <1>6
    <3>3. Answering(x.status, msgs[n].kind, msgs[n].param, y.status)
      BY <3>1, <3>2, StatusFacts
    <3> QED BY <3>2, <3>3 DEF Answering
  <2>4. LoadedStatus(p, n, y.status)
    <3>1. y.status = "none" <=> p.status = "none"
      BY <1>4, <2>3 DEF LoadedStatus
    <3>2. p.status # "i_block" => y.status # "i_block"
      BY <1>4, <2>3 DEF LoadedStatus
    <3>3. y.status \in Accepted =>
            \/ y.status = p.status
            \/ \E id \in p.requestDb : msgs[id].kind = "accept" /\ msgs[id].param = ParamOf(y.status)
      BY <1>4, <2>3 DEF LoadedStatus
    <3>4. ASSUME NEW m \in p.requestDb, p.status # "none", m <= n, msgs[m].kind = "accept",
                 msgs[m].param # "neither",
                 \A k \in p.requestDb : k <= n /\ msgs[k].kind # "request" => k <= m
          PROVE  y.status \in Accepted /\ ParamOf(y.status) = msgs[m].param
      <4>1. m = n
        BY <1>1, <1>6, <3>4
      <4> QED BY <1>4, <2>3, <3>4, <4>1 DEF LoadedStatus
    <3> QED BY <1>6, <3>1, <3>2, <3>3, <3>4 DEF LoadedStatus
  <2> QED BY <1>0, <2>1, <2>2, <2>4 DEF Loaded, y
<1> QED BY <1>5, <1>6 DEF y

\* loadStoredRequests handles what request_db holds, the oldest first.
LEMMA LoadFacts ==
  ASSUME msgs \in Seq(Message), NEW c, identity[c] \in BOOLEAN, NEW p \in ClientStates,
         p.requestDb \subseteq DOMAIN msgs
  PROVE  Loaded(p, MaxMsgs, identity[c], loadStoredRequests(c, p))
<1> DEFINE h == identity[c]
           x0 == [p EXCEPT !.items = <<>>]
           handle(n, x) == IF n \in p.requestDb THEN Handled(x, n, h) ELSE x
           step == [n \in 1..MaxMsgs |-> [x \in ClientStates |-> handle(n, x)]]
<1>1. MaxMsgs \in Nat
  BY AuthorizationAssumption
<1>2. x0 \in ClientStates
  <2>1. << >> \in Seq(Ids)
    OBVIOUS
  <2> QED BY <2>1 DEF ClientStates
<1>3. ASSUME NEW n \in 1..MaxMsgs, NEW x \in ClientStates PROVE handle(n, x) \in ClientStates
  BY HandledFacts DEF Ids, Handling
<1>4. step \in [1..MaxMsgs -> [ClientStates -> ClientStates]]
  <2> HIDE DEF handle
  <2> QED BY <1>3
<1>5. PICK f \in [0..MaxMsgs -> ClientStates] : Iterates(f, x0, MaxMsgs, step)
  <2> HIDE DEF step, x0
  <2> QED BY <1>1, <1>2, <1>4, Recursion
<1>6. ASSUME NEW n \in 1..MaxMsgs PROVE f[n] = handle(n, f[n - 1])
  <2>1. n - 1 \in 0..MaxMsgs
    BY <1>1
  <2>2. f[n - 1] \in ClientStates
    BY <2>1
  <2> HIDE DEF handle
  <2> QED BY <1>5, <2>2 DEF Iterates
<1>7. f = [n \in 0..MaxMsgs |-> IF n = 0 THEN x0 ELSE handle(n, f[n - 1])]
  <2>1. ASSUME NEW n \in 0..MaxMsgs PROVE f[n] = IF n = 0 THEN x0 ELSE handle(n, f[n - 1])
    <3>1. n # 0 => n \in 1..MaxMsgs
      BY <1>1
    <3> HIDE DEF handle, x0, step
    <3> QED BY <1>5, <1>6, <3>1 DEF Iterates
  <2> HIDE DEF handle, x0
  <2> QED BY <2>1
<1> DEFINE R == CHOOSE r : r = [n \in 0..MaxMsgs |-> IF n = 0 THEN x0 ELSE handle(n, r[n - 1])]
<1>8. R = [n \in 0..MaxMsgs |-> IF n = 0 THEN x0 ELSE handle(n, R[n - 1])]
  <2> HIDE DEF handle, x0
  <2> QED BY <1>7
<1>9. loadStoredRequests(c, p) = R[MaxMsgs]
  BY DEF loadStoredRequests
<1> HIDE DEF R
<1> DEFINE S == {n \in 0..MaxMsgs : Loaded(p, n, h, R[n])}
<1>10. 0 \in S
  <2>1. R[0] = x0 /\ 0 \in 0..MaxMsgs
    <3> HIDE DEF handle, x0
    <3> QED BY <1>1, <1>8
  <2>2. x0.status = p.status /\ x0.items = <<>> /\ x0.requestDb = p.requestDb /\ x0.authDb = p.authDb
    BY DEF ClientStates
  <2>3. \A id \in p.requestDb : id > 0 /\ ~(id <= 0)
    BY <1>1 DEF ClientStates, Ids
  <2> HIDE DEF x0
  <2>4. LoadedStatus(p, 0, x0.status)
    BY <2>2, <2>3 DEF LoadedStatus
  <2>5. LoadedItems(p, 0, x0.items)
    BY <2>2, <2>3 DEF LoadedItems
  <2>6. LoadedDbs(p, 0, h, x0.requestDb, x0.authDb)
    BY <2>2, <2>3 DEF LoadedDbs
  <2> QED BY <1>2, <2>1, <2>4, <2>5, <2>6 DEF Loaded
<1>11. ASSUME NEW n \in 1..MaxMsgs, n - 1 \in S PROVE n \in S
  <2>1. n \in 0..MaxMsgs /\ n # 0 /\ Loaded(p, n - 1, h, R[n - 1])
    BY <1>1, <1>11
  <2>2. R[n] = handle(n, R[n - 1])
    <3> HIDE DEF handle, x0
    <3> QED BY <1>8, <2>1
  <2>3. Loaded(p, n, h, R[n])
    BY <2>1, <2>2, LoadedSkip, LoadedNext
  <2> QED BY <2>1, <2>3
<1>12. MaxMsgs \in S
  <2> HIDE DEF S
  <2>1. \A n \in 0..MaxMsgs : n \in S
    BY <1>1, <1>10, <1>11, SegmentInduction
  <2> QED BY <1>1, <2>1
<1> QED BY <1>9, <1>12

-----------------------------------------------------------------------------
(* Answering.                                                              *)

\* The order of the steps of an answer.
LEMMA RankFacts ==
  /\ ~(Rank["status"] < Rank["status"])
  /\ Rank["status"] >= Rank["removed"] /\ Rank["status"] >= Rank["stored"]
  /\ \A last \in Steps \ {"status"} : Rank[last] < Rank["status"]
BY DEF Rank, Steps

\* What the steps of an answer up to `last' do to a client.
Replying(x, id, answer, last, h, y) ==
  /\ y \in ClientStates /\ y.items = x.items
  /\ y.requestDb \in {x.requestDb, x.requestDb \ {id}}
  /\ last = "status" /\ h => y.requestDb = x.requestDb \ {id}
  /\ y.authDb \subseteq x.authDb \union {id}
  /\ x.status # "none" => y.status # "none"
  /\ y.status \in Accepted =>
       y.status = x.status \/ (answer = "accept" /\ ParamOf(y.status) = msgs[id].param)
  /\ last = "status" /\ answer # "accept" => y.status \notin Accepted
  /\ last = "status" /\ answer = "accept" /\ msgs[id].param # "neither" =>
       y.status = "none" \/ (y.status \in Accepted /\ ParamOf(y.status) = msgs[id].param)

\* Answered does that.
LEMMA AnsweredFacts ==
  ASSUME msgs \in Seq(Message), NEW x \in ClientStates, NEW id \in Ids, id \in DOMAIN msgs,
         NEW answer \in Answers, NEW add \in BOOLEAN, NEW last \in Steps, NEW h \in BOOLEAN
  PROVE  Replying(x, id, answer, last, h, Answered(x, id, answer, add, last, h))
<1> DEFINE y == Answered(x, id, answer, add, last, h)
           s == IF answer = "deny" THEN x.status ELSE addAsNewContact(x.status, add)
           t == OwnStatus(s, answer, msgs[id].param)
           e == IF Rank[last] < Rank["status"] THEN s ELSE t
           r == IF h /\ Rank[last] >= Rank["removed"] THEN x.requestDb \ {id} ELSE x.requestDb
           a == IF h /\ Rank[last] >= Rank["stored"] THEN x.authDb \union {id} ELSE x.authDb
<1>1. y = [x EXCEPT !.status = e, !.requestDb = r, !.authDb = a]
  BY DEF Answered, OwnStatus
<1>2. s \in Status /\ (x.status # "none" => s = x.status) /\ (s \in Accepted => s = x.status)
  BY DEF addAsNewContact, ClientStates, Status, Accepted
<1> HIDE DEF s
<1>3. answer \in {"accept", "block", "deny"} /\ msgs[id].param \in {"chat", "mail", "both", "neither"}
  BY MessageFacts DEF Answers
<1>4. Answering(s, answer, msgs[id].param, t)
  BY <1>2, <1>3, StatusFacts
<1> HIDE DEF t
<1>5. (last = "status" => e = t) /\ (e = s \/ e = t)
  BY RankFacts
<1>6. r \in SUBSET Ids /\ r \in {x.requestDb, x.requestDb \ {id}}
      /\ (last = "status" /\ h => r = x.requestDb \ {id})
  BY RankFacts DEF ClientStates
<1>7. a \in SUBSET Ids /\ a \subseteq x.authDb \union {id}
  BY DEF ClientStates
<1> HIDE DEF e, r, a, y
<1>8. e \in Status
  BY <1>2, <1>4, <1>5 DEF Answering
<1>9. y \in ClientStates /\ y.items = x.items /\ y.status = e /\ y.requestDb = r /\ y.authDb = a
  BY <1>1, <1>6, <1>7, <1>8 DEF ClientStates
<1>10. x.status # "none" => e # "none"
  BY <1>2, <1>4, <1>5 DEF Answering
<1>11. e \in Accepted => e = x.status \/ (answer = "accept" /\ ParamOf(e) = msgs[id].param)
  BY <1>2, <1>4, <1>5 DEF Answering
<1>12. last = "status" /\ answer # "accept" => e \notin Accepted
  <2>1. "none" \notin Accepted
    BY DEF Accepted
  <2> QED BY <1>4, <1>5, <2>1 DEF Answering
<1>13. last = "status" /\ answer = "accept" /\ msgs[id].param # "neither" =>
         e = "none" \/ (e \in Accepted /\ ParamOf(e) = msgs[id].param)
  BY <1>4, <1>5 DEF Answering
<1> QED BY <1>6, <1>7, <1>9, <1>10, <1>11, <1>12, <1>13 DEF Replying, y

-----------------------------------------------------------------------------
(* Type correctness.                                                       *)

\* A message from the other side.
Known(c, id)     == id \in DOMAIN msgs /\ msgs[id].from = Peer(c)
KnownNext(c, id) == id \in DOMAIN msgs' /\ msgs'[id].from = Peer(c)

\* Only requests are shown for an answer.
ItemsAreRequests ==
  \A c \in Clients : \A i \in DOMAIN items[c] : msgs[items[c][i]].kind = "request"

\* An answer carries the boxes of a request that the other side sent.
AnswersKnown ==
  \A m \in DOMAIN msgs :
    IF msgs[m].kind = "request" THEN msgs[m].re = 0
    ELSE /\ msgs[m].re \in DOMAIN msgs
         /\ msgs[msgs[m].re].kind = "request"
         /\ msgs[msgs[m].re].from = Peer(msgs[m].from)
         /\ msgs[m].param = msgs[msgs[m].re].param

TypeInv == TypeOK /\ Len(msgs) <= MaxMsgs /\ ItemsAreRequests /\ AnswersKnown

\* What the types say of one client.
LEMMA TypeFacts ==
  ASSUME TypeInv, NEW c \in Clients
  PROVE  /\ msgs \in Seq(Message) /\ Len(msgs) \in Nat /\ DOMAIN msgs = 1..Len(msgs)
         /\ DOMAIN msgs \subseteq Ids
         /\ Client(c) \in ClientStates
         /\ Client(c).status = status[c] /\ Client(c).requestDb = requestDb[c]
         /\ Client(c).authDb = authDb[c] /\ Client(c).items = items[c]
         /\ status[c] \in Status /\ identity[c] \in BOOLEAN
         /\ requestDb[c] \subseteq Ids /\ authDb[c] \subseteq Ids
         /\ net[c] \in Seq(Ids) /\ notes[c] \in Seq(Ids) /\ items[c] \in Seq(Ids)
         /\ \A id \in requestDb[c] \union authDb[c] : Known(c, id)
         /\ \A k \in DOMAIN net[c] : Known(c, net[c][k])
         /\ \A k \in DOMAIN notes[c] : Known(c, notes[c][k])
         /\ \A k \in DOMAIN items[c] : Known(c, items[c][k]) /\ msgs[items[c][k]].kind = "request"
<1>1. /\ status[c] \in Status /\ identity[c] \in BOOLEAN
      /\ requestDb[c] \in SUBSET Ids /\ authDb[c] \in SUBSET Ids
      /\ net[c] \in Seq(Ids) /\ notes[c] \in Seq(Ids) /\ items[c] \in Seq(Ids)
      /\ msgs \in Seq(Message)
  BY DEF TypeInv, TypeOK
<1>2. \A id \in requestDb[c] \union authDb[c] \union Range(net[c]) \union Range(notes[c])
               \union Range(items[c]) : Known(c, id)
  BY DEF TypeInv, TypeOK, Known
<1>3. Len(msgs) \in Nat /\ DOMAIN msgs = 1..Len(msgs) /\ Len(msgs) <= MaxMsgs
  BY <1>1 DEF TypeInv
<1>4. DOMAIN msgs \subseteq Ids
  BY <1>3, AuthorizationAssumption DEF Ids
<1>5. /\ \A k \in DOMAIN net[c] : net[c][k] \in Range(net[c])
      /\ \A k \in DOMAIN notes[c] : notes[c][k] \in Range(notes[c])
      /\ \A k \in DOMAIN items[c] : items[c][k] \in Range(items[c])
  BY DEF Range
<1>6. Client(c) \in ClientStates
      /\ Client(c).status = status[c] /\ Client(c).requestDb = requestDb[c]
      /\ Client(c).authDb = authDb[c] /\ Client(c).items = items[c]
  BY <1>1 DEF Client, ClientStates
<1>7. \A k \in DOMAIN items[c] : msgs[items[c][k]].kind = "request"
  BY DEF TypeInv, ItemsAreRequests
<1>8. /\ \A k \in DOMAIN net[c] : Known(c, net[c][k])
      /\ \A k \in DOMAIN notes[c] : Known(c, notes[c][k])
      /\ \A k \in DOMAIN items[c] : Known(c, items[c][k])
  BY <1>2, <1>5
<1> QED BY <1>1, <1>2, <1>3, <1>4, <1>6, <1>7, <1>8

\* Client c becomes p, with the notifications ns.
Moves(c, p, ns) == Becomes(c, p) /\ notes' = [notes EXCEPT ![c] = ns]

\* What may happen to the messages and to those on the way.
Sends(c, kind, param, re) ==
  /\ Len(msgs) < MaxMsgs
  /\ msgs' = Append(msgs, [from |-> c, kind |-> kind, param |-> param, re |-> re])
  /\ net' = [net EXCEPT ![Peer(c)] = Append(@, Len(msgs) + 1)]

Silent == UNCHANGED <<msgs, net>>

Takes(c) == net[c] # <<>> /\ msgs' = msgs /\ net' = [net EXCEPT ![c] = Tail(@)]

Withdraws(c) ==
  /\ msgs' = msgs
  /\ \E k \in 0..Len(net[Peer(c)]) : net' = [net EXCEPT ![Peer(c)] = SubSeq(@, 1, k)]

\* A request, or an answer to a request of the other side with its boxes.
ProperMessage(c, kind, param, re) ==
  /\ param \in Params
  /\ \/ kind = "request" /\ re = 0
     \/ /\ kind \in {"accept", "block"} /\ re \in DOMAIN msgs
        /\ msgs[re].kind = "request" /\ msgs[re].from = Peer(c) /\ msgs[re].param = param

Travels(c) ==
  \/ Silent \/ Takes(c) \/ Withdraws(c)
  \/ \E kind, param, re : Sends(c, kind, param, re) /\ ProperMessage(c, kind, param, re)

\* Sending a message leaves the earlier ones as they are.
LEMMA SendFacts ==
  ASSUME TypeInv, NEW c \in Clients, Travels(c)
  PROVE  /\ \A id \in DOMAIN msgs : id \in DOMAIN msgs' /\ msgs'[id] = msgs[id]
         /\ \A d \in Clients : \A id : Known(d, id) => KnownNext(d, id)
         /\ \A id \in DOMAIN msgs' : id \in DOMAIN msgs \/ id = Len(msgs) + 1
<1>1. msgs \in Seq(Message)
  BY TypeFacts
<1>2. CASE msgs' = msgs
  BY <1>2 DEF Known, KnownNext
<1>3. ASSUME NEW kind, NEW param, NEW re, Sends(c, kind, param, re)
      PROVE  /\ \A id \in DOMAIN msgs : id \in DOMAIN msgs' /\ msgs'[id] = msgs[id]
             /\ \A id \in DOMAIN msgs' : id \in DOMAIN msgs \/ id = Len(msgs) + 1
  <2>1. msgs' = Append(msgs, [from |-> c, kind |-> kind, param |-> param, re |-> re])
    BY <1>3 DEF Sends
  <2> QED BY <1>1, <2>1
<1> QED BY <1>2, <1>3 DEF Travels, Silent, Takes, Withdraws, Known, KnownNext

\* The message that was sent.
LEMMA SentFacts ==
  ASSUME TypeInv, NEW c \in Clients, NEW kind, NEW param, NEW re,
         Sends(c, kind, param, re), ProperMessage(c, kind, param, re)
  PROVE  /\ msgs' \in Seq(Message) /\ Len(msgs') = Len(msgs) + 1 /\ Len(msgs) < MaxMsgs
         /\ DOMAIN msgs' = 1..(Len(msgs) + 1) /\ Len(msgs) + 1 \in Ids
         /\ msgs'[Len(msgs) + 1] = [from |-> c, kind |-> kind, param |-> param, re |-> re]
         /\ KnownNext(Peer(c), Len(msgs) + 1)
<1> DEFINE m == [from |-> c, kind |-> kind, param |-> param, re |-> re]
<1>1. msgs \in Seq(Message) /\ Len(msgs) \in Nat /\ DOMAIN msgs \subseteq Ids
  BY TypeFacts
<1>2. m \in Message
  BY <1>1, AuthorizationAssumption DEF ProperMessage, Message, Ids
<1>3. msgs' = Append(msgs, m) /\ Len(msgs) < MaxMsgs
  BY DEF Sends
<1>4. Len(msgs) + 1 \in Ids
  BY <1>1, <1>3, AuthorizationAssumption DEF Ids
<1>5. m.from = Peer(Peer(c))
  BY PeerFacts
<1> HIDE DEF m
<1>6. /\ msgs' \in Seq(Message) /\ Len(msgs') = Len(msgs) + 1 /\ msgs'[Len(msgs) + 1] = m
      /\ DOMAIN msgs' = 1..(Len(msgs) + 1)
  BY <1>1, <1>2, <1>3
<1> QED BY <1>1, <1>3, <1>4, <1>5, <1>6 DEF KnownNext, m

\* What is on the way comes from the other side, and stays in its order.
LEMMA TravelFacts ==
  ASSUME TypeInv, NEW c \in Clients, Travels(c)
  PROVE  /\ net' \in [Clients -> Seq(Ids)] /\ msgs' \in Seq(Message) /\ Len(msgs') <= MaxMsgs
         /\ \A d \in Clients : \A k \in DOMAIN net'[d] : KnownNext(d, net'[d][k])
         /\ AnswersKnown'
<1>1. /\ msgs \in Seq(Message) /\ net \in [Clients -> Seq(Ids)] /\ Len(msgs) <= MaxMsgs
      /\ \A d \in Clients : net[d] \in Seq(Ids) /\ \A k \in DOMAIN net[d] : Known(d, net[d][k])
      /\ AnswersKnown
  <2>1. \A d \in Clients : net[d] \in Seq(Ids) /\ \A k \in DOMAIN net[d] : Known(d, net[d][k])
    BY TypeFacts
  <2> QED BY <2>1 DEF TypeInv, TypeOK
<1>2. Peer(c) \in Clients
  BY PeerFacts
<1>3. ASSUME msgs' = msgs PROVE AnswersKnown'
  BY <1>1, <1>3 DEF AnswersKnown
<1>4. ASSUME NEW d \in Clients, NEW s \in Seq(Ids), net' = [net EXCEPT ![d] = s], msgs' = msgs,
             \A k \in DOMAIN s : \E j \in DOMAIN net[d] : s[k] = net[d][j]
      PROVE  /\ net' \in [Clients -> Seq(Ids)]
             /\ \A e \in Clients : \A k \in DOMAIN net'[e] : KnownNext(e, net'[e][k])
  BY <1>1, <1>4 DEF Known, KnownNext
<1>5. CASE Silent
  BY <1>1, <1>3, <1>5 DEF Silent, Known, KnownNext
<1>6. CASE Takes(c)
  <2>1. Tail(net[c]) \in Seq(Ids)
    BY <1>1, <1>6 DEF Takes
  <2>2. \A k \in DOMAIN Tail(net[c]) : \E j \in DOMAIN net[c] : Tail(net[c])[k] = net[c][j]
    <3> SUFFICES ASSUME NEW k \in DOMAIN Tail(net[c])
                 PROVE  \E j \in DOMAIN net[c] : Tail(net[c])[k] = net[c][j]
      OBVIOUS
    <3>1. k + 1 \in DOMAIN net[c] /\ Tail(net[c])[k] = net[c][k + 1]
      BY <1>1, <1>6 DEF Takes
    <3> QED BY <3>1
  <2> DEFINE s == Tail(net[c])
  <2>3. s \in Seq(Ids) /\ \A k \in DOMAIN s : \E j \in DOMAIN net[c] : s[k] = net[c][j]
    BY <2>1, <2>2
  <2>4. net' = [net EXCEPT ![c] = s] /\ msgs' = msgs
    BY <1>1, <1>6 DEF Takes
  <2> HIDE DEF s
  <2>5. /\ net' \in [Clients -> Seq(Ids)]
        /\ \A e \in Clients : \A k \in DOMAIN net'[e] : KnownNext(e, net'[e][k])
    BY <1>4, <2>3, <2>4
  <2> QED BY <1>1, <1>3, <2>4, <2>5
<1>7. CASE Withdraws(c)
  <2>1. PICK n \in 0..Len(net[Peer(c)]) : net' = [net EXCEPT ![Peer(c)] = SubSeq(@, 1, n)]
    BY <1>7 DEF Withdraws
  <2> DEFINE s == SubSeq(net[Peer(c)], 1, n)
  <2>2. s \in Seq(Ids) /\ DOMAIN s = 1..n /\ \A k \in 1..n : s[k] = net[Peer(c)][k] /\ k \in DOMAIN net[Peer(c)]
    BY <1>1, <1>2
  <2>3. net' = [net EXCEPT ![Peer(c)] = s] /\ msgs' = msgs
    BY <1>1, <1>2, <1>7, <2>1 DEF Withdraws
  <2> HIDE DEF s
  <2>4. /\ net' \in [Clients -> Seq(Ids)]
        /\ \A e \in Clients : \A k \in DOMAIN net'[e] : KnownNext(e, net'[e][k])
    BY <1>2, <1>4, <2>2, <2>3
  <2> QED BY <1>1, <1>3, <2>3, <2>4
<1>8. ASSUME NEW kind, NEW param, NEW re, Sends(c, kind, param, re), ProperMessage(c, kind, param, re)
      PROVE  /\ net' \in [Clients -> Seq(Ids)] /\ msgs' \in Seq(Message) /\ Len(msgs') <= MaxMsgs
             /\ \A d \in Clients : \A k \in DOMAIN net'[d] : KnownNext(d, net'[d][k])
             /\ AnswersKnown'
  <2> DEFINE new == Len(msgs) + 1
             m == [from |-> c, kind |-> kind, param |-> param, re |-> re]
  <2>1. /\ msgs' \in Seq(Message) /\ Len(msgs') = new /\ Len(msgs) < MaxMsgs
        /\ DOMAIN msgs' = 1..new /\ new \in Ids /\ msgs'[new] = m
        /\ KnownNext(Peer(c), new)
    BY <1>8, SentFacts
  <2>2. net' = [net EXCEPT ![Peer(c)] = Append(net[Peer(c)], new)]
    BY <1>8 DEF Sends
  <2>3. /\ \A id \in DOMAIN msgs : id \in DOMAIN msgs' /\ msgs'[id] = msgs[id]
        /\ \A d \in Clients : \A id : Known(d, id) => KnownNext(d, id)
        /\ \A id \in DOMAIN msgs' : id \in DOMAIN msgs \/ id = new
    BY <1>8, SendFacts DEF Travels
  <2>4. Len(msgs') <= MaxMsgs
    BY <1>1, <2>1, AuthorizationAssumption
  <2>5. m.kind = kind /\ m.param = param /\ m.from = c /\ m.re = re
    OBVIOUS
  <2> HIDE DEF new, m
  <2>6. /\ Append(net[Peer(c)], new) \in Seq(Ids)
        /\ \A k \in DOMAIN Append(net[Peer(c)], new) :
             Append(net[Peer(c)], new)[k] = new
             \/ (k \in DOMAIN net[Peer(c)] /\ Append(net[Peer(c)], new)[k] = net[Peer(c)][k])
    BY <1>1, <1>2, <2>1
  <2>7. net' \in [Clients -> Seq(Ids)]
    BY <1>1, <1>2, <2>2, <2>6
  <2>8. \A d \in Clients : \A k \in DOMAIN net'[d] : KnownNext(d, net'[d][k])
    <3> SUFFICES ASSUME NEW d \in Clients, NEW k \in DOMAIN net'[d] PROVE KnownNext(d, net'[d][k])
      OBVIOUS
    <3>1. CASE d = Peer(c)
      <4>1. net'[d] = Append(net[Peer(c)], new)
        BY <1>1, <1>2, <2>2, <3>1
      <4> QED BY <1>1, <1>2, <2>1, <2>3, <2>6, <3>1, <4>1
    <3>2. CASE d # Peer(c)
      BY <1>1, <2>2, <2>3, <3>2
    <3> QED BY <3>1, <3>2
  <2>9. AnswersKnown'
    <3> SUFFICES ASSUME NEW n \in DOMAIN msgs'
                 PROVE  IF msgs'[n].kind = "request" THEN msgs'[n].re = 0
                        ELSE /\ msgs'[n].re \in DOMAIN msgs'
                             /\ msgs'[msgs'[n].re].kind = "request"
                             /\ msgs'[msgs'[n].re].from = Peer(msgs'[n].from)
                             /\ msgs'[n].param = msgs'[msgs'[n].re].param
      BY DEF AnswersKnown
    <3>1. CASE n = new
      BY <1>8, <2>1, <2>3, <2>5, <3>1 DEF ProperMessage
    <3>2. CASE n \in DOMAIN msgs
      BY <1>1, <2>3, <3>2 DEF AnswersKnown
    <3> QED BY <2>3, <3>1, <3>2
  <2> QED BY <2>1, <2>4, <2>7, <2>8, <2>9
<1> QED BY <1>1, <1>5, <1>6, <1>7, <1>8 DEF Travels, Silent, Takes, Withdraws

\* A step of client c changes nothing of the other's.
LEMMA MoveFacts ==
  ASSUME TypeInv, NEW c \in Clients, NEW p \in ClientStates, NEW ns \in Seq(Ids), Moves(c, p, ns)
  PROVE  /\ status'[c] = p.status /\ requestDb'[c] = p.requestDb /\ authDb'[c] = p.authDb
         /\ items'[c] = p.items /\ notes'[c] = ns
         /\ \A d \in Clients : d # c =>
              /\ status'[d] = status[d] /\ requestDb'[d] = requestDb[d] /\ authDb'[d] = authDb[d]
              /\ items'[d] = items[d] /\ notes'[d] = notes[d]
         /\ status' \in [Clients -> Status] /\ requestDb' \in [Clients -> SUBSET Ids]
         /\ authDb' \in [Clients -> SUBSET Ids] /\ notes' \in [Clients -> Seq(Ids)]
         /\ items' \in [Clients -> Seq(Ids)]
<1>1. p.status \in Status /\ p.requestDb \in SUBSET Ids /\ p.authDb \in SUBSET Ids /\ p.items \in Seq(Ids)
  BY DEF ClientStates
<1> QED BY <1>1 DEF Moves, Becomes, TypeInv, TypeOK

\* Types are kept by a step in which client c comes to hold messages of its peer.
LEMMA TypeByParts ==
  ASSUME TypeInv, NEW c \in Clients, NEW p \in ClientStates, NEW ns \in Seq(Ids), Moves(c, p, ns),
         Travels(c),
         \A id \in p.requestDb \union p.authDb : Known(c, id),
         \A k \in DOMAIN p.items : Known(c, p.items[k]) /\ msgs[p.items[k]].kind = "request",
         \A k \in DOMAIN ns : Known(c, ns[k]),
         identity' \in [Clients -> BOOLEAN], troubles' \in 0..MaxTroubles, edits' \in 0..MaxEdits
  PROVE  TypeInv'
<1>1. /\ net' \in [Clients -> Seq(Ids)] /\ msgs' \in Seq(Message) /\ Len(msgs') <= MaxMsgs
      /\ \A d \in Clients : \A k \in DOMAIN net'[d] : KnownNext(d, net'[d][k])
      /\ AnswersKnown'
  BY TravelFacts
<1>2. /\ status'[c] = p.status /\ requestDb'[c] = p.requestDb /\ authDb'[c] = p.authDb
      /\ items'[c] = p.items /\ notes'[c] = ns
      /\ \A d \in Clients : d # c =>
           /\ status'[d] = status[d] /\ requestDb'[d] = requestDb[d] /\ authDb'[d] = authDb[d]
           /\ items'[d] = items[d] /\ notes'[d] = notes[d]
      /\ status' \in [Clients -> Status] /\ requestDb' \in [Clients -> SUBSET Ids]
      /\ authDb' \in [Clients -> SUBSET Ids] /\ notes' \in [Clients -> Seq(Ids)]
      /\ items' \in [Clients -> Seq(Ids)]
  BY MoveFacts
<1>3. /\ \A id \in DOMAIN msgs : id \in DOMAIN msgs' /\ msgs'[id] = msgs[id]
      /\ \A d \in Clients : \A id : Known(d, id) => KnownNext(d, id)
  BY SendFacts
<1>4. ASSUME NEW d \in Clients
      PROVE  /\ \A id \in requestDb'[d] \union authDb'[d] : KnownNext(d, id)
             /\ \A k \in DOMAIN notes'[d] : KnownNext(d, notes'[d][k])
             /\ \A k \in DOMAIN items'[d] : KnownNext(d, items'[d][k]) /\ msgs'[items'[d][k]].kind = "request"
  <2>1. CASE d = c
    BY <1>2, <1>3, <2>1 DEF Known, KnownNext
  <2>2. CASE d # c
    <3>1. /\ \A id \in requestDb[d] \union authDb[d] : Known(d, id)
          /\ \A k \in DOMAIN notes[d] : Known(d, notes[d][k])
          /\ \A k \in DOMAIN items[d] : Known(d, items[d][k]) /\ msgs[items[d][k]].kind = "request"
      BY TypeFacts
    <3>2. requestDb'[d] = requestDb[d] /\ authDb'[d] = authDb[d] /\ items'[d] = items[d] /\ notes'[d] = notes[d]
      BY <1>2, <2>2
    <3>3. \A k \in DOMAIN items[d] : KnownNext(d, items[d][k]) /\ msgs'[items[d][k]].kind = "request"
      BY <1>3, <3>1 DEF Known
    <3>4. \A k \in DOMAIN notes[d] : KnownNext(d, notes[d][k])
      BY <1>3, <3>1
    <3> QED BY <1>3, <3>1, <3>2, <3>3, <3>4
  <2> QED BY <2>1, <2>2
<1>5. ItemsAreRequests'
  BY <1>4 DEF ItemsAreRequests
<1>6. \A d \in Clients :
       \A id \in requestDb'[d] \union authDb'[d] \union Range(net'[d])
               \union Range(notes'[d]) \union Range(items'[d]) : KnownNext(d, id)
  BY <1>1, <1>4 DEF Range
<1>7. TypeOK'
  BY <1>1, <1>2, <1>6 DEF TypeOK, KnownNext
<1> QED BY <1>1, <1>5, <1>7 DEF TypeInv

-----------------------------------------------------------------------------
(* What a step of client c does, in terms of the state p it comes to have  *)
(* and the notifications ns it has left.                                   *)

SameDbs(c, p) == p.requestDb = requestDb[c] /\ p.authDb = authDb[c] /\ p.items = items[c]

NoIncident == UNCHANGED <<identity, troubles, edits>>

\* RequestAuthorization::onSend.
Asks(c, p, ns) ==
  /\ NoIncident /\ identity[c] /\ SameDbs(c, p) /\ ns = notes[c]
  /\ p.status = "sent_request" \/ (p.status = "none" /\ status[c] = "none")
  /\ \E param \in Params : Sends(c, "request", param, 0)

\* received_request, perhaps not for the last time.
Receives(c, p, ns) ==
  /\ UNCHANGED <<identity, edits>>
  /\ net[c] # <<>>
  /\ p.status = status[c] /\ p.authDb = authDb[c] /\ p.items = items[c]
  /\ (Takes(c) /\ troubles' = troubles) \/ (Silent /\ troubles' \in 1..MaxTroubles)
  /\ IF identity[c] /\ status[c] # "i_block"
     THEN p.requestDb = requestDb[c] \union {Head(net[c])} /\ ns = Append(notes[c], Head(net[c]))
     ELSE p.requestDb = requestDb[c] /\ ns = notes[c]

\* A notification is delivered.
Delivers(c, p, ns) ==
  /\ NoIncident /\ Silent
  /\ notes[c] # <<>> /\ ns = Tail(notes[c])
  /\ p = Handled(Client(c), Head(notes[c]), identity[c])

\* The program is started again.
Reloads(c, p, ns) ==
  /\ NoIncident /\ Silent /\ ns = <<>>
  /\ Loaded(Client(c), MaxMsgs, identity[c], p)

\* The reply to request id, if there is one.
RepliesTo(c, id, answer) ==
  IF identity[c] /\ answer # "deny" THEN Sends(c, answer, msgs[id].param, id) ELSE Silent

\* onAccept, onDeny or onBlock of an item.
Replies(c, p, ns) ==
  /\ NoIncident /\ ns = notes[c]
  /\ \E i \in 1..Len(items[c]), answer \in Answers, q \in ClientStates :
       /\ Replying(Client(c), items[c][i], answer, "status", identity[c], q)
       /\ p.status = q.status /\ p.requestDb = q.requestDb /\ p.authDb = q.authDb
       /\ p.items = RemoveAt(items[c], i)
       /\ RepliesTo(c, items[c][i], answer)

\* The program dies in one of them, and is started again.
Dies(c, p, ns) ==
  /\ UNCHANGED <<identity, edits>> /\ troubles' \in 1..MaxTroubles /\ ns = <<>>
  /\ \E i \in 1..Len(items[c]), answer \in Answers, last \in Steps, q \in ClientStates :
       /\ Replying(Client(c), items[c][i], answer, last, identity[c], q)
       /\ Loaded(q, MaxMsgs, identity[c], p)

\* The user changes the contact or deletes the identity.
Edits(c, p, ns) ==
  /\ troubles' = troubles /\ edits' \in 1..MaxEdits /\ ns = notes[c]
  /\ SameDbs(c, p) /\ (p.status = status[c] \/ p.status \notin Accepted)
  /\ (identity' = identity /\ Silent) \/ (identity' = [identity EXCEPT ![c] = FALSE] /\ Withdraws(c))

Shape(c, p, ns) ==
  /\ p \in ClientStates /\ ns \in Seq(Ids) /\ Moves(c, p, ns) /\ Travels(c)
  /\ \/ Asks(c, p, ns) \/ Receives(c, p, ns) \/ Delivers(c, p, ns) \/ Reloads(c, p, ns)
     \/ Replies(c, p, ns) \/ Dies(c, p, ns) \/ Edits(c, p, ns)

\* A client that is left alone.
LEMMA StaysPut ==
  ASSUME TypeInv, NEW c \in Clients
  PROVE  /\ status = [status EXCEPT ![c] = status[c]]
         /\ requestDb = [requestDb EXCEPT ![c] = requestDb[c]]
         /\ authDb = [authDb EXCEPT ![c] = authDb[c]]
         /\ items = [items EXCEPT ![c] = items[c]]
         /\ notes = [notes EXCEPT ![c] = notes[c]]
<1>1. /\ status \in [Clients -> Status] /\ requestDb \in [Clients -> SUBSET Ids]
      /\ authDb \in [Clients -> SUBSET Ids] /\ notes \in [Clients -> Seq(Ids)]
      /\ items \in [Clients -> Seq(Ids)]
  BY DEF TypeInv, TypeOK
<1> QED BY <1>1

\* A step that changes only the status of a client.
LEMMA StatusMoves ==
  ASSUME TypeInv, NEW c \in Clients, NEW s \in Status, status' = [status EXCEPT ![c] = s],
         UNCHANGED <<requestDb, authDb, items, notes>>
  PROVE  LET p == [Client(c) EXCEPT !.status = s] IN
         /\ p \in ClientStates /\ Moves(c, p, notes[c]) /\ SameDbs(c, p) /\ p.status = s
         /\ notes[c] \in Seq(Ids)
<1> DEFINE p == [Client(c) EXCEPT !.status = s]
<1>1. /\ Client(c) \in ClientStates /\ notes[c] \in Seq(Ids)
      /\ Client(c).requestDb = requestDb[c]
      /\ Client(c).authDb = authDb[c] /\ Client(c).items = items[c]
  BY TypeFacts
<1>2. p \in ClientStates /\ p.status = s /\ p.requestDb = requestDb[c] /\ p.authDb = authDb[c]
      /\ p.items = items[c]
  BY <1>1 DEF ClientStates
<1> HIDE DEF p
<1> QED BY <1>1, <1>2, StaysPut DEF Moves, Becomes, SameDbs, p

\* A reply is a proper message.
LEMMA ReplyFacts ==
  ASSUME TypeInv, NEW c \in Clients, NEW i \in 1..Len(items[c]), NEW answer \in Answers
  PROVE  /\ items[c][i] \in Ids /\ items[c][i] \in DOMAIN msgs /\ Known(c, items[c][i])
         /\ msgs[items[c][i]].kind = "request"
         /\ answer # "deny" => ProperMessage(c, answer, msgs[items[c][i]].param, items[c][i])
         /\ RepliesTo(c, items[c][i], answer) => Travels(c)
         /\ sendReply(c, items[c][i], answer) => RepliesTo(c, items[c][i], answer)
<1>1. items[c] \in Seq(Ids) /\ msgs \in Seq(Message) /\ i \in DOMAIN items[c]
  BY TypeFacts
<1>2. Known(c, items[c][i]) /\ msgs[items[c][i]].kind = "request" /\ items[c][i] \in Ids
  BY <1>1, TypeFacts
<1>3. items[c][i] \in DOMAIN msgs /\ msgs[items[c][i]].param \in Params
  BY <1>1, <1>2, MessageFacts DEF Known
<1>4. answer # "deny" => ProperMessage(c, answer, msgs[items[c][i]].param, items[c][i])
  BY <1>2, <1>3 DEF ProperMessage, Known, Answers
<1>5. RepliesTo(c, items[c][i], answer) => Travels(c)
  BY <1>4 DEF RepliesTo, Travels
<1>6. sendReply(c, items[c][i], answer) => RepliesTo(c, items[c][i], answer)
  BY DEF sendReply, RepliesTo, SendAuth, Sends, Silent
<1> QED BY <1>2, <1>3, <1>4, <1>5, <1>6

\* Asking.
LEMMA AskShape ==
  ASSUME TypeInv, NEW c \in Clients, onSend(c) PROVE \E p, ns : Shape(c, p, ns)
<1>1. PICK param \in Params, add \in BOOLEAN :
        /\ SendAuth(c, "request", param, 0)
        /\ status' = [status EXCEPT ![c] =
             IF addAsNewContact(status[c], add) = "none" THEN "none" ELSE "sent_request"]
  BY DEF onSend
<1> DEFINE s == IF addAsNewContact(status[c], add) = "none" THEN "none" ELSE "sent_request"
           p == [Client(c) EXCEPT !.status = s]
<1>2. s \in Status /\ (s = "sent_request" \/ (s = "none" /\ status[c] = "none"))
  BY DEF Status, addAsNewContact
<1>3. Sends(c, "request", param, 0) /\ ProperMessage(c, "request", param, 0)
  BY <1>1 DEF SendAuth, Sends, ProperMessage
<1>4. UNCHANGED <<requestDb, authDb, identity, notes, items, troubles, edits>> /\ identity[c]
  BY DEF onSend
<1>5. status' = [status EXCEPT ![c] = s]
  BY <1>1
<1> HIDE DEF s
<1>6. p \in ClientStates /\ Moves(c, p, notes[c]) /\ SameDbs(c, p) /\ p.status = s /\ notes[c] \in Seq(Ids)
  BY <1>2, <1>4, <1>5, StatusMoves
<1> HIDE DEF p
<1>7. Asks(c, p, notes[c])
  BY <1>2, <1>3, <1>4, <1>6 DEF Asks, NoIncident
<1>8. Travels(c)
  BY <1>3 DEF Travels
<1> QED BY <1>6, <1>7, <1>8 DEF Shape

\* Receiving.
LEMMA ReceiveShape ==
  ASSUME TypeInv, NEW c \in Clients, received_request(c) PROVE \E p, ns : Shape(c, p, ns)
<1> DEFINE store == identity[c] /\ status[c] # "i_block"
           r == IF store THEN requestDb[c] \union {Head(net[c])} ELSE requestDb[c]
           ns == IF store THEN Append(notes[c], Head(net[c])) ELSE notes[c]
           p == [Client(c) EXCEPT !.requestDb = r]
<1>1. /\ Client(c) \in ClientStates /\ notes[c] \in Seq(Ids) /\ net[c] \in Seq(Ids)
      /\ Client(c).status = status[c] /\ requestDb[c] \subseteq Ids
      /\ Client(c).authDb = authDb[c] /\ Client(c).items = items[c]
  BY TypeFacts
<1>2. net[c] # <<>> /\ Head(net[c]) \in Ids
  BY <1>1 DEF received_request
<1>3. r \in SUBSET Ids /\ ns \in Seq(Ids)
  BY <1>1, <1>2
<1>4. requestDb' = [requestDb EXCEPT ![c] = r] /\ notes' = [notes EXCEPT ![c] = ns]
  BY StaysPut DEF received_request
<1>5. UNCHANGED <<status, authDb, identity, items, msgs, edits>>
  BY DEF received_request
<1>6. (Takes(c) /\ troubles' = troubles) \/ (Silent /\ troubles' \in 1..MaxTroubles)
  BY <1>2, AuthorizationAssumption DEF received_request, Takes, Silent, TypeInv, TypeOK
<1>7. IF identity[c] /\ status[c] # "i_block"
      THEN r = requestDb[c] \union {Head(net[c])} /\ ns = Append(notes[c], Head(net[c]))
      ELSE r = requestDb[c] /\ ns = notes[c]
  OBVIOUS
<1> HIDE DEF r, ns
<1>8. p \in ClientStates /\ p.status = status[c] /\ p.requestDb = r /\ p.authDb = authDb[c]
      /\ p.items = items[c]
  BY <1>1, <1>3 DEF ClientStates
<1> HIDE DEF p
<1>9. Moves(c, p, ns)
  BY <1>4, <1>5, <1>8, StaysPut DEF Moves, Becomes
<1>10. Receives(c, p, ns)
  BY <1>2, <1>5, <1>6, <1>7, <1>8 DEF Receives
<1>11. Travels(c)
  BY <1>6 DEF Travels
<1> QED BY <1>3, <1>8, <1>9, <1>10, <1>11 DEF Shape

\* Delivering a notification, and restarting.
LEMMA DeliverShape ==
  ASSUME TypeInv, NEW c \in Clients, DeliverNote(c) \/ Restart(c) PROVE \E p, ns : Shape(c, p, ns)
<1>1. /\ Client(c) \in ClientStates /\ notes[c] \in Seq(Ids) /\ msgs \in Seq(Message)
      /\ identity[c] \in BOOLEAN /\ \A k \in DOMAIN notes[c] : Known(c, notes[c][k])
      /\ Client(c).requestDb = requestDb[c] /\ \A id \in requestDb[c] : Known(c, id)
  BY TypeFacts
<1>2. CASE DeliverNote(c)
  <2> DEFINE p == Handled(Client(c), Head(notes[c]), identity[c])
             ns == Tail(notes[c])
  <2>1. notes[c] # <<>> /\ Head(notes[c]) = notes[c][1] /\ 1 \in DOMAIN notes[c] /\ ns \in Seq(Ids)
        /\ Head(notes[c]) \in Ids
    BY <1>1, <1>2 DEF DeliverNote
  <2>2. p \in ClientStates
    BY <1>1, <2>1, HandledFacts DEF Known, Handling
  <2>3. Moves(c, p, ns) /\ NoIncident /\ Silent
    BY <1>2 DEF DeliverNote, Moves, NoIncident, Silent
  <2>4. Delivers(c, p, ns)
    BY <2>1, <2>3 DEF Delivers
  <2> HIDE DEF p, ns
  <2> QED BY <2>1, <2>2, <2>3, <2>4 DEF Shape, Travels
<1>3. CASE Restart(c)
  <2> DEFINE p == loadStoredRequests(c, Client(c))
             ns == << >>
  <2>1. Loaded(Client(c), MaxMsgs, identity[c], p)
    BY <1>1, LoadFacts DEF Known
  <2>2. Moves(c, p, ns) /\ NoIncident /\ Silent
    BY <1>3 DEF Restart, Moves, NoIncident, Silent
  <2>3. ns = <<>> /\ ns \in Seq(Ids)
    OBVIOUS
  <2> HIDE DEF p, ns
  <2>4. p \in ClientStates
    BY <2>1 DEF Loaded
  <2>5. Reloads(c, p, ns)
    BY <2>1, <2>2, <2>3 DEF Reloads
  <2> QED BY <2>2, <2>3, <2>4, <2>5 DEF Shape, Travels
<1> QED BY <1>2, <1>3

\* Answering.
LEMMA AnswerShape ==
  ASSUME TypeInv, NEW c \in Clients, NEW i \in DOMAIN items[c], NEW answer \in Answers,
         Answer(c, i, answer)
  PROVE  \E p, ns : Shape(c, p, ns)
<1> DEFINE id == items[c][i]
<1>1. /\ Client(c) \in ClientStates /\ notes[c] \in Seq(Ids) /\ msgs \in Seq(Message)
      /\ identity[c] \in BOOLEAN /\ items[c] \in Seq(Ids) /\ Client(c).items = items[c]
  BY TypeFacts
<1>2. i \in 1..Len(items[c])
  BY <1>1
<1>3. /\ id \in Ids /\ id \in DOMAIN msgs
      /\ RepliesTo(c, id, answer) => Travels(c)
      /\ sendReply(c, id, answer) => RepliesTo(c, id, answer)
  BY <1>2, ReplyFacts
<1>4. PICK add \in BOOLEAN :
        Becomes(c, [Answered(Client(c), id, answer, add, "status", identity[c])
                    EXCEPT !.items = RemoveAt(@, i)])
  BY DEF Answer
<1>5. sendReply(c, id, answer) /\ UNCHANGED <<identity, notes, troubles, edits>>
  BY DEF Answer
<1> DEFINE q == Answered(Client(c), id, answer, add, "status", identity[c])
           p == [q EXCEPT !.items = RemoveAt(@, i)]
<1>6. Replying(Client(c), id, answer, "status", identity[c], q)
  <2>1. "status" \in Steps
    BY DEF Steps
  <2> HIDE DEF id, q
  <2> QED BY <1>1, <1>3, <2>1, AnsweredFacts DEF q
<1>7. Becomes(c, p)
  BY <1>4
<1> HIDE DEF q
<1>8. q \in ClientStates /\ q.items = items[c]
  BY <1>1, <1>6 DEF Replying
<1>9. RemoveAt(items[c], i) \in Seq(Ids)
  BY <1>1, <1>2, RemoveAtFacts
<1>10. /\ p \in ClientStates /\ p.items = RemoveAt(items[c], i)
       /\ p.status = q.status /\ p.requestDb = q.requestDb /\ p.authDb = q.authDb
  BY <1>8, <1>9 DEF ClientStates
<1> HIDE DEF p
<1>11. Moves(c, p, notes[c])
  BY <1>5, <1>7, StaysPut DEF Moves
<1>12. Replies(c, p, notes[c])
  BY <1>2, <1>3, <1>5, <1>6, <1>8, <1>10 DEF Replies, NoIncident
<1> QED BY <1>1, <1>3, <1>5, <1>10, <1>11, <1>12 DEF Shape

\* Dying in an answer.
LEMMA CrashShape ==
  ASSUME TypeInv, NEW c \in Clients, NEW i \in DOMAIN items[c], NEW answer \in Answers,
         CrashInAnswer(c, i, answer)
  PROVE  \E p, ns : Shape(c, p, ns)
<1> DEFINE id == items[c][i]
<1>1. /\ Client(c) \in ClientStates /\ msgs \in Seq(Message)
      /\ identity[c] \in BOOLEAN /\ items[c] \in Seq(Ids)
      /\ Client(c).requestDb = requestDb[c] /\ \A m \in requestDb[c] : Known(c, m)
  BY TypeFacts
<1>2. i \in 1..Len(items[c])
  BY <1>1
<1>3. /\ id \in Ids /\ id \in DOMAIN msgs
      /\ RepliesTo(c, id, answer) => Travels(c)
      /\ sendReply(c, id, answer) => RepliesTo(c, id, answer)
  BY <1>2, ReplyFacts
<1>4. PICK add \in BOOLEAN, last \in Steps \ {"status"} :
        /\ IF last = "contact" THEN UNCHANGED <<msgs, net>> ELSE sendReply(c, id, answer)
        /\ Becomes(c, loadStoredRequests(c, Answered(Client(c), id, answer, add, last, identity[c])))
  BY DEF CrashInAnswer
<1>5. /\ UNCHANGED <<identity, edits>> /\ notes' = [notes EXCEPT ![c] = <<>>]
      /\ troubles' \in 1..MaxTroubles
  BY AuthorizationAssumption DEF CrashInAnswer, TypeInv, TypeOK
<1> DEFINE q == Answered(Client(c), id, answer, add, last, identity[c])
           p == loadStoredRequests(c, q)
           ns == << >>
<1>6. Replying(Client(c), id, answer, last, identity[c], q)
  <2> HIDE DEF id, q
  <2> QED BY <1>1, <1>3, AnsweredFacts DEF q
<1>7. Becomes(c, p)
  BY <1>4
<1> HIDE DEF q
<1>8. q \in ClientStates /\ q.requestDb \subseteq DOMAIN msgs
  BY <1>1, <1>6 DEF Replying, Known
<1>9. Loaded(q, MaxMsgs, identity[c], p)
  BY <1>1, <1>8, LoadFacts
<1>10. Moves(c, p, ns) /\ ns = <<>> /\ ns \in Seq(Ids)
  BY <1>5, <1>7 DEF Moves
<1>11. Travels(c)
  BY <1>3, <1>4 DEF Travels, Silent
<1> HIDE DEF p, ns
<1>12. Dies(c, p, ns)
  BY <1>2, <1>4, <1>5, <1>6, <1>8, <1>9, <1>10 DEF Dies
<1>13. p \in ClientStates
  BY <1>9 DEF Loaded
<1> QED BY <1>10, <1>11, <1>12, <1>13 DEF Shape

\* Changing a contact or deleting the identity.
LEMMA EditShape ==
  ASSUME TypeInv, NEW c \in Clients,
         \/ onBlockContact(c) \/ onUnblockContact(c) \/ AddContact(c) \/ onRemoveContact(c)
         \/ onIdentityDelete(c)
  PROVE  \E p, ns : Shape(c, p, ns)
<1>1. PICK s \in Status :
        /\ s = status[c] \/ s \notin Accepted
        /\ status' = [status EXCEPT ![c] = s]
        /\ (identity' = identity /\ Silent) \/ (identity' = [identity EXCEPT ![c] = FALSE] /\ Withdraws(c))
        /\ UNCHANGED <<requestDb, authDb, items, notes, troubles>> /\ edits' \in 1..MaxEdits
  <2>1. edits \in 0..MaxEdits
    BY DEF TypeInv, TypeOK
  <2>2. ASSUME NEW s \in {"i_block", "unauthorized", "none"}, SetContact(c, s)
        PROVE  /\ s \in Status /\ s \notin Accepted /\ status' = [status EXCEPT ![c] = s]
               /\ identity' = identity /\ Silent
               /\ UNCHANGED <<requestDb, authDb, items, notes, troubles>> /\ edits' \in 1..MaxEdits
    BY <2>1, <2>2, AuthorizationAssumption DEF SetContact, Silent, Status, Accepted
  <2>3. onBlockContact(c) => SetContact(c, "i_block")
    BY DEF onBlockContact
  <2>4. onUnblockContact(c) \/ AddContact(c) => SetContact(c, "unauthorized")
    BY DEF onUnblockContact, AddContact
  <2>5. onRemoveContact(c) => SetContact(c, "none")
    BY DEF onRemoveContact
  <2>6. CASE onIdentityDelete(c)
    <3>1. /\ status' = status /\ identity' = [identity EXCEPT ![c] = FALSE] /\ Withdraws(c)
          /\ UNCHANGED <<requestDb, authDb, items, notes, troubles>>
      BY <2>6 DEF onIdentityDelete, Withdraws
    <3>2. edits' \in 1..MaxEdits
      BY <2>1, <2>6, AuthorizationAssumption DEF onIdentityDelete
    <3>3. status[c] \in Status
      BY TypeFacts
    <3> QED BY <3>1, <3>2, <3>3, StaysPut
  <2> QED BY <2>2, <2>3, <2>4, <2>5, <2>6
<1> DEFINE p == [Client(c) EXCEPT !.status = s]
<1>2. p \in ClientStates /\ Moves(c, p, notes[c]) /\ SameDbs(c, p) /\ p.status = s /\ notes[c] \in Seq(Ids)
  BY <1>1, StatusMoves
<1> HIDE DEF p
<1>3. Edits(c, p, notes[c])
  BY <1>1, <1>2 DEF Edits
<1>4. Travels(c)
  BY <1>1 DEF Travels
<1> QED BY <1>2, <1>3, <1>4 DEF Shape

\* Every step is one of these.
LEMMA ShapeStep ==
  ASSUME TypeInv, Next PROVE \E c \in Clients : \E p, ns : Shape(c, p, ns)
<1>1. PICK c \in Clients :
        \/ onSend(c) \/ received_request(c) \/ DeliverNote(c) \/ Restart(c)
        \/ \E i \in DOMAIN items[c], answer \in Answers :
             Answer(c, i, answer) \/ CrashInAnswer(c, i, answer)
        \/ onBlockContact(c) \/ onUnblockContact(c) \/ AddContact(c) \/ onRemoveContact(c)
        \/ onIdentityDelete(c)
  BY DEF Next
<1>2. \E p, ns : Shape(c, p, ns)
  BY <1>1, AskShape, ReceiveShape, DeliverShape, AnswerShape, CrashShape, EditShape
<1> QED BY <1>2

-----------------------------------------------------------------------------
(* Type correctness and what a client comes to hold.                       *)

\* Everything a client comes to hold was sent by the other one.
HoldsKnown(c, p, ns) ==
  /\ \A id \in p.requestDb \union p.authDb : Known(c, id)
  /\ \A k \in DOMAIN p.items : Known(c, p.items[k]) /\ msgs[p.items[k]].kind = "request"
  /\ \A k \in DOMAIN ns : Known(c, ns[k])

\* It is so after a start.
LEMMA LoadedKnown ==
  ASSUME NEW c, NEW q \in ClientStates, \A id \in q.requestDb \union q.authDb : Known(c, id),
         NEW h \in BOOLEAN, NEW p, Loaded(q, MaxMsgs, h, p)
  PROVE  HoldsKnown(c, p, <<>>)
<1>1. p.items \in Seq(Ids)
  BY DEF Loaded, ClientStates
<1>2. p.requestDb \subseteq q.requestDb /\ p.authDb \subseteq q.authDb \union q.requestDb
  BY DEF Loaded, LoadedDbs
<1>3. \A k \in DOMAIN p.items : p.items[k] \in q.requestDb /\ msgs[p.items[k]].kind = "request"
  BY <1>1 DEF Loaded, LoadedItems
<1> QED BY <1>2, <1>3 DEF HoldsKnown

\* It is so after every step.
LEMMA HoldFacts ==
  ASSUME TypeInv, NEW c \in Clients, NEW p, NEW ns, Shape(c, p, ns)
  PROVE  HoldsKnown(c, p, ns)
<1>1. /\ Client(c) \in ClientStates /\ msgs \in Seq(Message)
      /\ identity[c] \in BOOLEAN /\ items[c] \in Seq(Ids) /\ notes[c] \in Seq(Ids) /\ net[c] \in Seq(Ids)
      /\ Client(c).requestDb = requestDb[c] /\ Client(c).authDb = authDb[c] /\ Client(c).items = items[c]
      /\ \A id \in requestDb[c] \union authDb[c] : Known(c, id)
      /\ \A k \in DOMAIN net[c] : Known(c, net[c][k])
      /\ \A k \in DOMAIN notes[c] : Known(c, notes[c][k])
      /\ \A k \in DOMAIN items[c] : Known(c, items[c][k]) /\ msgs[items[c][k]].kind = "request"
  BY TypeFacts
<1>2. CASE Asks(c, p, ns) \/ Edits(c, p, ns)
  BY <1>1, <1>2 DEF Asks, Edits, SameDbs, HoldsKnown
<1>3. CASE Receives(c, p, ns)
  <2>1. Head(net[c]) = net[c][1] /\ 1 \in DOMAIN net[c]
    BY <1>1, <1>3 DEF Receives
  <2>2. Known(c, Head(net[c])) /\ Head(net[c]) \in Ids
    BY <1>1, <2>1
  <2>3. \A k \in DOMAIN Append(notes[c], Head(net[c])) :
          \/ Append(notes[c], Head(net[c]))[k] = Head(net[c])
          \/ k \in DOMAIN notes[c] /\ Append(notes[c], Head(net[c]))[k] = notes[c][k]
    BY <1>1, <2>2
  <2>4. \A k \in DOMAIN ns : Known(c, ns[k])
    BY <1>1, <1>3, <2>2, <2>3 DEF Receives
  <2> QED BY <1>1, <1>3, <2>2, <2>4 DEF Receives, HoldsKnown
<1>4. CASE Delivers(c, p, ns)
  <2> DEFINE m == Head(notes[c])
  <2>1. m = notes[c][1] /\ 1 \in DOMAIN notes[c] /\ m \in Ids
        /\ \A k \in DOMAIN Tail(notes[c]) : k + 1 \in DOMAIN notes[c] /\ Tail(notes[c])[k] = notes[c][k + 1]
    BY <1>1, <1>4 DEF Delivers
  <2>2. Known(c, m) /\ \A k \in DOMAIN ns : Known(c, ns[k])
    BY <1>1, <1>4, <2>1 DEF Delivers
  <2> HIDE DEF m
  <2>3. /\ msgs[m].kind = "request" =>
              /\ p.items = Append(items[c], m)
              /\ p.requestDb = requestDb[c] /\ p.authDb = authDb[c]
        /\ msgs[m].kind # "request" =>
              /\ p.items = items[c]
              /\ p.requestDb \subseteq requestDb[c] /\ p.authDb \subseteq authDb[c] \union {m}
    <3>1. Client(c) \in ClientStates /\ m \in Ids /\ m \in DOMAIN msgs /\ identity[c] \in BOOLEAN
          /\ p = Handled(Client(c), m, identity[c])
      BY <1>1, <1>4, <2>1, <2>2 DEF Delivers, Known, m
    <3>2. Handling(Client(c), m, identity[c], p)
      BY <1>1, <3>1, HandledFacts
    <3> QED BY <1>1, <3>2 DEF Handling
  <2>4. \A k \in DOMAIN Append(items[c], m) :
          \/ Append(items[c], m)[k] = m
          \/ k \in DOMAIN items[c] /\ Append(items[c], m)[k] = items[c][k]
    BY <1>1, <2>1
  <2>5. \A k \in DOMAIN p.items : Known(c, p.items[k]) /\ msgs[p.items[k]].kind = "request"
    BY <1>1, <2>2, <2>3, <2>4
  <2>6. \A id \in p.requestDb \union p.authDb : Known(c, id)
    BY <1>1, <2>2, <2>3
  <2> QED BY <2>2, <2>5, <2>6 DEF HoldsKnown
<1>5. CASE Reloads(c, p, ns)
  BY <1>1, <1>5, LoadedKnown DEF Reloads
<1>6. CASE Replies(c, p, ns)
  <2>1. PICK i \in 1..Len(items[c]), answer \in Answers, q \in ClientStates :
          /\ Replying(Client(c), items[c][i], answer, "status", identity[c], q)
          /\ p.status = q.status /\ p.requestDb = q.requestDb /\ p.authDb = q.authDb
          /\ p.items = RemoveAt(items[c], i)
    BY <1>6 DEF Replies
  <2>2. i \in DOMAIN items[c]
    BY <1>1
  <2>3. p.requestDb \subseteq requestDb[c] /\ p.authDb \subseteq authDb[c] \union {items[c][i]}
    BY <1>1, <2>1 DEF Replying
  <2>4. \A k \in DOMAIN p.items : \E j \in DOMAIN items[c] : p.items[k] = items[c][j]
    <3>1. Without(items[c], i, RemoveAt(items[c], i))
      BY <1>1, RemoveAtFacts
    <3> QED BY <2>1, <3>1 DEF Without
  <2>5. ns = notes[c]
    BY <1>6 DEF Replies
  <2> QED BY <1>1, <2>2, <2>3, <2>4, <2>5 DEF HoldsKnown
<1>7. CASE Dies(c, p, ns)
  <2>1. PICK i \in 1..Len(items[c]), answer \in Answers, last \in Steps, q \in ClientStates :
          /\ Replying(Client(c), items[c][i], answer, last, identity[c], q)
          /\ Loaded(q, MaxMsgs, identity[c], p)
    BY <1>7 DEF Dies
  <2>2. i \in DOMAIN items[c] /\ ns = <<>>
    BY <1>1, <1>7 DEF Dies
  <2>3. q.requestDb \subseteq requestDb[c] /\ q.authDb \subseteq authDb[c] \union {items[c][i]}
    BY <1>1, <2>1 DEF Replying
  <2> QED BY <1>1, <2>1, <2>2, <2>3, LoadedKnown
<1> QED BY <1>2, <1>3, <1>4, <1>5, <1>6, <1>7 DEF Shape

\* What happens to the identities and the counters.
LEMMA IncidentFacts ==
  ASSUME TypeInv, NEW c \in Clients, NEW p, NEW ns, Shape(c, p, ns)
  PROVE  /\ identity' \in [Clients -> BOOLEAN] /\ troubles' \in 0..MaxTroubles /\ edits' \in 0..MaxEdits
         /\ \A d \in Clients : identity'[d] => identity[d]
         /\ troubles' = 0 => troubles = 0
         /\ edits' = 0 => edits = 0 /\ identity' = identity
<1>1. identity \in [Clients -> BOOLEAN] /\ troubles \in 0..MaxTroubles /\ edits \in 0..MaxEdits
  BY DEF TypeInv, TypeOK
<1>2. MaxTroubles \in Nat /\ MaxEdits \in Nat
  BY AuthorizationAssumption
<1>3. \/ identity' = identity
      \/ identity' = [identity EXCEPT ![c] = FALSE] /\ edits' \in 1..MaxEdits
  BY DEF Shape, Asks, Receives, Delivers, Reloads, Replies, Dies, Edits, NoIncident
<1>4. identity' \in [Clients -> BOOLEAN] /\ \A d \in Clients : identity'[d] => identity[d]
  BY <1>1, <1>3
<1>5. troubles' = troubles \/ troubles' \in 1..MaxTroubles
  BY DEF Shape, Asks, Receives, Delivers, Reloads, Replies, Dies, Edits, NoIncident
<1>6. edits' = edits \/ edits' \in 1..MaxEdits
  BY DEF Shape, Asks, Receives, Delivers, Reloads, Replies, Dies, Edits, NoIncident
<1> QED BY <1>1, <1>2, <1>3, <1>4, <1>5, <1>6

\* A step keeps the types.
LEMMA TypeStep ==
  ASSUME TypeInv, NEW c \in Clients, NEW p, NEW ns, Shape(c, p, ns)
  PROVE  TypeInv'
BY HoldFacts, IncidentFacts, TypeByParts DEF HoldsKnown, Shape

\* The first state is typed.
LEMMA TypeInit == ASSUME Init PROVE TypeInv
<1>1. << >> \in Seq(Ids) /\ << >> \in Seq(Message) /\ Len(<< >>) = 0 /\ DOMAIN << >> = {}
  OBVIOUS
<1>2. {"none", "unauthorized"} \subseteq Status
  BY DEF Status
<1>3. /\ status \in [Clients -> Status] /\ requestDb \in [Clients -> SUBSET Ids]
      /\ authDb \in [Clients -> SUBSET Ids] /\ identity \in [Clients -> BOOLEAN]
      /\ net \in [Clients -> Seq(Ids)] /\ notes \in [Clients -> Seq(Ids)] /\ items \in [Clients -> Seq(Ids)]
  BY <1>1, <1>2 DEF Init
<1>4. \A c \in Clients : requestDb[c] = {} /\ authDb[c] = {} /\ net[c] = <<>> /\ notes[c] = <<>>
                         /\ items[c] = <<>>
  BY DEF Init
<1>5. Range(<< >>) = {}
  BY DEF Range
<1>6. TypeOK
  BY <1>1, <1>3, <1>4, <1>5, AuthorizationAssumption DEF TypeOK, Init
<1>7. ItemsAreRequests /\ AnswersKnown
  BY <1>1, <1>4 DEF ItemsAreRequests, AnswersKnown, Init
<1> QED BY <1>1, <1>6, <1>7, AuthorizationAssumption DEF TypeInv, Init

\* Every reachable state is typed: TypeOK, and what the proofs add to it, that
\* only requests are shown and that an answer belongs to a request.
THEOREM AuthorizationTypes == Spec => []TypeOK
<1>1. Init => TypeInv
  BY TypeInit
<1>2. ASSUME TypeInv, [Next]_vars PROVE TypeInv'
  <2>1. CASE Next
    BY <1>2, <2>1, ShapeStep, TypeStep
  <2>2. CASE UNCHANGED vars
    BY <1>2, <2>2 DEF vars, TypeInv, TypeOK, ItemsAreRequests, AnswersKnown
  <2> QED BY <1>2, <2>1, <2>2
<1>3. TypeInv => TypeOK
  BY DEF TypeInv
<1> QED BY <1>1, <1>2, <1>3, PTL DEF Spec

-----------------------------------------------------------------------------
(* What is granted was agreed to.                                          *)

\* Acceptance s of the other side is what a message of it asked for or accepted.
Agreed(c, s) ==
  \E m \in DOMAIN msgs :
    /\ msgs[m].from = Peer(c) /\ msgs[m].kind \in {"request", "accept"}
    /\ msgs[m].param = ParamOf(s)

\* What a start makes of a status.
LEMMA LoadedGrant ==
  ASSUME NEW c, NEW q \in ClientStates, \A id \in q.requestDb : Known(c, id),
         NEW h \in BOOLEAN, NEW p, Loaded(q, MaxMsgs, h, p), p.status \in Accepted
  PROVE  p.status = q.status \/ Agreed(c, p.status)
<1>1. LoadedStatus(q, MaxMsgs, p.status)
  BY DEF Loaded
<1>2. \/ p.status = q.status
      \/ \E id \in q.requestDb : msgs[id].kind = "accept" /\ msgs[id].param = ParamOf(p.status)
  BY <1>1 DEF LoadedStatus
<1> QED BY <1>2 DEF Agreed, Known

\* A step grants only what was asked for or accepted.
LEMMA GrantFacts ==
  ASSUME TypeInv, NEW c \in Clients, NEW p, NEW ns, Shape(c, p, ns), p.status \in Accepted
  PROVE  p.status = status[c] \/ Agreed(c, p.status)
<1>1. /\ Client(c) \in ClientStates /\ msgs \in Seq(Message)
      /\ identity[c] \in BOOLEAN /\ items[c] \in Seq(Ids) /\ notes[c] \in Seq(Ids)
      /\ Client(c).status = status[c] /\ Client(c).requestDb = requestDb[c]
      /\ \A id \in requestDb[c] \union authDb[c] : Known(c, id)
      /\ \A k \in DOMAIN notes[c] : Known(c, notes[c][k])
      /\ \A k \in DOMAIN items[c] : Known(c, items[c][k]) /\ msgs[items[c][k]].kind = "request"
      /\ status[c] \in Status
  BY TypeFacts
<1>2. CASE Asks(c, p, ns) \/ Edits(c, p, ns) \/ Receives(c, p, ns)
  <2>1. "sent_request" \notin Accepted /\ "none" \notin Accepted
    BY DEF Accepted
  <2> QED BY <1>2, <2>1 DEF Asks, Edits, Receives
<1>3. CASE Delivers(c, p, ns)
  <2> DEFINE m == Head(notes[c])
  <2>1. m = notes[c][1] /\ 1 \in DOMAIN notes[c] /\ m \in Ids /\ p = Handled(Client(c), m, identity[c])
    BY <1>1, <1>3 DEF Delivers
  <2>2. Known(c, m) /\ m \in DOMAIN msgs
    BY <1>1, <2>1 DEF Known
  <2> HIDE DEF m
  <2>3. Handling(Client(c), m, identity[c], p)
    BY <1>1, <2>1, <2>2, HandledFacts
  <2>4. CASE msgs[m].kind = "request"
    BY <1>1, <2>3, <2>4 DEF Handling
  <2>5. CASE msgs[m].kind # "request"
    <3>1. p.status = TheirStatus(status[c], msgs[m].kind, msgs[m].param)
      BY <1>1, <2>3, <2>5 DEF Handling
    <3>2. msgs[m].kind \in {"accept", "block", "deny"}
          /\ msgs[m].param \in {"chat", "mail", "both", "neither"}
      BY <1>1, <2>2, <2>5, MessageFacts
    <3>3. Answering(status[c], msgs[m].kind, msgs[m].param, p.status)
      BY <1>1, <3>1, <3>2, StatusFacts
    <3> QED BY <2>2, <3>3 DEF Answering, Agreed, Known
  <2> QED BY <2>4, <2>5
<1>4. CASE Reloads(c, p, ns)
  BY <1>1, <1>4, LoadedGrant DEF Reloads
<1>5. ASSUME NEW i \in 1..Len(items[c]), NEW answer \in Answers, NEW last \in Steps,
             NEW q \in ClientStates, q.status \in Accepted,
             Replying(Client(c), items[c][i], answer, last, identity[c], q)
      PROVE  q.status = status[c] \/ Agreed(c, q.status)
  <2>1. Known(c, items[c][i]) /\ msgs[items[c][i]].kind = "request"
    BY <1>1
  <2> QED BY <1>1, <1>5, <2>1 DEF Replying, Agreed, Known
<1>6. CASE Replies(c, p, ns)
  <2>1. "status" \in Steps
    BY DEF Steps
  <2> QED BY <1>5, <1>6, <2>1 DEF Replies
<1>7. CASE Dies(c, p, ns)
  <2>1. PICK i \in 1..Len(items[c]), answer \in Answers, last \in Steps, q \in ClientStates :
          /\ Replying(Client(c), items[c][i], answer, last, identity[c], q)
          /\ Loaded(q, MaxMsgs, identity[c], p)
    BY <1>7 DEF Dies
  <2>2. q.requestDb \subseteq requestDb[c]
    BY <1>1, <2>1 DEF Replying
  <2>3. p.status = q.status \/ Agreed(c, p.status)
    BY <1>1, <2>1, <2>2, LoadedGrant
  <2> QED BY <1>5, <2>1, <2>3
<1> QED BY <1>2, <1>3, <1>4, <1>6, <1>7 DEF Shape

\* A step keeps GrantedWasAgreed.
LEMMA GrantStep ==
  ASSUME TypeInv, GrantedWasAgreed, NEW c \in Clients, NEW p, NEW ns, Shape(c, p, ns)
  PROVE  GrantedWasAgreed'
<1> SUFFICES ASSUME NEW d \in Clients, status'[d] \in Accepted
             PROVE  \E m \in DOMAIN msgs' : /\ msgs'[m].from = Peer(d)
                                            /\ msgs'[m].kind \in {"request", "accept"}
                                            /\ msgs'[m].param = ParamOf(status'[d])
  BY DEF GrantedWasAgreed, Peer
<1>1. \A id \in DOMAIN msgs : id \in DOMAIN msgs' /\ msgs'[id] = msgs[id]
  BY SendFacts DEF Shape
<1>2. status'[c] = p.status /\ \A e \in Clients : e # c => status'[e] = status[e]
  BY MoveFacts DEF Shape
<1>3. status'[d] = status[d] \/ Agreed(d, status'[d])
  BY <1>2, GrantFacts
<1>4. Agreed(d, status'[d])
  BY <1>3 DEF GrantedWasAgreed, Agreed
<1> QED BY <1>1, <1>4 DEF Agreed

-----------------------------------------------------------------------------
(* A stored request can be answered.                                       *)

\* Request id is on the screen its, or a notification of ns will put it there.
Visible(id, its, ns) ==
  (\E i \in DOMAIN its : its[i] = id) \/ (\E n \in DOMAIN ns : ns[n] = id)

\* A client with its identity comes to show every request it has stored.
LEMMA ShownFacts ==
  ASSUME TypeInv, NEW c \in Clients, NEW p, NEW ns, Shape(c, p, ns), identity[c],
         \A m \in requestDb[c] : msgs[m].kind = "request" => Visible(m, items[c], notes[c]),
         NEW id \in p.requestDb, msgs[id].kind = "request"
  PROVE  Visible(id, p.items, ns)
<1>1. /\ Client(c) \in ClientStates /\ msgs \in Seq(Message)
      /\ identity[c] \in BOOLEAN /\ items[c] \in Seq(Ids) /\ notes[c] \in Seq(Ids) /\ net[c] \in Seq(Ids)
      /\ Client(c).requestDb = requestDb[c] /\ Client(c).items = items[c]
      /\ \A k \in DOMAIN notes[c] : Known(c, notes[c][k])
  BY TypeFacts
<1>2. CASE Asks(c, p, ns) \/ Edits(c, p, ns)
  BY <1>2 DEF Asks, Edits, SameDbs
<1>3. CASE Receives(c, p, ns)
  <2>1. Head(net[c]) \in Ids
    BY <1>1, <1>3 DEF Receives
  <2> DEFINE ap == Append(notes[c], Head(net[c]))
  <2>2. /\ Len(notes[c]) + 1 \in DOMAIN ap /\ ap[Len(notes[c]) + 1] = Head(net[c])
        /\ \A k \in DOMAIN notes[c] : k \in DOMAIN ap /\ ap[k] = notes[c][k]
    BY <1>1, <2>1
  <2> HIDE DEF ap
  <2>3. p.items = items[c]
    BY <1>3 DEF Receives
  <2>4. CASE p.requestDb = requestDb[c] /\ ns = notes[c]
    BY <2>3, <2>4
  <2>5. CASE p.requestDb = requestDb[c] \union {Head(net[c])} /\ ns = ap
    BY <2>2, <2>3, <2>5 DEF Visible
  <2> QED BY <1>3, <2>4, <2>5 DEF Receives, ap
<1>4. CASE Delivers(c, p, ns)
  <2> DEFINE m == Head(notes[c])
  <2>1. /\ m = notes[c][1] /\ 1 \in DOMAIN notes[c] /\ m \in Ids /\ p = Handled(Client(c), m, identity[c])
        /\ ns = Tail(notes[c])
    BY <1>1, <1>4 DEF Delivers
  <2>2. Known(c, m) /\ m \in DOMAIN msgs
    BY <1>1, <2>1 DEF Known
  <2>3. \A k \in DOMAIN notes[c] : k # 1 => k - 1 \in DOMAIN ns /\ ns[k - 1] = notes[c][k]
    BY <1>1, <2>1
  <2> HIDE DEF m
  <2>4. Handling(Client(c), m, identity[c], p)
    BY <1>1, <2>1, <2>2, HandledFacts
  <2>5. id \in requestDb[c]
    BY <1>1, <2>4 DEF Handling
  <2>8. m \in Ids /\ (Visible(id, items[c], ns) \/ id = m)
    <3>1. Visible(id, items[c], notes[c])
      BY <2>5
    <3>2. m = notes[c][1] /\ m \in Ids
      BY <2>1
    <3> QED BY <2>3, <3>1, <3>2 DEF Visible
  <2>9. msgs[id].kind = "request"
    OBVIOUS
  <2>6. CASE msgs[m].kind = "request"
    <3>1. p.items = Append(items[c], m)
      BY <1>1, <2>4, <2>6 DEF Handling
    <3> DEFINE ap == Append(items[c], m)
    <3>2. /\ Len(items[c]) + 1 \in DOMAIN ap /\ ap[Len(items[c]) + 1] = m
          /\ \A k \in DOMAIN items[c] : k \in DOMAIN ap /\ ap[k] = items[c][k]
      BY <1>1, <2>8
    <3> HIDE DEF ap
    <3>3. p.items = ap
      BY <3>1 DEF ap
    <3> QED BY <2>8, <2>9, <3>2, <3>3 DEF Visible
  <2>7. CASE msgs[m].kind # "request"
    <3>1. p.items = items[c]
      BY <1>1, <2>4, <2>7 DEF Handling
    <3> QED BY <2>7, <2>8, <2>9, <3>1 DEF Visible
  <2> QED BY <2>6, <2>7
<1>5. ASSUME NEW q \in ClientStates, Loaded(q, MaxMsgs, identity[c], p)
      PROVE  Visible(id, p.items, ns)
  <2>1. p.items \in Seq(Ids) /\ p.requestDb \subseteq q.requestDb /\ LoadedItems(q, MaxMsgs, p.items)
    BY <1>5 DEF Loaded, LoadedDbs, ClientStates
  <2>2. id \in q.requestDb /\ id <= MaxMsgs
    BY <1>5, <2>1, AuthorizationAssumption DEF ClientStates, Ids
  <2>3. \E k \in 1..Len(p.items) : p.items[k] = id
    BY <2>1, <2>2 DEF LoadedItems
  <2> QED BY <2>1, <2>3 DEF Visible
<1>6. CASE Reloads(c, p, ns) \/ Dies(c, p, ns)
  BY <1>1, <1>5, <1>6 DEF Reloads, Dies
<1>7. CASE Replies(c, p, ns)
  <2>1. PICK i \in 1..Len(items[c]), answer \in Answers, q \in ClientStates :
          /\ Replying(Client(c), items[c][i], answer, "status", identity[c], q)
          /\ p.requestDb = q.requestDb /\ p.items = RemoveAt(items[c], i)
    BY <1>7 DEF Replies
  <2>2. p.requestDb = requestDb[c] \ {items[c][i]} /\ ns = notes[c]
    BY <1>1, <1>7, <2>1 DEF Replying, Replies
  <2>3. Without(items[c], i, p.items)
    BY <1>1, <2>1, RemoveAtFacts
  <2> QED BY <2>2, <2>3 DEF Visible, Without
<1> QED BY <1>2, <1>3, <1>4, <1>6, <1>7 DEF Shape

\* A step keeps StoredRequestIsShown.
LEMMA ShownStep ==
  ASSUME TypeInv, StoredRequestIsShown, NEW c \in Clients, NEW p, NEW ns, Shape(c, p, ns)
  PROVE  StoredRequestIsShown'
<1>1. \A id \in DOMAIN msgs : id \in DOMAIN msgs' /\ msgs'[id] = msgs[id]
  BY SendFacts DEF Shape
<1>2. /\ requestDb'[c] = p.requestDb /\ items'[c] = p.items /\ notes'[c] = ns
      /\ \A d \in Clients : d # c =>
           requestDb'[d] = requestDb[d] /\ items'[d] = items[d] /\ notes'[d] = notes[d]
  BY MoveFacts DEF Shape
<1>3. \A d \in Clients : identity'[d] => identity[d]
  BY IncidentFacts
<1>4. \A d \in Clients : identity[d] =>
        \A id \in requestDb[d] : msgs[id].kind = "request" => Visible(id, items[d], notes[d])
  BY DEF StoredRequestIsShown, Visible
<1> SUFFICES ASSUME NEW d \in Clients, identity'[d], NEW id \in requestDb'[d], msgs'[id].kind = "request"
             PROVE  Visible(id, items'[d], notes'[d])
  BY DEF StoredRequestIsShown, Visible
<1>5. CASE d = c
  <2>1. id \in p.requestDb /\ Known(c, id)
    BY <1>2, <1>5, HoldFacts DEF HoldsKnown
  <2>2. msgs[id].kind = "request"
    BY <1>1, <2>1 DEF Known
  <2> QED BY <1>2, <1>3, <1>4, <1>5, <2>1, <2>2, ShownFacts
<1>6. CASE d # c
  <2>1. id \in requestDb[d] /\ Known(d, id)
    BY <1>2, <1>6, TypeFacts
  <2>2. msgs[id].kind = "request"
    BY <1>1, <2>1 DEF Known
  <2> QED BY <1>2, <1>3, <1>4, <1>6, <2>1, <2>2
<1> QED BY <1>5, <1>6

-----------------------------------------------------------------------------
(* The order of messages, as long as none is delivered twice and no answer *)
(* is cut short.                                                           *)

Increasing(s) == \A i, j \in DOMAIN s : i < j => s[i] < s[j]

\* What is on the way is younger than everything stored, and in order.
Arrives(r, n) == Increasing(n) /\ \A i \in DOMAIN n, x \in r : x < n[i]

\* The notifications are in order and about stored messages; an answer that is
\* stored has one.
Noted(r, ns) ==
  /\ Increasing(ns)
  /\ \A k \in DOMAIN ns : ns[k] \in r
  /\ \A id \in r : msgs[id].kind # "request" => \E k \in DOMAIN ns : ns[k] = id

\* What is on the screen is stored, there once, and no notification is about it.
Listed(r, ns, its) ==
  \A k \in DOMAIN its :
    /\ its[k] \in r
    /\ \A j \in DOMAIN its : its[j] = its[k] => j = k
    /\ \A j \in DOMAIN ns : ns[j] # its[k]

\* Nothing stored or on the way has been answered.
Unanswered(r, n) ==
  \A m \in DOMAIN msgs : msgs[m].re \notin r /\ \A k \in DOMAIN n : n[k] # msgs[m].re

Orderly(c) ==
  /\ Arrives(requestDb[c], net[c]) /\ Noted(requestDb[c], notes[c])
  /\ Listed(requestDb[c], notes[c], items[c]) /\ Unanswered(requestDb[c], net[c])

OrderInv == troubles = 0 => \A c \in Clients : identity[c] => Orderly(c)

\* After a start the answers are dealt with and the screen shows the rest.
LEMMA LoadedOrder ==
  ASSUME NEW q \in ClientStates, NEW h, h = TRUE, NEW p, Loaded(q, MaxMsgs, h, p)
  PROVE  /\ Noted(p.requestDb, <<>>) /\ Listed(p.requestDb, <<>>, p.items)
         /\ p.requestDb = {id \in q.requestDb : msgs[id].kind = "request"}
<1>1. p.items \in Seq(Ids) /\ LoadedItems(q, MaxMsgs, p.items)
      /\ LoadedDbs(q, MaxMsgs, h, p.requestDb, p.authDb)
  BY DEF Loaded, ClientStates
<1>2. \A id \in q.requestDb : ~(id > MaxMsgs)
  BY AuthorizationAssumption DEF ClientStates, Ids
<1>3. p.requestDb = {id \in q.requestDb : msgs[id].kind = "request"}
  BY <1>1, <1>2 DEF LoadedDbs
<1>4. DOMAIN p.items = 1..Len(p.items) /\ DOMAIN << >> = {}
  BY <1>1
<1>5. Listed(p.requestDb, <<>>, p.items)
  BY <1>1, <1>3, <1>4 DEF Listed, LoadedItems
<1>6. Noted(p.requestDb, <<>>)
  BY <1>3, <1>4 DEF Noted, Increasing
<1> QED BY <1>3, <1>5, <1>6

\* What a step of client c makes of its notifications and its screen.
LEMMA ListFacts ==
  ASSUME TypeInv, NEW c \in Clients, NEW p, NEW ns, Shape(c, p, ns), identity[c], troubles' = 0,
         Orderly(c)
  PROVE  Noted(p.requestDb, ns) /\ Listed(p.requestDb, ns, p.items)
<1>1. /\ Client(c) \in ClientStates /\ msgs \in Seq(Message)
      /\ identity[c] = TRUE /\ items[c] \in Seq(Ids) /\ notes[c] \in Seq(Ids) /\ net[c] \in Seq(Ids)
      /\ Client(c).requestDb = requestDb[c] /\ Client(c).items = items[c]
      /\ \A k \in DOMAIN notes[c] : Known(c, notes[c][k])
      /\ \A k \in DOMAIN items[c] : msgs[items[c][k]].kind = "request"
      /\ requestDb[c] \subseteq Ids
  BY TypeFacts
<1>2. CASE Asks(c, p, ns) \/ Edits(c, p, ns)
  BY <1>2 DEF Asks, Edits, SameDbs, Orderly
<1>3. CASE Receives(c, p, ns)
  <2> DEFINE m == Head(net[c])
             l == Len(notes[c])
             ap == Append(notes[c], m)
  <2>1. m \in Ids /\ m = net[c][1] /\ 1 \in DOMAIN net[c]
    BY <1>1, <1>3 DEF Receives
  <2>2. /\ DOMAIN ap = DOMAIN notes[c] \union {l + 1} /\ ap[l + 1] = m
        /\ \A k \in DOMAIN notes[c] : ap[k] = notes[c][k] /\ k \in Nat /\ k < l + 1
        /\ l + 1 \in Nat
    BY <1>1, <2>1
  <2> HIDE DEF ap, m, l
  <2>3. p.items = items[c]
    BY <1>3 DEF Receives
  <2>4. CASE p.requestDb = requestDb[c] /\ ns = notes[c]
    BY <2>3, <2>4 DEF Orderly
  <2>5. CASE p.requestDb = requestDb[c] \union {m} /\ ns = ap
    <3>1. \A x \in requestDb[c] : x < m /\ x \in Int /\ m \in Int /\ x # m
      BY <1>1, <2>1, AuthorizationAssumption DEF Orderly, Arrives, Ids
    <3>2. \A k \in DOMAIN notes[c] : notes[c][k] \in requestDb[c]
      BY DEF Orderly, Noted
    <3>3. Increasing(ap)
      <4> SUFFICES ASSUME NEW i \in DOMAIN ap, NEW j \in DOMAIN ap, i < j PROVE ap[i] < ap[j]
        BY DEF Increasing
      <4>1. CASE j \in DOMAIN notes[c]
        <5>1. i \in DOMAIN notes[c]
          BY <2>2, <4>1
        <5> QED BY <2>2, <4>1, <5>1 DEF Orderly, Noted, Increasing
      <4>2. CASE j = l + 1
        <5>1. i \in DOMAIN notes[c]
          BY <2>2, <4>2
        <5> QED BY <2>2, <3>1, <3>2, <4>2, <5>1
      <4> QED BY <2>2, <4>1, <4>2
    <3>4. \A k \in DOMAIN ap : ap[k] \in requestDb[c] \union {m}
      BY <2>2, <3>2
    <3>5. \A id \in requestDb[c] \union {m} :
            msgs[id].kind # "request" => \E k \in DOMAIN ap : ap[k] = id
      BY <2>2 DEF Orderly, Noted
    <3>6. Listed(requestDb[c] \union {m}, ap, items[c])
      BY <2>2, <3>1 DEF Orderly, Listed
    <3> QED BY <2>3, <2>5, <3>3, <3>4, <3>5, <3>6 DEF Noted
  <2> QED BY <1>3, <2>4, <2>5 DEF Receives, ap, m
<1>4. CASE Delivers(c, p, ns)
  <2> DEFINE m == Head(notes[c])
             l == Len(items[c])
             ap == Append(items[c], m)
  <2>1. m = notes[c][1] /\ 1 \in DOMAIN notes[c] /\ m \in Ids
    BY <1>1, <1>4 DEF Delivers
  <2>2. p = Handled(Client(c), m, identity[c])
    BY <1>4 DEF Delivers
  <2>3. Known(c, m) /\ m \in DOMAIN msgs
    BY <1>1, <2>1 DEF Known
  <2>4. /\ \A k \in DOMAIN notes[c] : k # 1 => k - 1 \in DOMAIN ns /\ ns[k - 1] = notes[c][k]
        /\ \A k \in DOMAIN ns : k + 1 \in DOMAIN notes[c] /\ k + 1 # 1 /\ ns[k] = notes[c][k + 1] /\ k \in Nat
    BY <1>1, <1>4 DEF Delivers
  <2>5. /\ DOMAIN ap = DOMAIN items[c] \union {l + 1} /\ ap[l + 1] = m
        /\ \A k \in DOMAIN items[c] : ap[k] = items[c][k]
    BY <1>1, <2>1
  <2> HIDE DEF m, l, ap
  <2>6. Handling(Client(c), m, identity[c], p)
    BY <1>1, <2>1, <2>2, <2>3, HandledFacts
  <2>7. /\ \A k \in DOMAIN notes[c] : notes[c][k] \in requestDb[c] /\ notes[c][k] \in Int
        /\ \A k \in DOMAIN notes[c] : k # 1 => notes[c][k] # m
    <3>1. \A k \in DOMAIN notes[c] : notes[c][k] \in requestDb[c] /\ notes[c][k] \in Int
      BY <1>1, AuthorizationAssumption DEF Orderly, Noted, Ids
    <3>2. ASSUME NEW k \in DOMAIN notes[c], k # 1 PROVE notes[c][k] # m
      <4>1. 1 < k
        BY <1>1, <3>2
      <4>2. notes[c][1] < notes[c][k]
        BY <2>1, <4>1 DEF Orderly, Noted, Increasing
      <4> QED BY <2>1, <3>1, <4>2
    <3> QED BY <3>1, <3>2
  <2>8. Increasing(ns) /\ \A k \in DOMAIN ns : ns[k] \in requestDb[c] /\ ns[k] # m
    <3>1. ASSUME NEW i \in DOMAIN ns, NEW j \in DOMAIN ns, i < j PROVE ns[i] < ns[j]
      <4>1. i + 1 < j + 1 /\ i + 1 \in DOMAIN notes[c] /\ j + 1 \in DOMAIN notes[c]
        BY <2>4, <3>1
      <4> QED BY <2>4, <4>1 DEF Orderly, Noted, Increasing
    <3>2. \A k \in DOMAIN ns : ns[k] \in requestDb[c] /\ ns[k] # m
      BY <2>4, <2>7
    <3> QED BY <3>1, <3>2 DEF Increasing
  <2>9. CASE msgs[m].kind = "request"
    <3>1. p.items = ap /\ p.requestDb = requestDb[c]
      BY <1>1, <2>6, <2>9 DEF Handling, ap
    <3>2. \A k \in DOMAIN items[c] : items[c][k] # m
      BY <2>1 DEF Orderly, Listed
    <3>3. Listed(requestDb[c], ns, ap)
      <4> SUFFICES ASSUME NEW k \in DOMAIN ap
                   PROVE  /\ ap[k] \in requestDb[c] /\ \A j \in DOMAIN ap : ap[j] = ap[k] => j = k
                          /\ \A j \in DOMAIN ns : ns[j] # ap[k]
        BY DEF Listed
      <4>1. CASE k = l + 1
        BY <2>1, <2>5, <2>7, <2>8, <3>2, <4>1
      <4>2. CASE k \in DOMAIN items[c]
        BY <2>4, <2>5, <3>2, <4>2 DEF Orderly, Listed
      <4> QED BY <2>5, <4>1, <4>2
    <3>4. \A id \in requestDb[c] : msgs[id].kind # "request" => \E k \in DOMAIN ns : ns[k] = id
      BY <2>1, <2>4, <2>9 DEF Orderly, Noted
    <3> QED BY <2>8, <3>1, <3>3, <3>4 DEF Noted
  <2>10. CASE msgs[m].kind # "request"
    <3>1. p.items = items[c] /\ p.requestDb = requestDb[c] \ {m}
      BY <1>1, <2>6, <2>10 DEF Handling
    <3>2. Listed(requestDb[c] \ {m}, ns, items[c])
      BY <1>1, <2>4, <2>10 DEF Orderly, Listed
    <3>3. \A id \in requestDb[c] \ {m} : msgs[id].kind # "request" => \E k \in DOMAIN ns : ns[k] = id
      BY <2>1, <2>4 DEF Orderly, Noted
    <3> QED BY <2>8, <3>1, <3>2, <3>3 DEF Noted
  <2> QED BY <2>9, <2>10
<1>5. CASE Reloads(c, p, ns)
  BY <1>1, <1>5, LoadedOrder DEF Reloads
<1>6. CASE Replies(c, p, ns)
  <2>1. PICK i \in 1..Len(items[c]), answer \in Answers, q \in ClientStates :
          /\ Replying(Client(c), items[c][i], answer, "status", identity[c], q)
          /\ p.requestDb = q.requestDb /\ p.items = RemoveAt(items[c], i)
    BY <1>6 DEF Replies
  <2>2. p.requestDb = requestDb[c] \ {items[c][i]} /\ ns = notes[c] /\ i \in DOMAIN items[c]
    BY <1>1, <1>6, <2>1 DEF Replying, Replies
  <2>3. Without(items[c], i, p.items) /\ p.items \in Seq(Ids)
    BY <1>1, <2>1, RemoveAtFacts
  <2>4. Noted(p.requestDb, notes[c])
    BY <1>1, <2>2 DEF Orderly, Noted, Listed
  <2>5. ASSUME NEW j \in DOMAIN p.items, NEW k \in DOMAIN p.items, p.items[j] = p.items[k] PROVE j = k
    <3> DEFINE at(n) == IF n < i THEN n ELSE n + 1
    <3>1. /\ at(j) \in DOMAIN items[c] /\ p.items[j] = items[c][at(j)]
          /\ at(k) \in DOMAIN items[c] /\ p.items[k] = items[c][at(k)]
      BY <2>3 DEF Without
    <3>2. at(j) = at(k)
      <4> HIDE DEF at
      <4> QED BY <2>5, <3>1 DEF Orderly, Listed
    <3>3. i \in Nat /\ j \in Nat /\ k \in Nat
      BY <2>3
    <3> QED BY <3>2, <3>3
  <2>6. \A k \in DOMAIN p.items : \E j \in DOMAIN items[c] : j # i /\ p.items[k] = items[c][j]
    BY <2>3 DEF Without
  <2>7. \A k \in DOMAIN p.items : p.items[k] \in p.requestDb /\ \A j \in DOMAIN ns : ns[j] # p.items[k]
    BY <2>2, <2>6 DEF Orderly, Listed
  <2>8. Listed(p.requestDb, ns, p.items)
    BY <2>5, <2>7 DEF Listed
  <2> QED BY <2>2, <2>4, <2>8
<1>7. CASE Dies(c, p, ns)
  BY <1>7, AuthorizationAssumption DEF Dies
<1> QED BY <1>2, <1>3, <1>4, <1>5, <1>6, <1>7 DEF Shape

\* What a step without trouble does to the messages on the way and stored: it
\* leaves them, takes the first, drops some of its own, or sends one; what it
\* answers was stored and no longer is.
Keeps(c, p) == p.requestDb \subseteq requestDb[c]

Route(c, p) ==
  \/ Silent /\ Keeps(c, p)
  \/ Takes(c) /\ p.requestDb \subseteq requestDb[c] \union {Head(net[c])}
  \/ Withdraws(c) /\ Keeps(c, p)
  \/ \E kind, param, re :
       /\ Sends(c, kind, param, re) /\ ProperMessage(c, kind, param, re) /\ Keeps(c, p)
       /\ re = 0 \/ (identity[c] /\ re \in requestDb[c] /\ re \notin p.requestDb)

\* Every step without trouble takes such a route.
LEMMA RouteFacts ==
  ASSUME TypeInv, NEW c \in Clients, NEW p, NEW ns, Shape(c, p, ns), troubles' = 0,
         identity[c] => Orderly(c)
  PROVE  Route(c, p)
<1>1. /\ Client(c) \in ClientStates /\ msgs \in Seq(Message)
      /\ identity[c] \in BOOLEAN /\ items[c] \in Seq(Ids) /\ notes[c] \in Seq(Ids)
      /\ Client(c).requestDb = requestDb[c]
      /\ \A k \in DOMAIN notes[c] : Known(c, notes[c][k])
  BY TypeFacts
<1>2. CASE Asks(c, p, ns)
  BY <1>2 DEF Asks, SameDbs, Route, Keeps, ProperMessage
<1>3. CASE Edits(c, p, ns)
  BY <1>3 DEF Edits, SameDbs, Route, Keeps
<1>4. CASE Receives(c, p, ns)
  <2>1. Takes(c)
    BY <1>4, AuthorizationAssumption DEF Receives
  <2> QED BY <1>4, <2>1 DEF Receives, Route
<1>5. CASE Delivers(c, p, ns)
  <2>1. Head(notes[c]) = notes[c][1] /\ 1 \in DOMAIN notes[c] /\ Head(notes[c]) \in Ids
    BY <1>1, <1>5 DEF Delivers
  <2>2. Handling(Client(c), Head(notes[c]), identity[c], p)
    <3>1. Head(notes[c]) \in DOMAIN msgs /\ p = Handled(Client(c), Head(notes[c]), identity[c])
      BY <1>1, <1>5, <2>1 DEF Delivers, Known
    <3> QED BY <1>1, <2>1, <3>1, HandledFacts
  <2>3. p.requestDb \subseteq requestDb[c]
    BY <1>1, <2>2 DEF Handling
  <2> QED BY <1>5, <2>3 DEF Delivers, Route, Keeps
<1>6. CASE Reloads(c, p, ns)
  BY <1>1, <1>6 DEF Reloads, Loaded, LoadedDbs, Route, Keeps
<1>7. CASE Replies(c, p, ns)
  <2>1. PICK i \in 1..Len(items[c]), answer \in Answers, q \in ClientStates :
          /\ Replying(Client(c), items[c][i], answer, "status", identity[c], q)
          /\ p.requestDb = q.requestDb /\ RepliesTo(c, items[c][i], answer)
    BY <1>7 DEF Replies
  <2>2. p.requestDb \subseteq requestDb[c] /\ (identity[c] => p.requestDb = requestDb[c] \ {items[c][i]})
    BY <1>1, <2>1 DEF Replying
  <2>3. CASE identity[c] /\ answer # "deny"
    <3>1. Sends(c, answer, msgs[items[c][i]].param, items[c][i])
      BY <2>1, <2>3 DEF RepliesTo
    <3>2. ProperMessage(c, answer, msgs[items[c][i]].param, items[c][i])
      BY <2>3, ReplyFacts
    <3>3. items[c][i] \in requestDb[c]
      BY <1>1, <2>3 DEF Orderly, Listed
    <3> QED BY <2>2, <2>3, <3>1, <3>2, <3>3 DEF Route, Keeps
  <2>4. CASE ~(identity[c] /\ answer # "deny")
    BY <2>1, <2>2, <2>4 DEF RepliesTo, Route, Keeps
  <2> QED BY <2>3, <2>4
<1>8. CASE Dies(c, p, ns)
  BY <1>8, AuthorizationAssumption DEF Dies
<1> QED BY <1>2, <1>3, <1>4, <1>5, <1>6, <1>7, <1>8 DEF Shape

\* The order is kept for the client that takes the step.
LEMMA OrderOwn ==
  ASSUME TypeInv, NEW c \in Clients, NEW p, NEW ns, Shape(c, p, ns), identity[c], troubles' = 0,
         Orderly(c)
  PROVE  Orderly(c)'
<1>1. Route(c, p)
  BY RouteFacts
<1>2. /\ requestDb'[c] = p.requestDb /\ items'[c] = p.items /\ notes'[c] = ns
  BY MoveFacts DEF Shape
<1>3. \A id \in DOMAIN msgs : msgs'[id] = msgs[id]
  BY SendFacts DEF Shape
<1>4. \A id \in p.requestDb : id \in DOMAIN msgs
  BY HoldFacts DEF HoldsKnown, Known
<1>5. Noted(p.requestDb, ns) /\ Listed(p.requestDb, ns, p.items)
  BY ListFacts
<1>6. /\ net \in [Clients -> Seq(Ids)] /\ Peer(c) \in Clients /\ Peer(c) # c
      /\ net[c] \in Seq(Ids) /\ requestDb[c] \subseteq Ids /\ msgs \in Seq(Message)
      /\ DOMAIN msgs = 1..Len(msgs) /\ Len(msgs) \in Nat
  BY TypeFacts, PeerFacts DEF TypeInv, TypeOK
<1>7. Noted(requestDb[c], notes[c])' /\ Listed(requestDb[c], notes[c], items[c])'
  BY <1>2, <1>3, <1>4, <1>5 DEF Noted, Listed, Increasing
<1>8. Arrives(requestDb[c], net[c]) /\ Unanswered(requestDb[c], net[c])
  BY DEF Orderly
<1>9. CASE net'[c] = net[c] /\ Keeps(c, p) /\ msgs' = msgs
  BY <1>2, <1>7, <1>8, <1>9 DEF Orderly, Keeps, Arrives, Increasing, Unanswered
<1>10. CASE Silent /\ Keeps(c, p)
  BY <1>9, <1>10 DEF Silent
<1>11. CASE Withdraws(c) /\ Keeps(c, p)
  BY <1>6, <1>9, <1>11 DEF Withdraws
<1>12. CASE Takes(c) /\ p.requestDb \subseteq requestDb[c] \union {Head(net[c])}
  <2>1. net[c] # <<>> /\ net'[c] = Tail(net[c]) /\ msgs' = msgs
    BY <1>6, <1>12 DEF Takes
  <2>2. /\ Head(net[c]) = net[c][1] /\ 1 \in DOMAIN net[c]
        /\ \A k \in DOMAIN net'[c] : /\ k + 1 \in DOMAIN net[c] /\ net'[c][k] = net[c][k + 1]
                                     /\ k \in Nat /\ 1 < k + 1
    BY <1>6, <2>1
  <2>3. Increasing(net'[c])
    <3> SUFFICES ASSUME NEW i \in DOMAIN net'[c], NEW j \in DOMAIN net'[c], i < j
                 PROVE  net'[c][i] < net'[c][j]
      BY DEF Increasing
    <3>1. i + 1 < j + 1 /\ i + 1 \in DOMAIN net[c] /\ j + 1 \in DOMAIN net[c]
      BY <2>2
    <3> QED BY <1>8, <2>2, <3>1 DEF Arrives, Increasing
  <2>4. \A k \in DOMAIN net'[c], x \in p.requestDb : x < net'[c][k]
    <3> SUFFICES ASSUME NEW k \in DOMAIN net'[c], NEW x \in p.requestDb PROVE x < net'[c][k]
      OBVIOUS
    <3>1. CASE x \in requestDb[c]
      BY <1>8, <2>2, <3>1 DEF Arrives
    <3>2. CASE x = Head(net[c])
      BY <1>8, <2>2, <3>2 DEF Arrives, Increasing
    <3> QED BY <1>12, <3>1, <3>2
  <2>5. \A m \in DOMAIN msgs : msgs[m].re \notin p.requestDb /\ \A k \in DOMAIN net'[c] : net'[c][k] # msgs[m].re
    BY <1>8, <1>12, <2>2 DEF Unanswered
  <2> QED BY <1>2, <1>7, <2>1, <2>3, <2>4, <2>5 DEF Orderly, Arrives, Unanswered, Increasing
<1>13. ASSUME NEW kind, NEW param, NEW re, Sends(c, kind, param, re), ProperMessage(c, kind, param, re),
              Keeps(c, p), re = 0 \/ (re \in requestDb[c] /\ re \notin p.requestDb)
       PROVE  Orderly(c)'
  <2>1. net'[c] = net[c]
    BY <1>6, <1>13 DEF Sends
  <2>2. /\ DOMAIN msgs' = 1..(Len(msgs) + 1)
        /\ msgs'[Len(msgs) + 1] = [from |-> c, kind |-> kind, param |-> param, re |-> re]
    BY <1>13, SentFacts
  <2>3. \A m \in DOMAIN msgs' : (m \in DOMAIN msgs /\ msgs'[m].re = msgs[m].re) \/ msgs'[m].re = re
    BY <1>3, <1>6, <2>2
  <2>4. re \notin p.requestDb
    <3>1. 0 \notin Ids
      BY AuthorizationAssumption DEF Ids
    <3> QED BY <1>6, <1>13, <3>1 DEF Keeps
  <2>5. \A k \in DOMAIN net[c] : net[c][k] # re
    <3>1. \A k \in DOMAIN net[c] : net[c][k] \in Int /\ net[c][k] # 0
      BY <1>6, AuthorizationAssumption DEF Ids
    <3>2. re # 0 => re \in Int /\ \A k \in DOMAIN net[c] : re < net[c][k]
      BY <1>6, <1>8, <1>13, AuthorizationAssumption DEF Arrives, Ids
    <3> QED BY <3>1, <3>2
  <2>6. Unanswered(requestDb[c], net[c])'
    BY <1>2, <1>8, <1>13, <2>1, <2>3, <2>4, <2>5 DEF Unanswered, Keeps
  <2>7. Arrives(requestDb[c], net[c])'
    BY <1>2, <1>8, <1>13, <2>1 DEF Arrives, Increasing, Keeps
  <2> QED BY <1>7, <2>6, <2>7 DEF Orderly
<1> QED BY <1>1, <1>10, <1>11, <1>12, <1>13 DEF Route

\* The order is kept for the other client.
LEMMA OrderPeer ==
  ASSUME TypeInv, NEW c \in Clients, NEW p, NEW ns, Shape(c, p, ns), troubles' = 0,
         identity[c] => Orderly(c), NEW d \in Clients, d # c, Orderly(d)
  PROVE  Orderly(d)'
<1>1. Route(c, p)
  BY RouteFacts
<1>2. requestDb'[d] = requestDb[d] /\ items'[d] = items[d] /\ notes'[d] = notes[d]
  BY MoveFacts DEF Shape
<1>3. \A id \in DOMAIN msgs : msgs'[id] = msgs[id]
  BY SendFacts DEF Shape
<1>4. /\ net \in [Clients -> Seq(Ids)] /\ Peer(c) = d /\ Peer(d) = c
      /\ net[d] \in Seq(Ids) /\ requestDb[d] \subseteq Ids /\ msgs \in Seq(Message)
      /\ DOMAIN msgs = 1..Len(msgs) /\ Len(msgs) \in Nat
      /\ \A id \in requestDb[d] : Known(d, id)
      /\ \A k \in DOMAIN net[d] : Known(d, net[d][k])
  BY TypeFacts, PeerFacts DEF TypeInv, TypeOK
<1>5. Noted(requestDb[d], notes[d])' /\ Listed(requestDb[d], notes[d], items[d])'
  BY <1>2, <1>3, <1>4 DEF Orderly, Noted, Listed, Increasing, Known
<1>6. Arrives(requestDb[d], net[d]) /\ Unanswered(requestDb[d], net[d])
  BY DEF Orderly
<1>7. CASE msgs' = msgs /\ net'[d] = net[d]
  BY <1>2, <1>5, <1>6, <1>7 DEF Orderly, Arrives, Increasing, Unanswered
<1>8. CASE Silent \/ Takes(c)
  BY <1>4, <1>7, <1>8 DEF Silent, Takes
<1>9. CASE Withdraws(c)
  <2>1. PICK n \in 0..Len(net[d]) : net' = [net EXCEPT ![d] = SubSeq(@, 1, n)]
    BY <1>4, <1>9 DEF Withdraws
  <2>2. \A k \in DOMAIN net'[d] : k \in DOMAIN net[d] /\ net'[d][k] = net[d][k]
    BY <1>4, <2>1
  <2>3. msgs' = msgs
    BY <1>9 DEF Withdraws
  <2> QED BY <1>2, <1>5, <1>6, <2>2, <2>3 DEF Orderly, Arrives, Increasing, Unanswered
<1>10. ASSUME NEW kind, NEW param, NEW re, Sends(c, kind, param, re), ProperMessage(c, kind, param, re)
       PROVE  Orderly(d)'
  <2> DEFINE new == Len(msgs) + 1
             l == Len(net[d])
  <2>1. /\ DOMAIN msgs' = 1..new /\ new \in Ids
        /\ msgs'[new] = [from |-> c, kind |-> kind, param |-> param, re |-> re]
    BY <1>10, SentFacts
  <2>2. net'[d] = Append(net[d], new)
    BY <1>4, <1>10 DEF Sends
  <2>3. /\ DOMAIN net'[d] = DOMAIN net[d] \union {l + 1} /\ net'[d][l + 1] = new
        /\ \A k \in DOMAIN net[d] : net'[d][k] = net[d][k] /\ k \in Nat /\ k < l + 1
        /\ l + 1 \in Nat
    BY <1>4, <2>1, <2>2
  <2>4. \A m \in DOMAIN msgs' : (m \in DOMAIN msgs /\ msgs'[m].re = msgs[m].re) \/ msgs'[m].re = re
    BY <1>3, <1>4, <2>1
  <2>5. \A id : Known(d, id) => id < new /\ id \in Int /\ id # new /\ id # 0
    BY <1>4 DEF Known
  <2>6. new \in Nat /\ new # 0
    BY <1>4
  <2>7. \A m \in DOMAIN msgs : msgs[m].re # new
    BY <1>4, <2>6 DEF TypeInv, AnswersKnown
  <2>8. re # new /\ ~Known(d, re)
    <3>1. re = 0 \/ (re \in DOMAIN msgs /\ msgs[re].from = d)
      BY <1>4, <1>10 DEF ProperMessage
    <3>2. 0 \notin DOMAIN msgs /\ new \notin DOMAIN msgs
      BY <1>4
    <3> HIDE DEF new
    <3> QED BY <1>4, <2>6, <3>1, <3>2 DEF Known
  <2> HIDE DEF new, l
  <2>9. Increasing(net'[d])
    <3> SUFFICES ASSUME NEW i \in DOMAIN net'[d], NEW j \in DOMAIN net'[d], i < j
                 PROVE  net'[d][i] < net'[d][j]
      BY DEF Increasing
    <3>1. CASE j \in DOMAIN net[d]
      <4>1. i \in DOMAIN net[d]
        BY <2>3, <3>1
      <4> QED BY <1>6, <2>3, <3>1, <4>1 DEF Arrives, Increasing
    <3>2. CASE j = l + 1
      <4>1. i \in DOMAIN net[d]
        BY <2>3, <3>2
      <4> QED BY <1>4, <2>3, <2>5, <3>2, <4>1
    <3> QED BY <2>3, <3>1, <3>2
  <2>10. \A k \in DOMAIN net'[d], x \in requestDb[d] : x < net'[d][k]
    BY <1>4, <1>6, <2>3, <2>5 DEF Arrives
  <2>11. \A m \in DOMAIN msgs' : /\ msgs'[m].re \notin requestDb[d]
                                 /\ \A k \in DOMAIN net'[d] : net'[d][k] # msgs'[m].re
    <3> SUFFICES ASSUME NEW m \in DOMAIN msgs', NEW x, x = msgs'[m].re
                 PROVE  x \notin requestDb[d] /\ \A k \in DOMAIN net'[d] : net'[d][k] # x
      OBVIOUS
    <3>1. CASE m \in DOMAIN msgs /\ msgs'[m].re = msgs[m].re
      BY <1>6, <2>3, <2>7, <3>1 DEF Unanswered
    <3>2. CASE msgs'[m].re = re
      BY <1>4, <2>3, <2>8, <3>2
    <3> QED BY <2>4, <3>1, <3>2
  <2> QED BY <1>2, <1>5, <2>9, <2>10, <2>11 DEF Orderly, Arrives, Unanswered, Increasing
<1> QED BY <1>1, <1>8, <1>9, <1>10 DEF Route

\* A step keeps the order.
LEMMA OrderStep ==
  ASSUME TypeInv, OrderInv, NEW c \in Clients, NEW p, NEW ns, Shape(c, p, ns)
  PROVE  OrderInv'
<1> SUFFICES ASSUME troubles' = 0, NEW d \in Clients, identity'[d] PROVE Orderly(d)'
  BY DEF OrderInv
<1>1. troubles = 0 /\ identity[d]
  BY IncidentFacts
<1>2. Orderly(d) /\ (identity[c] => Orderly(c))
  BY <1>1 DEF OrderInv
<1> QED BY <1>1, <1>2, OrderOwn, OrderPeer

\* Without trouble a request is not answered again.
LEMMA AnsweredStep ==
  ASSUME TypeInv, OrderInv, AnsweredOnce, NEW c \in Clients, NEW p, NEW ns, Shape(c, p, ns)
  PROVE  AnsweredOnce'
<1> SUFFICES ASSUME troubles' = 0
             PROVE  \A m, n \in DOMAIN msgs' : msgs'[m].re # 0 /\ msgs'[m].re = msgs'[n].re => m = n
  BY DEF AnsweredOnce
<1>1. troubles = 0
  BY IncidentFacts
<1>2. (identity[c] => Orderly(c)) /\ \A m, n \in DOMAIN msgs : msgs[m].re # 0 /\ msgs[m].re = msgs[n].re => m = n
  BY <1>1 DEF OrderInv, AnsweredOnce
<1>3. Route(c, p)
  BY <1>2, RouteFacts
<1>4. CASE msgs' = msgs
  BY <1>2, <1>4
<1>5. ASSUME NEW kind, NEW param, NEW re, Sends(c, kind, param, re), ProperMessage(c, kind, param, re),
             re = 0 \/ (identity[c] /\ re \in requestDb[c])
      PROVE  \A m, n \in DOMAIN msgs' : msgs'[m].re # 0 /\ msgs'[m].re = msgs'[n].re => m = n
  <2> DEFINE new == Len(msgs) + 1
  <2>1. /\ DOMAIN msgs' = 1..new
        /\ msgs'[new] = [from |-> c, kind |-> kind, param |-> param, re |-> re]
    BY <1>5, SentFacts
  <2>2. DOMAIN msgs = 1..Len(msgs) /\ Len(msgs) \in Nat /\ \A id \in DOMAIN msgs : msgs'[id] = msgs[id]
    BY TypeFacts, SendFacts DEF Shape
  <2>3. \A m \in DOMAIN msgs' : m \in DOMAIN msgs \/ m = new
    BY <2>1, <2>2
  <2>4. re # 0 => \A m \in DOMAIN msgs : msgs[m].re # re
    BY <1>2, <1>5 DEF Orderly, Unanswered
  <2>5. msgs'[new].re = re
    BY <2>1
  <2> HIDE DEF new
  <2> QED BY <1>2, <2>2, <2>3, <2>4, <2>5
<1> QED BY <1>3, <1>4, <1>5 DEF Route, Silent, Takes, Withdraws

-----------------------------------------------------------------------------
(* The two sides agree.                                                    *)

\* What client c has still to deal with: stored, or on the way to it.
Pending(c) == requestDb[c] \union Range(net[c])

\* At most c ever asked, with a box checked, and nothing went wrong.
OneAsks(c) ==
  Peer(c) \notin Askers /\ "neither" \notin Asked /\ edits = 0 /\ troubles = 0

\* The last of the messages P, of those in M, accepts the boxes of acceptance t.
LastAccepts(M, P, t) ==
  \E m \in P : /\ \A n \in P : n <= m
               /\ M[m].kind = "accept" /\ M[m].param = ParamOf(t)

\* The asker's status s and the other side's status t agree, or will: the other
\* side has something to deal with (Q), or the last message that the asker has
\* to deal with (P) brings it to t.
Settled(M, s, t, P, Q) ==
  s # "none" /\ t \in Accepted => Q # {} \/ (P = {} /\ s = t) \/ LastAccepts(M, P, t)

AgreeInv ==
  \A c \in Clients : OneAsks(c) =>
    /\ status[c] # "i_block"
    /\ Settled(msgs, status[c], status[Peer(c)], Pending(c), Pending(Peer(c)))

IdentityStays == edits = 0 => \A c \in Clients : identity[c]

\* When only c asks, its messages are requests and the other side's are answers.
LEMMA OneAskFacts ==
  ASSUME TypeInv, NEW c \in Clients, OneAsks(c), NEW m \in DOMAIN msgs
  PROVE  /\ msgs[m].kind = "request" <=> msgs[m].from = c
         /\ msgs[m].param # "neither"
<1>1. \A n \in DOMAIN msgs : msgs[n].kind = "request" => msgs[n].from \in Askers /\ msgs[n].param \in Asked
  BY DEF Askers, Asked
<1>2. \A n \in DOMAIN msgs : msgs[n].from = c \/ msgs[n].from = Peer(c)
  BY TypeFacts, MessageFacts, PeerFacts
<1>3. \A n \in DOMAIN msgs : msgs[n].kind = "request" => msgs[n].from = c /\ msgs[n].param # "neither"
  BY <1>1, <1>2 DEF OneAsks
<1>4. msgs[m].kind # "request" =>
        /\ msgs[m].re \in DOMAIN msgs /\ msgs[msgs[m].re].kind = "request"
        /\ msgs[msgs[m].re].from = Peer(msgs[m].from) /\ msgs[m].param = msgs[msgs[m].re].param
  BY DEF TypeInv, AnswersKnown
<1>5. msgs[m].kind # "request" => msgs[m].from # c /\ msgs[m].param # "neither"
  BY <1>3, <1>4, PeerFacts
<1> QED BY <1>3, <1>5

\* If only c asks after a step, only c asked before it.
LEMMA OneAskBefore ==
  ASSUME TypeInv, NEW c \in Clients, NEW a \in Clients, NEW p, NEW ns, Shape(a, p, ns), OneAsks(c)'
  PROVE  /\ OneAsks(c) /\ edits' = 0 /\ troubles' = 0
         /\ \A m \in DOMAIN msgs' : msgs'[m].kind = "request" => msgs'[m].from # Peer(c)
<1>1. \A id \in DOMAIN msgs : id \in DOMAIN msgs' /\ msgs'[id] = msgs[id]
  BY SendFacts DEF Shape
<1>2. edits' = 0 /\ troubles' = 0 /\ edits = 0 /\ troubles = 0
  BY IncidentFacts DEF OneAsks
<1>3. Peer(c) \notin Askers' /\ "neither" \notin Asked'
  BY DEF OneAsks, Peer
<1>4. Askers \subseteq Askers' /\ Asked \subseteq Asked'
  BY <1>1 DEF Askers, Asked
<1>5. \A m \in DOMAIN msgs' : msgs'[m].kind = "request" => msgs'[m].from \in Askers'
  BY DEF Askers
<1> QED BY <1>2, <1>3, <1>4, <1>5 DEF OneAsks

\* Storing the first message on the way leaves the same to be dealt with.
LEMMA TakenPending ==
  ASSUME TypeInv, NEW c \in Clients, Takes(c)
  PROVE  /\ (requestDb[c] \union {Head(net[c])}) \union Range(net'[c]) = Pending(c)
         /\ \A d \in Clients : d # c => net'[d] = net[d]
<1>1. net \in [Clients -> Seq(Ids)] /\ net[c] \in Seq(Ids)
  BY TypeFacts DEF TypeInv, TypeOK
<1>2. net[c] # <<>> /\ net' = [net EXCEPT ![c] = Tail(@)]
  BY DEF Takes
<1>3. net'[c] = Tail(net[c]) /\ \A d \in Clients : d # c => net'[d] = net[d]
  BY <1>1, <1>2
<1>4. /\ Head(net[c]) = net[c][1] /\ 1 \in DOMAIN net[c]
      /\ \A k \in DOMAIN net'[c] : k + 1 \in DOMAIN net[c] /\ net'[c][k] = net[c][k + 1]
      /\ \A k \in DOMAIN net[c] : k # 1 => k - 1 \in DOMAIN net'[c] /\ net'[c][k - 1] = net[c][k]
  BY <1>1, <1>2, <1>3
<1>5. Range(net[c]) = {Head(net[c])} \union Range(net'[c])
  BY <1>4 DEF Range
<1> QED BY <1>3, <1>5 DEF Pending

\* A message that is sent is pending for the other side, and the last one there.
LEMMA SentPending ==
  ASSUME TypeInv, NEW c \in Clients, NEW kind, NEW param, NEW re,
         Sends(c, kind, param, re), ProperMessage(c, kind, param, re)
  PROVE  LET new == Len(msgs) + 1 IN
         /\ requestDb[Peer(c)] \union Range(net'[Peer(c)]) = Pending(Peer(c)) \union {new}
         /\ \A n \in Pending(Peer(c)) : n <= new
         /\ net'[c] = net[c] /\ new \in Nat
<1> DEFINE new == Len(msgs) + 1
           d == Peer(c)
<1>1. d \in Clients /\ d # c
  BY PeerFacts
<1>2. /\ net \in [Clients -> Seq(Ids)] /\ net[d] \in Seq(Ids) /\ Len(msgs) \in Nat
      /\ DOMAIN msgs = 1..Len(msgs)
      /\ \A id \in requestDb[d] : Known(d, id)
      /\ \A k \in DOMAIN net[d] : Known(d, net[d][k])
  BY <1>1, TypeFacts DEF TypeInv, TypeOK
<1>3. net' = [net EXCEPT ![d] = Append(@, new)] /\ new \in Ids
  BY SentFacts DEF Sends
<1>4. net'[d] = Append(net[d], new) /\ net'[c] = net[c]
  BY <1>1, <1>2, <1>3
<1>5. /\ DOMAIN net'[d] = DOMAIN net[d] \union {Len(net[d]) + 1} /\ net'[d][Len(net[d]) + 1] = new
      /\ \A k \in DOMAIN net[d] : net'[d][k] = net[d][k]
  BY <1>2, <1>3, <1>4
<1>6. Range(net'[d]) = Range(net[d]) \union {new}
  BY <1>5 DEF Range
<1>7. \A n \in Pending(d) : n \in DOMAIN msgs
  BY <1>2 DEF Pending, Range, Known
<1>8. \A n \in DOMAIN msgs : n <= new
  BY <1>2
<1> QED BY <1>2, <1>4, <1>6, <1>7, <1>8 DEF Pending

\* A step of the side that asks.
LEMMA AgreeOwn ==
  ASSUME TypeInv, NEW c \in Clients, NEW p, NEW ns, Shape(c, p, ns), OneAsks(c), OneAsks(c)',
         Orderly(c), identity[c], status[c] # "i_block",
         Settled(msgs, status[c], status[Peer(c)], Pending(c), Pending(Peer(c)))
  PROVE  /\ p.status # "i_block"
         /\ Settled(msgs', p.status, status[Peer(c)], p.requestDb \union Range(net'[c]),
                    requestDb[Peer(c)] \union Range(net'[Peer(c)]))
<1> DEFINE d == Peer(c)
           t == status[d]
           P == p.requestDb \union Range(net'[c])
           Q == requestDb[d] \union Range(net'[d])
<1>1. /\ Client(c) \in ClientStates /\ msgs \in Seq(Message) /\ status[c] \in Status
      /\ identity[c] = TRUE /\ items[c] \in Seq(Ids) /\ notes[c] \in Seq(Ids) /\ net[c] \in Seq(Ids)
      /\ Client(c).status = status[c] /\ Client(c).requestDb = requestDb[c] /\ Client(c).items = items[c]
      /\ requestDb[c] \subseteq Ids
      /\ \A id \in requestDb[c] : Known(c, id)
      /\ \A k \in DOMAIN net[c] : Known(c, net[c][k])
      /\ \A k \in DOMAIN notes[c] : Known(c, notes[c][k])
      /\ \A k \in DOMAIN items[c] : Known(c, items[c][k]) /\ msgs[items[c][k]].kind = "request"
  BY TypeFacts
<1>2. \A id : Known(c, id) => /\ id \in DOMAIN msgs /\ msgs[id].kind # "request"
                              /\ msgs[id].kind \in {"accept", "block"} /\ msgs[id].param # "neither"
                              /\ msgs[id].param \in {"chat", "mail", "both", "neither"}
  BY <1>1, OneAskFacts, MessageFacts, PeerFacts DEF Known
<1>3. d \in Clients /\ d # c /\ edits' = 0 /\ troubles' = 0
  BY PeerFacts, OneAskBefore
<1>4. \A x \in Pending(c) : Known(c, x) /\ x \in Nat /\ x <= MaxMsgs
  <2>1. \A x \in Pending(c) : Known(c, x)
    BY <1>1 DEF Pending, Range
  <2>2. DOMAIN msgs \subseteq Ids
    BY TypeFacts
  <2> QED BY <2>1, <2>2, AuthorizationAssumption DEF Known, Ids
<1>5. CASE Asks(c, p, ns)
  <2>1. PICK param \in Params : Sends(c, "request", param, 0)
    BY <1>5 DEF Asks
  <2>2. ProperMessage(c, "request", param, 0)
    BY DEF ProperMessage
  <2>3. Len(msgs) + 1 \in Q
    BY <2>1, <2>2, SentPending
  <2>4. p.status # "i_block"
    BY <1>5 DEF Asks
  <2> QED BY <2>3, <2>4 DEF Settled
<1>6. CASE Receives(c, p, ns)
  <2>1. Takes(c) /\ p.requestDb = requestDb[c] \union {Head(net[c])} /\ p.status = status[c]
    BY <1>1, <1>3, <1>6, AuthorizationAssumption DEF Receives
  <2>2. P = Pending(c) /\ Q = Pending(d) /\ msgs' = msgs
    BY <1>3, <2>1, TakenPending DEF Takes, Pending
  <2> QED BY <2>1, <2>2
<1>7. CASE Delivers(c, p, ns)
  <2> DEFINE m == Head(notes[c])
  <2>1. m = notes[c][1] /\ 1 \in DOMAIN notes[c] /\ m \in Ids
    BY <1>1, <1>7 DEF Delivers
  <2>2. p = Handled(Client(c), m, identity[c]) /\ Silent
    BY <1>7 DEF Delivers
  <2>3. Known(c, m) /\ m \in requestDb[c]
    BY <1>1, <2>1 DEF Orderly, Noted
  <2>4. /\ m \in DOMAIN msgs /\ msgs[m].kind # "request" /\ msgs[m].param # "neither"
        /\ msgs[m].kind \in {"accept", "block", "deny"}
        /\ msgs[m].param \in {"chat", "mail", "both", "neither"}
    BY <1>2, <2>3
  <2>5. \A x \in Pending(c) : m <= x
    <3>1. \A k \in DOMAIN notes[c] : m <= notes[c][k]
      <4> SUFFICES ASSUME NEW k \in DOMAIN notes[c] PROVE m <= notes[c][k]
        OBVIOUS
      <4>1. k = 1 \/ 1 < k
        BY <1>1
      <4>2. m \in Nat /\ notes[c][k] \in Nat
        BY <1>1, <2>1, AuthorizationAssumption DEF Ids
      <4>3. 1 < k => notes[c][1] < notes[c][k]
        BY <2>1 DEF Orderly, Noted, Increasing
      <4> QED BY <2>1, <4>1, <4>2, <4>3
    <3>2. \A x \in requestDb[c] : \E k \in DOMAIN notes[c] : notes[c][k] = x
      BY <1>1, <1>2 DEF Orderly, Noted
    <3>3. \A k \in DOMAIN net[c] : m < net[c][k] /\ net[c][k] \in Nat /\ m \in Nat
      BY <1>1, <2>1, <2>3, AuthorizationAssumption DEF Orderly, Arrives, Ids
    <3> QED BY <3>1, <3>2, <3>3 DEF Pending, Range
  <2> HIDE DEF m
  <2>6. Handling(Client(c), m, identity[c], p)
    BY <1>1, <2>1, <2>2, <2>4, HandledFacts
  <2>7. /\ p.requestDb = requestDb[c] \ {m}
        /\ p.status = TheirStatus(status[c], msgs[m].kind, msgs[m].param)
    BY <1>1, <2>4, <2>6 DEF Handling
  <2>8. Answering(status[c], msgs[m].kind, msgs[m].param, p.status)
    BY <1>1, <2>4, <2>7, StatusFacts
  <2>9. p.status # "i_block" /\ (p.status = "none" <=> status[c] = "none")
    BY <2>7, <2>8 DEF Answering
  <2>10. m \notin Range(net[c])
    <3>1. \A k \in DOMAIN net[c] : m < net[c][k] /\ net[c][k] \in Nat /\ m \in Nat
      BY <1>1, <2>1, <2>3, AuthorizationAssumption DEF Orderly, Arrives, Ids
    <3> QED BY <3>1 DEF Range
  <2>11. P = Pending(c) \ {m} /\ Q = Pending(d) /\ msgs' = msgs /\ m \in Pending(c)
    BY <2>2, <2>3, <2>7, <2>10 DEF Silent, Pending
  <2>12. ASSUME p.status # "none", t \in Accepted, Q = {}
         PROVE  (P = {} /\ p.status = t) \/ LastAccepts(msgs, P, t)
    <3>1. LastAccepts(msgs, Pending(c), t)
      BY <2>9, <2>11, <2>12 DEF Settled
    <3>2. PICK n \in Pending(c) : /\ \A x \in Pending(c) : x <= n
                                  /\ msgs[n].kind = "accept" /\ msgs[n].param = ParamOf(t)
      BY <3>1 DEF LastAccepts
    <3>3. CASE n = m
      <4>1. \A x \in Pending(c) : x = m
        BY <1>4, <2>5, <3>2, <3>3
      <4>2. P = {}
        BY <2>11, <4>1
      <4>3. p.status \in Accepted /\ ParamOf(p.status) = ParamOf(t)
        BY <2>4, <2>8, <2>9, <2>12, <3>2, <3>3 DEF Answering
      <4> QED BY <2>12, <4>2, <4>3, ParamDecides
    <3>4. CASE n # m
      BY <2>11, <3>2, <3>4 DEF LastAccepts
    <3> QED BY <3>3, <3>4
  <2> HIDE DEF P, Q, t
  <2>13. Settled(msgs, p.status, t, P, Q)
    BY <2>12 DEF Settled
  <2> QED BY <2>9, <2>11, <2>13 DEF P, Q, t
<1>8. CASE Reloads(c, p, ns)
  <2>1. Loaded(Client(c), MaxMsgs, identity[c], p) /\ Silent
    BY <1>8 DEF Reloads
  <2>2. p.requestDb = {id \in requestDb[c] : msgs[id].kind = "request"}
    BY <1>1, <2>1, LoadedOrder
  <2>3. p.requestDb = {}
    BY <1>1, <1>2, <2>2
  <2>4. P = Range(net[c]) /\ Q = Pending(d) /\ msgs' = msgs
    BY <2>1, <2>3 DEF Silent, Pending
  <2>5. LoadedStatus(Client(c), MaxMsgs, p.status)
    BY <2>1 DEF Loaded
  <2>6. p.status # "i_block" /\ (p.status = "none" <=> status[c] = "none")
    BY <1>1, <2>5 DEF LoadedStatus
  <2>7. ASSUME p.status # "none", t \in Accepted, Q = {}
        PROVE  (P = {} /\ p.status = t) \/ LastAccepts(msgs, P, t)
    <3>1. CASE Pending(c) = {} /\ status[c] = t
      <4>1. requestDb[c] = {} /\ P = {}
        BY <2>4, <3>1 DEF Pending
      <4>2. p.status = status[c]
        BY <1>1, <2>5, <4>1 DEF LoadedStatus
      <4> QED BY <3>1, <4>1, <4>2
    <3>2. CASE LastAccepts(msgs, Pending(c), t)
      <4>1. PICK n \in Pending(c) : /\ \A x \in Pending(c) : x <= n
                                    /\ msgs[n].kind = "accept" /\ msgs[n].param = ParamOf(t)
        BY <3>2 DEF LastAccepts
      <4>2. CASE n \in Range(net[c])
        BY <2>4, <4>1, <4>2 DEF LastAccepts, Pending
      <4>3. CASE n \in requestDb[c]
        <5>1. \A k \in DOMAIN net[c] : n < net[c][k] /\ net[c][k] \in Pending(c)
          BY <4>3 DEF Orderly, Arrives, Pending, Range
        <5>2. \A k \in DOMAIN net[c] : FALSE
          BY <1>4, <4>1, <5>1
        <5>3. P = {}
          BY <2>4, <5>2 DEF Range
        <5>4. p.status \in Accepted /\ ParamOf(p.status) = msgs[n].param
          <6>1. n \in Client(c).requestDb /\ Client(c).status # "none" /\ n <= MaxMsgs
                /\ msgs[n].kind = "accept" /\ msgs[n].param # "neither"
            BY <1>1, <1>2, <1>4, <2>6, <2>7, <4>1, <4>3
          <6>2. \A k \in Client(c).requestDb : k <= MaxMsgs /\ msgs[k].kind # "request" => k <= n
            BY <1>1, <4>1 DEF Pending
          <6> QED BY <2>5, <6>1, <6>2 DEF LoadedStatus
        <5> QED BY <2>7, <4>1, <5>3, <5>4, ParamDecides
      <4> QED BY <4>2, <4>3 DEF Pending
    <3> QED BY <2>4, <2>6, <2>7, <3>1, <3>2 DEF Settled
  <2> HIDE DEF P, Q, t
  <2>8. Settled(msgs, p.status, t, P, Q)
    BY <2>7 DEF Settled
  <2> QED BY <2>4, <2>6, <2>8 DEF P, Q, t
<1>9. CASE Replies(c, p, ns)
  <2>1. PICK i \in 1..Len(items[c]) : TRUE
    BY <1>9 DEF Replies
  <2>2. i \in DOMAIN items[c]
    BY <1>1
  <2> QED BY <1>1, <1>2, <2>2
<1>10. CASE Dies(c, p, ns) \/ Edits(c, p, ns)
  BY <1>3, <1>10, AuthorizationAssumption DEF Dies, Edits
<1> QED BY <1>5, <1>6, <1>7, <1>8, <1>9, <1>10 DEF Shape

\* A step of the other side.
LEMMA AgreePeer ==
  ASSUME TypeInv, NEW c \in Clients, NEW d \in Clients, d = Peer(c), NEW p, NEW ns, Shape(d, p, ns),
         OneAsks(c), OneAsks(c)', Orderly(d), identity[d],
         Settled(msgs, status[c], status[d], Pending(c), Pending(d))
  PROVE  Settled(msgs', status[c], p.status, requestDb[c] \union Range(net'[c]),
                 p.requestDb \union Range(net'[d]))
<1> DEFINE t == p.status
           P == requestDb[c] \union Range(net'[c])
           Q == p.requestDb \union Range(net'[d])
<1>1. /\ Client(d) \in ClientStates /\ msgs \in Seq(Message) /\ status[d] \in Status
      /\ identity[d] = TRUE /\ items[d] \in Seq(Ids) /\ notes[d] \in Seq(Ids) /\ net[d] \in Seq(Ids)
      /\ Client(d).status = status[d] /\ Client(d).requestDb = requestDb[d] /\ Client(d).items = items[d]
      /\ \A id \in requestDb[d] : Known(d, id)
      /\ \A k \in DOMAIN notes[d] : Known(d, notes[d][k])
      /\ \A k \in DOMAIN items[d] : Known(d, items[d][k]) /\ msgs[items[d][k]].kind = "request"
  BY TypeFacts
<1>2. Peer(d) = c /\ c # d /\ edits' = 0 /\ troubles' = 0
      /\ \A m \in DOMAIN msgs' : msgs'[m].kind = "request" => msgs'[m].from # d
  BY PeerFacts, OneAskBefore
<1>3. \A id : Known(d, id) => /\ id \in DOMAIN msgs /\ msgs[id].kind = "request"
                              /\ msgs[id].param # "neither"
  BY <1>1, <1>2, OneAskFacts DEF Known
<1>4. CASE Asks(d, p, ns)
  <2>1. PICK param \in Params : Sends(d, "request", param, 0)
    BY <1>4 DEF Asks
  <2>2. ProperMessage(d, "request", param, 0)
    BY DEF ProperMessage
  <2>3. /\ DOMAIN msgs' = 1..(Len(msgs) + 1) /\ Len(msgs) \in Nat
        /\ msgs'[Len(msgs) + 1] = [from |-> d, kind |-> "request", param |-> param, re |-> 0]
    BY <2>1, <2>2, TypeFacts, SentFacts
  <2> QED BY <1>2, <2>3
<1>5. CASE Receives(d, p, ns)
  <2>1. Takes(d) /\ t = status[d]
    BY <1>2, <1>5, AuthorizationAssumption DEF Receives
  <2>2. "i_block" \notin Accepted
    BY DEF Accepted
  <2>3. CASE t \in Accepted
    <3>1. p.requestDb = requestDb[d] \union {Head(net[d])}
      BY <1>1, <1>5, <2>1, <2>2, <2>3 DEF Receives
    <3>2. Q = Pending(d) /\ P = Pending(c) /\ msgs' = msgs
      BY <1>2, <2>1, <3>1, TakenPending DEF Takes, Pending
    <3> QED BY <2>1, <3>2
  <2> QED BY <2>3 DEF Settled
<1>6. CASE Silent /\ p.requestDb = requestDb[d] /\ p.status = status[d]
  <2>1. Q = Pending(d) /\ P = Pending(c) /\ msgs' = msgs
    BY <1>6 DEF Silent, Pending
  <2> QED BY <1>6, <2>1
<1>7. CASE Delivers(d, p, ns)
  <2> DEFINE m == Head(notes[d])
  <2>1. m = notes[d][1] /\ 1 \in DOMAIN notes[d] /\ m \in Ids
    BY <1>1, <1>7 DEF Delivers
  <2>2. p = Handled(Client(d), m, identity[d]) /\ Silent
    BY <1>7 DEF Delivers
  <2>3. m \in DOMAIN msgs /\ msgs[m].kind = "request"
    BY <1>1, <1>3, <2>1
  <2> HIDE DEF m
  <2>4. Handling(Client(d), m, identity[d], p)
    BY <1>1, <2>1, <2>2, <2>3, HandledFacts
  <2> QED BY <1>1, <1>6, <2>2, <2>3, <2>4 DEF Handling
<1>8. CASE Reloads(d, p, ns)
  <2>1. Loaded(Client(d), MaxMsgs, identity[d], p) /\ Silent
    BY <1>8 DEF Reloads
  <2>2. p.requestDb = {id \in requestDb[d] : msgs[id].kind = "request"}
    <3>1. p.requestDb = {id \in Client(d).requestDb : msgs[id].kind = "request"}
      BY <1>1, <2>1, LoadedOrder
    <3> QED BY <1>1, <3>1
  <2>3. p.requestDb = requestDb[d]
    BY <1>1, <1>3, <2>2
  <2>4. LoadedStatus(Client(d), MaxMsgs, p.status)
    BY <2>1 DEF Loaded
  <2>5. p.status = status[d]
    BY <1>1, <1>3, <2>4 DEF LoadedStatus
  <2> QED BY <1>6, <2>1, <2>3, <2>5
<1>9. CASE Replies(d, p, ns)
  <2>1. PICK i \in 1..Len(items[d]), answer \in Answers, q \in ClientStates :
          /\ Replying(Client(d), items[d][i], answer, "status", identity[d], q)
          /\ p.status = q.status /\ RepliesTo(d, items[d][i], answer)
    BY <1>9 DEF Replies
  <2> DEFINE id == items[d][i]
             new == Len(msgs) + 1
  <2>2. msgs[id].param # "neither" /\ (answer # "deny" => ProperMessage(d, answer, msgs[id].param, id))
    BY <1>1, <1>3, ReplyFacts
  <2>3. CASE t \in Accepted
    <3>1. answer = "accept"
      BY <2>1, <2>3 DEF Replying
    <3>2. ParamOf(t) = msgs[id].param
      <4>1. "none" \notin Accepted
        BY DEF Accepted
      <4> QED BY <2>1, <2>2, <2>3, <3>1, <4>1 DEF Replying
    <3>3. Sends(d, "accept", msgs[id].param, id) /\ ProperMessage(d, "accept", msgs[id].param, id)
      BY <1>1, <2>1, <2>2, <3>1 DEF RepliesTo
    <3>4. msgs'[new] = [from |-> d, kind |-> "accept", param |-> msgs[id].param, re |-> id]
      BY <3>3, SentFacts
    <3>5. P = Pending(c) \union {new} /\ (\A n \in Pending(c) : n <= new) /\ new \in Nat
      BY <1>2, <3>3, SentPending
    <3> HIDE DEF new, P
    <3>6. new \in P /\ \A n \in P : n <= new
      BY <3>5
    <3>7. msgs'[new].kind = "accept" /\ msgs'[new].param = ParamOf(t)
      BY <3>2, <3>4
    <3>8. LastAccepts(msgs', P, t)
      BY <3>6, <3>7 DEF LastAccepts
    <3> QED BY <3>8 DEF Settled, P
  <2> QED BY <2>3 DEF Settled
<1>10. CASE Dies(d, p, ns) \/ Edits(d, p, ns)
  BY <1>2, <1>10, AuthorizationAssumption DEF Dies, Edits
<1> QED BY <1>4, <1>5, <1>7, <1>8, <1>9, <1>10 DEF Shape

\* A step keeps the agreement.
LEMMA AgreeStep ==
  ASSUME TypeInv, OrderInv, IdentityStays, AgreeInv,
         NEW a \in Clients, NEW p, NEW ns, Shape(a, p, ns)
  PROVE  AgreeInv'
<1> SUFFICES ASSUME NEW c \in Clients, OneAsks(c)'
             PROVE  /\ status'[c] # "i_block"
                    /\ Settled(msgs', status'[c], status'[Peer(c)],
                               requestDb'[c] \union Range(net'[c]),
                               requestDb'[Peer(c)] \union Range(net'[Peer(c)]))
  BY DEF AgreeInv, Pending, Peer, Settled, LastAccepts
<1> DEFINE d == Peer(c)
<1>1. d \in Clients /\ d # c /\ Peer(d) = c /\ (a = c \/ a = d)
  BY PeerFacts
<1>2. OneAsks(c) /\ edits = 0 /\ troubles = 0
  BY OneAskBefore DEF OneAsks
<1>3. identity[c] /\ identity[d] /\ Orderly(c) /\ Orderly(d)
  BY <1>1, <1>2 DEF IdentityStays, OrderInv
<1>4. status[c] # "i_block" /\ Settled(msgs, status[c], status[d], Pending(c), Pending(d))
  BY <1>2 DEF AgreeInv
<1>5. /\ status'[a] = p.status /\ requestDb'[a] = p.requestDb
      /\ \A e \in Clients : e # a => status'[e] = status[e] /\ requestDb'[e] = requestDb[e]
  BY MoveFacts DEF Shape
<1>6. CASE a = c
  <2>1. /\ p.status # "i_block"
        /\ Settled(msgs', p.status, status[d], p.requestDb \union Range(net'[c]),
                   requestDb[d] \union Range(net'[d]))
    BY <1>2, <1>3, <1>4, <1>6, AgreeOwn
  <2> QED BY <1>1, <1>5, <1>6, <2>1
<1>7. CASE a = d
  <2> HIDE DEF d
  <2>1. Settled(msgs', status[c], p.status, requestDb[c] \union Range(net'[c]),
                p.requestDb \union Range(net'[d]))
    BY <1>1, <1>2, <1>3, <1>4, <1>7, AgreePeer DEF d
  <2> QED BY <1>1, <1>4, <1>5, <1>7, <2>1 DEF d
<1> QED BY <1>1, <1>6, <1>7

-----------------------------------------------------------------------------
(* The theorems.                                                           *)

\* The inductive invariant.
AuthInv == /\ TypeInv /\ GrantedWasAgreed /\ StoredRequestIsShown
           /\ OrderInv /\ AnsweredOnce /\ IdentityStays /\ AgreeInv

\* It holds at the start.
LEMMA AuthInit == ASSUME Init PROVE AuthInv
<1>1. /\ \A c \in Clients : /\ status[c] \in {"none", "unauthorized"} /\ requestDb[c] = {}
                            /\ net[c] = <<>> /\ notes[c] = <<>> /\ items[c] = <<>> /\ identity[c]
      /\ msgs = <<>> /\ DOMAIN << >> = {}
  BY DEF Init
<1>2. /\ "none" \notin Accepted /\ "unauthorized" \notin Accepted
  BY DEF Accepted
<1>3. TypeInv
  BY TypeInit
<1>4. GrantedWasAgreed
  BY <1>1, <1>2 DEF GrantedWasAgreed
<1>5. StoredRequestIsShown
  BY <1>1 DEF StoredRequestIsShown
<1>6. OrderInv
  <2> SUFFICES ASSUME NEW c \in Clients PROVE Orderly(c)
    BY DEF OrderInv
  <2> QED BY <1>1 DEF Orderly, Arrives, Noted, Listed, Unanswered, Increasing
<1>7. AnsweredOnce
  BY <1>1 DEF AnsweredOnce
<1>8. IdentityStays
  BY <1>1 DEF IdentityStays
<1>9. AgreeInv
  <2> SUFFICES ASSUME NEW c \in Clients
               PROVE  /\ status[c] # "i_block"
                      /\ Settled(msgs, status[c], status[Peer(c)], Pending(c), Pending(Peer(c)))
    BY DEF AgreeInv
  <2>1. status[Peer(c)] \notin Accepted
    BY <1>1, <1>2, PeerFacts
  <2> QED BY <1>1, <2>1 DEF Settled
<1> QED BY <1>3, <1>4, <1>5, <1>6, <1>7, <1>8, <1>9 DEF AuthInv

\* Every step keeps it.
LEMMA AuthStep == ASSUME AuthInv, [Next]_vars PROVE AuthInv'
<1>1. CASE Next
  <2>0. PICK c \in Clients : \E p, ns : Shape(c, p, ns)
    BY <1>1, ShapeStep DEF AuthInv
  <2>1. PICK p, ns : Shape(c, p, ns)
    BY <2>0
  <2>2. TypeInv' /\ GrantedWasAgreed' /\ StoredRequestIsShown'
    BY <2>1, TypeStep, GrantStep, ShownStep DEF AuthInv
  <2>3. OrderInv' /\ AnsweredOnce' /\ AgreeInv'
    BY <2>1, OrderStep, AnsweredStep, AgreeStep DEF AuthInv
  <2>4. IdentityStays'
    <3>1. edits' = 0 => edits = 0 /\ identity' = identity
      BY <2>1, IncidentFacts DEF AuthInv
    <3> QED BY <3>1 DEF AuthInv, IdentityStays
  <2> QED BY <2>2, <2>3, <2>4 DEF AuthInv
<1>2. CASE UNCHANGED vars
  <2>1. /\ status' = status /\ requestDb' = requestDb /\ authDb' = authDb /\ identity' = identity
        /\ net' = net /\ notes' = notes /\ items' = items /\ msgs' = msgs /\ troubles' = troubles
        /\ edits' = edits
    BY <1>2 DEF vars
  <2>2. TypeInv' /\ GrantedWasAgreed' /\ StoredRequestIsShown' /\ AnsweredOnce' /\ IdentityStays'
    BY <2>1 DEF AuthInv, TypeInv, TypeOK, ItemsAreRequests, AnswersKnown, GrantedWasAgreed,
                StoredRequestIsShown, AnsweredOnce, IdentityStays
  <2>3. OrderInv'
    BY <2>1 DEF AuthInv, OrderInv, Orderly, Arrives, Noted, Listed, Unanswered, Increasing
  <2>4. AgreeInv'
    <3>1. \A c \in Clients : OneAsks(c)' <=> OneAsks(c)
      BY <2>1 DEF OneAsks, Askers, Asked
    <3>2. \A c \in Clients : Pending(c)' = Pending(c)
      BY <2>1 DEF Pending
    <3> QED BY <2>1, <3>1, <3>2, PeerFacts DEF AuthInv, AgreeInv, Pending
  <2> QED BY <2>2, <2>3, <2>4 DEF AuthInv
<1> QED BY <1>1, <1>2

\* What setAuthorizationStatus grants is something the other side asked for or
\* accepted, through any sequence of requests, answers, crashes and restarts.
THEOREM OnlyAgreedIsGranted == Spec => []GrantedWasAgreed
<1>1. AuthInv => GrantedWasAgreed
  BY DEF AuthInv
<1> QED BY <1>1, AuthInit, AuthStep, PTL DEF Spec

\* A request in request_db is on the screen or has a notification that will put
\* it there, in every session: none is stored out of the user's reach.
THEOREM RequestsStayVisible == Spec => []StoredRequestIsShown
<1>1. AuthInv => StoredRequestIsShown
  BY DEF AuthInv
<1> QED BY <1>1, AuthInit, AuthStep, PTL DEF Spec

\* No request gets two answers, unless the program died within an answer or a
\* message was delivered twice.
THEOREM OneAnswerEach == Spec => []AnsweredOnce
<1>1. AuthInv => AnsweredOnce
  BY DEF AuthInv
<1> QED BY <1>1, AuthInit, AuthStep, PTL DEF Spec

\* When all is delivered and answered and one side asked, the asker shows the
\* acceptance that the other side gave it, whatever restarts there were.
THEOREM SidesAgree == Spec => []BothAgree
<1>1. AuthInv => BothAgree
  <2> SUFFICES ASSUME AuthInv, NEW c \in Clients, Quiet, Askers = {c}, "neither" \notin Asked,
                      edits = 0, troubles = 0, status[c] # "none", status[Peer(c)] \in Accepted
               PROVE  status[c] = status[Peer(c)]
    BY DEF BothAgree
  <2>1. Peer(c) \in Clients /\ Peer(c) # c
    BY PeerFacts
  <2>2. OneAsks(c)
    BY <2>1 DEF OneAsks
  <2>3. ASSUME NEW d \in Clients PROVE Pending(d) = {}
    <3>1. net[d] = <<>> /\ notes[d] = <<>> /\ items[d] = <<>>
      BY DEF Quiet
    <3>2. identity[d] /\ Noted(requestDb[d], notes[d])
      BY DEF AuthInv, IdentityStays, OrderInv, Orderly
    <3>3. DOMAIN << >> = {}
      OBVIOUS
    <3>4. requestDb[d] = {}
      BY <3>1, <3>2, <3>3 DEF AuthInv, StoredRequestIsShown, Noted
    <3> QED BY <3>1, <3>3, <3>4 DEF Pending, Range
  <2>4. Settled(msgs, status[c], status[Peer(c)], Pending(c), Pending(Peer(c)))
    BY <2>2 DEF AuthInv, AgreeInv
  <2> QED BY <2>1, <2>3, <2>4 DEF Settled, LastAccepts
<1> QED BY <1>1, AuthInit, AuthStep, PTL DEF Spec
=============================================================================
