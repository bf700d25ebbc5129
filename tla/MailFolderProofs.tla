-------------------------- MODULE MailFolderProofs --------------------------
(***************************************************************************)
(* Theorems about MailFolder.                                              *)
(***************************************************************************)
EXTENDS MailFolder, ProofBasics, FiniteSetTheorems

-----------------------------------------------------------------------------
(* What is true of a folder by itself.                                     *)

Box == [headers: [Digests -> Marks \union {"none"}], data: SUBSET Digests,
        rows: Seq(Row), unread: 0..UintMax, hidden: SUBSET Digests, sel: SUBSET Digests]

\* No two rows share a message or an entry of _digest2headers.
Distinct(b) ==
  \A i, j \in DOMAIN b.rows :
    i # j => b.rows[i].digest # b.rows[j].digest /\ b.rows[i].key # b.rows[j].key

\* What a row shows is what the database says.
Saved(b) ==
  \A i \in DOMAIN b.rows :
    b.rows[i].digest \in b.data => b.headers[b.rows[i].digest] = b.rows[i].mark

UnreadDigests(b) == {b.rows[i].digest : i \in UnreadRows(b)}

\* Outside Drafts a row's entry in _digest2headers is its message, and the
\* counter is right.
Exact(b) ==
  /\ \A i \in DOMAIN b.rows : b.rows[i].key = b.rows[i].digest
  /\ b.unread = Cardinality(UnreadDigests(b))

Good(k, b) ==
  /\ b \in Box
  /\ Distinct(b)
  /\ b.hidden \subseteq Keys(b) /\ b.sel \subseteq Keys(b) \ b.hidden
  /\ \A d \in b.data : b.headers[d] # "none"
  /\ Saved(b)
  /\ k # "drafts" => Exact(b)

\* c has the rows of b, with other marks at most.
Repaints(b, c) ==
  /\ DOMAIN c.rows = DOMAIN b.rows
  /\ \A i \in DOMAIN b.rows :
       c.rows[i].digest = b.rows[i].digest /\ c.rows[i].key = b.rows[i].key
  /\ c.data = b.data /\ c.hidden = b.hidden
  /\ \A d \in Digests \ Shown(b) : c.headers[d] = b.headers[d]

\* c is b without the messages D, with other marks at most.
Drops(b, c, D) ==
  /\ D \subseteq Shown(b)
  /\ Shown(c) = Shown(b) \ D
  /\ Keys(c) \subseteq Keys(b)
  /\ c.data = b.data \ D
  /\ \A d \in Digests \ Shown(b) : c.headers[d] = b.headers[d]

\* The fields of a folder.
LEMMA BoxFields ==
  ASSUME NEW b \in Box
  PROVE  /\ b.headers \in [Digests -> Marks \union {"none"}]
         /\ b.data \subseteq Digests /\ b.sel \subseteq Digests /\ b.hidden \subseteq Digests
         /\ b.rows \in Seq(Row) /\ b.unread \in 0..UintMax
         /\ DOMAIN b.rows = 1..Len(b.rows) /\ Len(b.rows) \in Nat
         /\ \A i \in DOMAIN b.rows : /\ b.rows[i] \in Row
                                     /\ b.rows[i].digest \in Digests
                                     /\ b.rows[i].key \in Digests
                                     /\ b.rows[i].mark \in Marks
<1>1. /\ b.headers \in [Digests -> Marks \union {"none"}]
      /\ b.data \subseteq Digests /\ b.sel \subseteq Digests /\ b.hidden \subseteq Digests
      /\ b.rows \in Seq(Row) /\ b.unread \in 0..UintMax
  BY DEF Box
<1>2. DOMAIN b.rows = 1..Len(b.rows) /\ Len(b.rows) \in Nat
  BY <1>1
<1>3. \A i \in DOMAIN b.rows : b.rows[i] \in Row
  BY <1>1, <1>2
<1> QED BY <1>1, <1>2, <1>3 DEF Row

\* The unread messages are finitely many, and fewer than the counter can count.
LEMMA CountFacts ==
  ASSUME NEW b \in Box
  PROVE  /\ IsFiniteSet(UnreadDigests(b))
         /\ Cardinality(UnreadDigests(b)) \in 0..MaxMsgs
<1>1. UnreadDigests(b) \in SUBSET Digests
  BY BoxFields DEF UnreadDigests, UnreadRows
<1>2. IsFiniteSet(Digests) /\ Cardinality(Digests) = MaxMsgs
  BY FS_Interval, FolderBoundsAssumption DEF Digests
<1>3. IsFiniteSet(UnreadDigests(b)) /\ Cardinality(UnreadDigests(b)) <= MaxMsgs
  BY <1>1, <1>2, FS_Subset
<1> QED BY <1>3, FS_CardinalityType, FolderBoundsAssumption

\* The arithmetic of the counter.
LEMMA CounterFacts ==
  ASSUME NEW n \in 0..UintMax
  PROVE  /\ Inc(n) \in 0..UintMax /\ Dec(n) \in 0..UintMax
         /\ n < UintMax => Inc(n) = n + 1
         /\ n > 0 => Dec(n) = n - 1
<1>1. UintMax \in Nat
  BY FolderBoundsAssumption
<1>2. Inc(n) \in 0..UintMax
  BY <1>1 DEF Inc
<1>3. Dec(n) \in 0..UintMax
  BY <1>1 DEF Dec
<1>4. n < UintMax => Inc(n) = n + 1
  BY <1>1 DEF Inc
<1>5. n > 0 => Dec(n) = n - 1
  BY <1>1 DEF Dec
<1> QED BY <1>2, <1>3, <1>4, <1>5

-----------------------------------------------------------------------------
(* Marking and displaying.                                                 *)

\* Marking a row in the model, the database and the counter.
Painted(b, i, m, c) ==
  /\ c \in Box
  /\ c.headers = [b.headers EXCEPT ![b.rows[i].digest] = m]
  /\ c.data = b.data /\ c.sel = b.sel /\ c.hidden = b.hidden
  /\ c.rows = [b.rows EXCEPT ![i] = [b.rows[i] EXCEPT !.mark = m]]
  /\ c.unread = IF m = "read" THEN Dec(b.unread) ELSE Inc(b.unread)

\* It leaves a good folder with the same rows.
LEMMA PaintedFacts ==
  ASSUME NEW k, NEW b, Good(k, b), NEW i \in DOMAIN b.rows, NEW m \in Marks,
         b.rows[i].mark # m, NEW c, Painted(b, i, m, c)
  PROVE  Good(k, c) /\ Repaints(b, c) /\ c.sel = b.sel
<1> DEFINE d == b.rows[i].digest
<1>1. b \in Box /\ c \in Box /\ Distinct(b) /\ d \in Digests /\ b.rows[i] \in Row
  BY BoxFields DEF Good, Painted
<1>2. DOMAIN c.rows = DOMAIN b.rows /\ c.rows[i] = [b.rows[i] EXCEPT !.mark = m]
  BY <1>1, BoxFields DEF Painted
<1>3. c.rows[i].digest = d /\ c.rows[i].key = b.rows[i].key /\ c.rows[i].mark = m
  BY <1>1, <1>2 DEF Row
<1>4. \A j \in DOMAIN b.rows : j # i => c.rows[j] = b.rows[j]
  BY <1>1, BoxFields DEF Painted
<1>5. \A j \in DOMAIN b.rows : c.rows[j].digest = b.rows[j].digest /\ c.rows[j].key = b.rows[j].key
  BY <1>3, <1>4
<1>6. c.headers[d] = m /\ \A x \in Digests : x # d => c.headers[x] = b.headers[x]
  BY <1>1, BoxFields DEF Painted
<1>7. Repaints(b, c)
  <2>1. d \in Shown(b)
    BY DEF Shown
  <2> QED BY <1>2, <1>5, <1>6, <2>1 DEF Repaints, Painted
<1>8. Distinct(c) /\ c.hidden \subseteq Keys(c) /\ c.sel \subseteq Keys(c) \ c.hidden
  <2>1. Keys(c) = Keys(b)
    BY <1>2, <1>5 DEF Keys
  <2>2. Distinct(c)
    BY <1>1, <1>2, <1>5 DEF Distinct
  <2> QED BY <2>1, <2>2 DEF Good, Painted
<1>9. \A x \in c.data : c.headers[x] # "none"
  BY <1>1, <1>6, BoxFields DEF Good, Painted, Marks
<1>10. Saved(c)
  <2> SUFFICES ASSUME NEW j \in DOMAIN b.rows, b.rows[j].digest \in b.data
               PROVE  c.headers[b.rows[j].digest] = c.rows[j].mark
    BY <1>2, <1>5 DEF Saved, Painted
  <2>1. CASE j = i
    BY <1>3, <1>6, <2>1
  <2>2. CASE j # i
    <3>1. b.rows[j].digest # d /\ b.rows[j].digest \in Digests
      BY <1>1, <2>2, BoxFields DEF Distinct
    <3> QED BY <1>4, <1>6, <2>2, <3>1 DEF Good, Saved
  <2> QED BY <2>1, <2>2
<1>11. ASSUME k # "drafts" PROVE Exact(c)
  <2>1. Exact(b)
    BY <1>11 DEF Good
  <2>2. IsFiniteSet(UnreadDigests(b)) /\ Cardinality(UnreadDigests(b)) \in 0..MaxMsgs
    BY <1>1, CountFacts
  <2>3. UnreadRows(c) = IF m = "read" THEN UnreadRows(b) \ {i} ELSE UnreadRows(b) \union {i}
    BY <1>2, <1>3, <1>4 DEF UnreadRows, Marks
  <2>4. CASE m = "read"
    <3>1. b.rows[i].mark = "unread"
      BY <1>1, <2>4, BoxFields DEF Marks
    <3>2. d \in UnreadDigests(b)
      BY <3>1 DEF UnreadDigests, UnreadRows
    <3>3. UnreadDigests(c) = UnreadDigests(b) \ {d}
      BY <1>1, <1>5, <2>3, <2>4 DEF UnreadDigests, UnreadRows, Distinct
    <3>4. Cardinality(UnreadDigests(b) \ {d}) = Cardinality(UnreadDigests(b)) - 1
      BY <2>2, <3>2, FS_RemoveElement
    <3>5. Cardinality(UnreadDigests(b)) > 0
      <4>1. UnreadDigests(b) # {}
        BY <3>2
      <4> QED BY <2>2, <4>1, FS_EmptySet
    <3>6. c.unread = b.unread - 1
      BY <2>1, <2>2, <2>4, <3>5, CounterFacts, FolderBoundsAssumption DEF Painted, Exact
    <3> QED BY <1>2, <1>5, <2>1, <3>3, <3>4, <3>6 DEF Exact
  <2>5. CASE m # "read"
    <3>1. b.rows[i].mark # "unread" /\ m = "unread"
      BY <2>5 DEF Marks
    <3>2. d \notin UnreadDigests(b)
      BY <1>1, <3>1 DEF UnreadDigests, UnreadRows, Distinct
    <3>3. UnreadDigests(c) = UnreadDigests(b) \union {d}
      BY <1>1, <1>5, <2>3, <2>5 DEF UnreadDigests, UnreadRows
    <3>4. Cardinality(UnreadDigests(b) \union {d}) = Cardinality(UnreadDigests(b)) + 1
      BY <2>2, <3>2, FS_AddElement
    <3>6. c.unread = b.unread + 1
      BY <2>1, <2>2, <2>5, CounterFacts, FolderBoundsAssumption DEF Painted, Exact
    <3> QED BY <1>2, <1>5, <2>1, <3>3, <3>4, <3>6 DEF Exact
  <2> QED BY <2>4, <2>5
<1>12. c.sel = b.sel
  BY DEF Painted
<1> QED BY <1>1, <1>7, <1>8, <1>9, <1>10, <1>11, <1>12 DEF Good

\* Marking a row as read, or as unread.
LEMMA MarkFacts ==
  ASSUME NEW k, NEW b, Good(k, b), NEW i \in DOMAIN b.rows,
         NEW c \in {markMessageAsRead(b, i), markMessageAsUnread(b, i)}
  PROVE  Good(k, c) /\ Repaints(b, c) /\ c.sel = b.sel
<1>1. b \in Box /\ b.rows[i] \in Row /\ b.rows[i].digest \in Digests
  BY BoxFields DEF Good
<1>2. ASSUME NEW m \in Marks, b.rows[i].mark # m, NEW u \in 0..UintMax,
             u = IF m = "read" THEN Dec(b.unread) ELSE Inc(b.unread)
      PROVE  Painted(b, i, m, store_message_header([b EXCEPT !.rows[i].mark = m, !.unread = u],
                                                   b.rows[i].digest, m))
  <2> DEFINE row == [b.rows[i] EXCEPT !.mark = m]
             rows == [b.rows EXCEPT ![i] = row]
             headers == [b.headers EXCEPT ![b.rows[i].digest] = m]
             e == [b EXCEPT !.rows[i].mark = m, !.unread = u]
             f == store_message_header(e, b.rows[i].digest, m)
  <2>1. row \in Row
    BY <1>1 DEF Row
  <2>2. rows \in Seq(Row)
    <3>1. b.rows \in Seq(Row) /\ i \in 1..Len(b.rows)
      BY <1>1, BoxFields
    <3> HIDE DEF row
    <3> QED BY <2>1, <3>1
  <2>3. headers \in [Digests -> Marks \union {"none"}]
    BY <1>1, BoxFields
  <2>4. /\ e = [b EXCEPT !.rows = rows, !.unread = u]
        /\ f = [e EXCEPT !.headers = headers]
    BY <1>1 DEF store_message_header, Box
  <2> HIDE DEF rows, headers, e
  <2>5. f = [headers |-> headers, data |-> b.data, rows |-> rows, unread |-> u, hidden |-> b.hidden,
             sel |-> b.sel]
    BY <1>1, <2>4 DEF Box
  <2> HIDE DEF f
  <2>6. f \in Box
    BY <1>1, <1>2, <2>2, <2>3, <2>5, BoxFields DEF Box
  <2>7. Painted(b, i, m, f)
    BY <1>2, <2>5, <2>6 DEF Painted, rows, headers
  <2> QED BY <2>7 DEF f, e
<1>3. CASE c = b
  BY <1>3 DEF Repaints
<1>4. CASE c = markMessageAsRead(b, i) /\ b.rows[i].mark # "read"
  <2>1. Dec(b.unread) \in 0..UintMax
    BY <1>1, BoxFields, CounterFacts
  <2>2. Painted(b, i, "read", c)
    BY <1>2, <1>4, <2>1 DEF markMessageAsRead, Marks
  <2> QED BY <1>4, <2>2, PaintedFacts DEF Marks
<1>5. CASE c = markMessageAsUnread(b, i) /\ b.rows[i].mark # "unread"
  <2>1. Inc(b.unread) \in 0..UintMax
    BY <1>1, BoxFields, CounterFacts
  <2>2. Painted(b, i, "unread", c)
    BY <1>2, <1>5, <2>1 DEF markMessageAsUnread, Marks
  <2> QED BY <1>5, <2>2, PaintedFacts DEF Marks
<1> QED BY <1>3, <1>4, <1>5 DEF markMessageAsRead, markMessageAsUnread

\* Other marks twice are other marks.
LEMMA RepaintsTwice ==
  ASSUME NEW b, NEW c, NEW e, Repaints(b, c), Repaints(c, e)
  PROVE  Repaints(b, e) /\ Shown(b) = Shown(c) /\ Keys(b) = Keys(c)
<1>1. Shown(b) = Shown(c) /\ Keys(b) = Keys(c)
  BY DEF Repaints, Shown, Keys
<1> QED BY <1>1 DEF Repaints

\* Other marks drop nothing.
LEMMA RepaintsDrops ==
  ASSUME NEW b, NEW c, Repaints(b, c) PROVE Drops(b, c, {})
<1>1. Shown(b) = Shown(c) /\ Keys(b) = Keys(c)
  BY DEF Repaints, Shown, Keys
<1> QED BY <1>1 DEF Repaints, Drops

\* Dropping D and then E is dropping both.
LEMMA DropsTwice ==
  ASSUME NEW b, NEW c, NEW e, NEW D, NEW E, Drops(b, c, D), Drops(c, e, E)
  PROVE  Drops(b, e, D \union E)
BY DEF Drops

\* Displaying the selected mail.
LEMMA RefreshFacts ==
  ASSUME NEW k, NEW b, Good(k, b), NEW c, c = refreshMessageViewer(b)
  PROVE  Good(k, c) /\ Repaints(b, c) /\ c.sel = b.sel
<1>1. CASE Cardinality(b.sel) # 1
  BY <1>1 DEF refreshMessageViewer, Repaints
<1>2. CASE Cardinality(b.sel) = 1
  <2> DEFINE x == CHOOSE y \in b.sel : TRUE
             i == RowOfKey(b, x)
  <2>1. b.sel # {}
    BY <1>2, FS_EmptySet
  <2>2. x \in Keys(b)
    BY <2>1 DEF Good
  <2>3. i \in DOMAIN b.rows
    BY <2>2 DEF Keys, RowOfKey
  <2>4. c = markMessageAsRead(b, i)
    BY <1>2 DEF refreshMessageViewer
  <2> HIDE DEF i
  <2> QED BY <2>3, <2>4, MarkFacts
<1> QED BY <1>1, <1>2

\* A new selection.
LEMMA SelectFacts ==
  ASSUME NEW k, NEW b, Good(k, b), NEW keys \in SUBSET (Keys(b) \ b.hidden),
         NEW c, c = onSelectionChanged(b, keys)
  PROVE  Good(k, c) /\ Repaints(b, c) /\ c.sel = keys
<1>1. CASE keys = b.sel
  BY <1>1 DEF onSelectionChanged, Repaints
<1>2. CASE keys # b.sel
  <2> DEFINE e == [b EXCEPT !.sel = keys]
  <2>1. b \in Box /\ keys \in SUBSET Digests
    BY BoxFields DEF Good, Keys
  <2>2. /\ e \in Box /\ e.sel = keys /\ e.rows = b.rows /\ e.data = b.data
        /\ e.headers = b.headers /\ e.unread = b.unread /\ e.hidden = b.hidden
    BY <2>1 DEF Box
  <2>3. c = refreshMessageViewer(e)
    BY <1>2 DEF onSelectionChanged
  <2> HIDE DEF e
  <2>4. Good(k, e) /\ Repaints(b, e)
    BY <2>2 DEF Good, Repaints, Distinct, Keys, Saved, Exact, UnreadDigests, UnreadRows
  <2>5. Good(k, c) /\ Repaints(e, c) /\ c.sel = e.sel
    BY <2>3, <2>4, RefreshFacts
  <2> QED BY <2>2, <2>4, <2>5, RepaintsTwice
<1> QED BY <1>1, <1>2

-----------------------------------------------------------------------------
(* Removing rows.                                                          *)

\* Row i is taken out of the model, the counter and the database.
Removed(b, i, c) ==
  /\ c \in Box
  /\ c.headers = [b.headers EXCEPT ![b.rows[i].digest] = "none"]
  /\ c.data = b.data \ {b.rows[i].digest} /\ c.sel = b.sel
  /\ c.hidden = b.hidden \ {b.rows[i].key}
  /\ c.rows = RemoveAt(b.rows, i)
  /\ c.unread = IF b.rows[i].mark = "unread" THEN Dec(b.unread) ELSE b.unread

\* It leaves a good folder without that message, if the row is not selected.
LEMMA RemovedFacts ==
  ASSUME NEW k, NEW b, Good(k, b), NEW i \in DOMAIN b.rows, b.rows[i].key \notin b.sel,
         NEW c, Removed(b, i, c)
  PROVE  /\ Good(k, c) /\ Drops(b, c, {b.rows[i].digest})
         /\ Len(c.rows) = Len(b.rows) - 1
<1> DEFINE d == b.rows[i].digest
<1>1. b \in Box /\ c \in Box /\ Distinct(b) /\ d \in Digests
  BY BoxFields DEF Good, Removed
<1>2. Len(c.rows) = Len(b.rows) - 1 /\ Without(b.rows, i, c.rows)
  <2>1. b.rows \in Seq(Row) /\ i \in 1..Len(b.rows)
    BY <1>1, BoxFields
  <2>2. Len(RemoveAt(b.rows, i)) = Len(b.rows) - 1 /\ Without(b.rows, i, RemoveAt(b.rows, i))
    BY <2>1, RemoveAtFacts
  <2>3. c.rows = RemoveAt(b.rows, i)
    BY DEF Removed
  <2> QED BY <2>2, <2>3
<1>3. ASSUME NEW j \in DOMAIN c.rows
      PROVE  \E l \in DOMAIN b.rows : /\ l # i /\ c.rows[j] = b.rows[l]
                                      /\ l = IF j < i THEN j ELSE j + 1
  BY <1>2 DEF Without
<1>4. ASSUME NEW l \in DOMAIN b.rows, l # i PROVE \E j \in DOMAIN c.rows : c.rows[j] = b.rows[l]
  BY <1>2, <1>4 DEF Without
<1>5. ASSUME NEW l \in DOMAIN b.rows, l # i
      PROVE  b.rows[l].digest # d /\ b.rows[l].key # b.rows[i].key
  BY <1>1, <1>5 DEF Distinct
<1>6. Shown(c) = Shown(b) \ {d} /\ Keys(c) = Keys(b) \ {b.rows[i].key} /\ d \in Shown(b)
  BY <1>3, <1>4, <1>5 DEF Shown, Keys
<1>7. \A x \in Digests : x # d => c.headers[x] = b.headers[x]
  BY <1>1, BoxFields DEF Removed
<1>8. Drops(b, c, {d})
  BY <1>6, <1>7 DEF Drops, Removed
<1>9. Distinct(c)
  <2> SUFFICES ASSUME NEW j \in DOMAIN c.rows, NEW m \in DOMAIN c.rows, j # m
               PROVE  c.rows[j].digest # c.rows[m].digest /\ c.rows[j].key # c.rows[m].key
    BY DEF Distinct
  <2>1. DOMAIN c.rows \subseteq Nat /\ DOMAIN b.rows \subseteq Nat
    BY <1>1, BoxFields
  <2>2. PICK l \in DOMAIN b.rows : c.rows[j] = b.rows[l] /\ l = IF j < i THEN j ELSE j + 1
    BY <1>3
  <2>3. PICK n \in DOMAIN b.rows : c.rows[m] = b.rows[n] /\ n = IF m < i THEN m ELSE m + 1
    BY <1>3
  <2>4. l # n
    BY <2>1, <2>2, <2>3
  <2> QED BY <1>1, <2>2, <2>3, <2>4 DEF Distinct
<1>10. c.hidden \subseteq Keys(c) /\ c.sel \subseteq Keys(c) \ c.hidden
  BY <1>6 DEF Good, Removed
<1>11. \A x \in c.data : c.headers[x] # "none"
  BY <1>1, <1>7, BoxFields DEF Good, Removed
<1>12. Saved(c)
  <2> SUFFICES ASSUME NEW j \in DOMAIN c.rows, c.rows[j].digest \in c.data
               PROVE  c.headers[c.rows[j].digest] = c.rows[j].mark
    BY DEF Saved
  <2>1. PICK l \in DOMAIN b.rows : l # i /\ c.rows[j] = b.rows[l]
    BY <1>3
  <2>2. b.rows[l].digest \in Digests /\ b.rows[l].digest # d
    BY <1>1, <1>5, <2>1, BoxFields
  <2>3. b.rows[l].digest \in b.data
    BY <2>1 DEF Removed
  <2> QED BY <1>7, <2>1, <2>2, <2>3 DEF Good, Saved
<1>13. ASSUME k # "drafts" PROVE Exact(c)
  <2>1. Exact(b)
    BY <1>13 DEF Good
  <2>2. \A j \in DOMAIN c.rows : c.rows[j].key = c.rows[j].digest
    BY <1>3, <2>1 DEF Exact
  <2>3. IsFiniteSet(UnreadDigests(b)) /\ Cardinality(UnreadDigests(b)) \in 0..MaxMsgs
    BY <1>1, CountFacts
  <2>4. UnreadDigests(c) = UnreadDigests(b) \ {d}
    BY <1>3, <1>4, <1>5 DEF UnreadDigests, UnreadRows
  <2>5. CASE b.rows[i].mark = "unread"
    <3>1. d \in UnreadDigests(b)
      BY <2>5 DEF UnreadDigests, UnreadRows
    <3>2. Cardinality(UnreadDigests(c)) = Cardinality(UnreadDigests(b)) - 1
      BY <2>3, <2>4, <3>1, FS_RemoveElement
    <3>3. Cardinality(UnreadDigests(b)) > 0
      <4>1. UnreadDigests(b) # {}
        BY <3>1
      <4> QED BY <2>3, <4>1, FS_EmptySet
    <3>4. c.unread = b.unread - 1
      BY <2>1, <2>3, <2>5, <3>3, CounterFacts, FolderBoundsAssumption DEF Removed, Exact
    <3> QED BY <2>1, <2>2, <3>2, <3>4 DEF Exact
  <2>6. CASE b.rows[i].mark # "unread"
    <3>1. d \notin UnreadDigests(b)
      BY <1>5, <2>6 DEF UnreadDigests, UnreadRows
    <3>2. UnreadDigests(c) = UnreadDigests(b)
      BY <2>4, <3>1
    <3> QED BY <2>1, <2>2, <2>6, <3>2 DEF Exact, Removed
  <2> QED BY <2>5, <2>6
<1>14. Good(k, c)
  BY <1>1, <1>9, <1>10, <1>11, <1>12, <1>13 DEF Good
<1> QED BY <1>2, <1>8, <1>14

\* removeRows: the row leaves the selection, then the model.
LEMMA RemoveFacts ==
  ASSUME NEW k, NEW b, Good(k, b), NEW i \in DOMAIN b.rows, NEW c, c = removeRow(b, i)
  PROVE  /\ Good(k, c) /\ Drops(b, c, {b.rows[i].digest})
         /\ Len(c.rows) = Len(b.rows) - 1
<1> DEFINE keys == b.sel \ {b.rows[i].key}
           e == onSelectionChanged(b, keys)
           d == b.rows[i].digest
           u == IF e.rows[i].mark = "unread" THEN Dec(e.unread) ELSE e.unread
           H == e.hidden \ {b.rows[i].key}
           f == [e EXCEPT !.rows = RemoveAt(@, i), !.hidden = @ \ {b.rows[i].key},
                          !.unread = IF e.rows[i].mark = "unread" THEN Dec(@) ELSE @]
<1>1. keys \in SUBSET (Keys(b) \ b.hidden)
  BY DEF Good
<1>2. Good(k, e) /\ Repaints(b, e) /\ e.sel = keys
  <2> HIDE DEF keys
  <2> QED BY <1>1, SelectFacts
<1>3. c = remove_message(f, d)
  BY DEF removeRow
<1> HIDE DEF e
<1>4. i \in DOMAIN e.rows /\ e.rows[i].digest = d /\ e.rows[i].key \notin e.sel
      /\ e.rows[i].key = b.rows[i].key
  BY <1>2 DEF Repaints
<1>5. e \in Box
  BY <1>2 DEF Good
<1>6. u \in 0..UintMax
  BY <1>5, BoxFields, CounterFacts
<1>7. RemoveAt(e.rows, i) \in Seq(Row) /\ Len(RemoveAt(e.rows, i)) = Len(e.rows) - 1
  <2>1. e.rows \in Seq(Row) /\ i \in 1..Len(e.rows)
    BY <1>4, <1>5, BoxFields
  <2> QED BY <2>1, RemoveAtFacts
<1>8. d \in Digests
  BY <1>4, <1>5, BoxFields
<1>9. f = [headers |-> e.headers, data |-> e.data, rows |-> RemoveAt(e.rows, i),
           unread |-> u, hidden |-> H, sel |-> e.sel]
  <2>1. e = [headers |-> e.headers, data |-> e.data, rows |-> e.rows,
             unread |-> e.unread, hidden |-> e.hidden, sel |-> e.sel]
    BY <1>5 DEF Box
  <2>2. f = [e EXCEPT !.rows = RemoveAt(e.rows, i), !.hidden = H, !.unread = u]
    BY <2>1
  <2> HIDE DEF f, u, H
  <2> QED BY <2>1, <2>2
<1> HIDE DEF f, u, keys, d, H
<1> DEFINE headers == [e.headers EXCEPT ![d] = "none"]
<1>10. headers \in [Digests -> Marks \union {"none"}]
  BY <1>5, <1>8, BoxFields
<1>11. c = [headers |-> headers, data |-> e.data \ {d}, rows |-> RemoveAt(e.rows, i),
            unread |-> u, hidden |-> H, sel |-> e.sel]
  BY <1>3, <1>9 DEF remove_message
<1> HIDE DEF headers
<1>12. c \in Box
  <2>1. H \subseteq Digests
    BY <1>5, BoxFields DEF H
  <2> QED BY <1>5, <1>6, <1>7, <1>10, <1>11, <2>1, BoxFields DEF Box
<1>13. Removed(e, i, c)
  BY <1>4, <1>11, <1>12 DEF Removed, headers, u, H
<1>14. Good(k, c) /\ Drops(e, c, {d}) /\ Len(c.rows) = Len(e.rows) - 1
  BY <1>2, <1>4, <1>13, RemovedFacts
<1>15. Drops(b, c, {} \union {d})
  BY <1>2, <1>14, RepaintsDrops, DropsTwice
<1>16. Len(e.rows) = Len(b.rows)
  <2>1. b \in Box
    BY DEF Good
  <2> QED BY <1>2, <1>5, <2>1, BoxFields DEF Repaints
<1>17. {} \union {d} = {b.rows[i].digest}
  BY DEF d
<1> QED BY <1>14, <1>15, <1>16, <1>17

\* c is a good folder that b becomes by dropping messages.
Dropped(k, b, c) == Good(k, c) /\ \E D : Drops(b, c, D)

\* Dropping again.
LEMMA DroppedAgain ==
  ASSUME NEW k, NEW b, NEW c, NEW e, Dropped(k, b, c), Dropped(k, c, e) PROVE Dropped(k, b, e)
<1>1. PICK D : Drops(b, c, D)
  BY DEF Dropped
<1>2. PICK E : Drops(c, e, E)
  BY DEF Dropped
<1>3. Drops(b, e, D \union E)
  BY <1>1, <1>2, DropsTwice
<1> QED BY <1>3 DEF Dropped

\* Other marks drop nothing, and nothing changed is nothing dropped.
LEMMA RepaintedIsDropped ==
  ASSUME NEW k, NEW b, NEW c, Good(k, c), Repaints(b, c) \/ c = b PROVE Dropped(k, b, c)
<1>1. Repaints(b, c)
  BY DEF Repaints
<1> QED BY <1>1, RepaintsDrops DEF Dropped

\* Removing the rows at the positions S, from the last to the first: a position
\* still to come is that of a row.
LEMMA RemoveAllFacts ==
  ASSUME NEW q, NEW b, Good(q, b), NEW S
  PROVE  Dropped(q, b, RemoveAll(b, S))
<1> DEFINE n == Len(b.rows)
           op(k, x) == IF n + 1 - k \in S THEN removeRow(x, n + 1 - k) ELSE x
           G == [k \in 0..n |-> {x \in Box : Dropped(q, b, x) /\ Len(x.rows) >= n - k}]
           step == [k \in 1..n |-> [x \in G[k - 1] |-> op(k, x)]]
<1>1. b \in Box /\ n \in Nat
  BY BoxFields DEF Good
<1>2. b \in G[0]
  BY <1>1, RepaintedIsDropped
<1>3. ASSUME NEW k \in 1..n, NEW x \in G[k - 1] PROVE op(k, x) \in G[k]
  <2>1. k \in 0..n /\ k - 1 \in 0..n
    BY <1>1
  <2>2. x \in Box /\ Dropped(q, b, x) /\ Len(x.rows) >= n - (k - 1)
    BY <2>1
  <2>3. Len(x.rows) \in Nat /\ DOMAIN x.rows = 1..Len(x.rows)
    BY <2>2, BoxFields
  <2>4. CASE n + 1 - k \in S
    <3> DEFINE i == n + 1 - k
               y == removeRow(x, i)
    <3>1. i \in DOMAIN x.rows
      BY <1>1, <2>2, <2>3
    <3> HIDE DEF i
    <3>2. Good(q, y) /\ Drops(x, y, {x.rows[i].digest}) /\ Len(y.rows) = Len(x.rows) - 1
      BY <2>2, <3>1, RemoveFacts DEF Dropped
    <3>3. Dropped(q, b, y) /\ y \in Box
      <4>1. Dropped(q, x, y)
        BY <3>2 DEF Dropped
      <4>2. y \in Box
        BY <3>2 DEF Good
      <4> HIDE DEF y
      <4> QED BY <2>2, <4>1, <4>2, DroppedAgain
    <3>4. Len(y.rows) >= n - k
      BY <1>1, <2>2, <2>3, <3>2
    <3> HIDE DEF y
    <3>5. y \in G[k]
      BY <2>1, <3>3, <3>4
    <3> QED BY <2>4, <3>5 DEF y, i
  <2>5. CASE n + 1 - k \notin S
    <3>1. Len(x.rows) >= n - k
      BY <1>1, <2>2, <2>3
    <3> QED BY <2>1, <2>2, <2>5, <3>1
  <2> QED BY <2>4, <2>5
<1>4. \A k \in 1..n : \A x \in G[k - 1] : step[k][x] \in G[k]
  <2> HIDE DEF G, op
  <2> QED BY <1>3
<1>5. PICK f : Iterates(f, b, n, step) /\ \A k \in 0..n : f[k] \in G[k]
  <2> HIDE DEF G, step, n
  <2> QED BY <1>1, <1>2, <1>4, StagedRecursion
<1> DEFINE g == [k \in 0..n |-> f[k]]
<1> HIDE DEF G, op
<1>6. ASSUME NEW k \in 1..n PROVE f[k] = op(k, f[k - 1])
  <2>1. k - 1 \in 0..n
    BY <1>1
  <2> QED BY <1>5, <2>1 DEF Iterates
<1>7. g = [k \in 0..n |-> IF k = 0 THEN b ELSE op(k, g[k - 1])]
  <2>1. ASSUME NEW k \in 0..n PROVE f[k] = IF k = 0 THEN b ELSE op(k, g[k - 1])
    <3>1. CASE k = 0
      BY <1>5, <3>1 DEF Iterates
    <3>2. CASE k # 0
      <4>1. k \in 1..n /\ k - 1 \in 0..n
        BY <1>1, <3>2
      <4> QED BY <1>6, <3>2, <4>1
    <3> QED BY <3>1, <3>2
  <2> QED BY <2>1
<1> DEFINE R == CHOOSE r : r = [k \in 0..n |-> IF k = 0 THEN b ELSE op(k, r[k - 1])]
<1>8. R = [k \in 0..n |-> IF k = 0 THEN b ELSE op(k, R[k - 1])]
  <2> HIDE DEF g
  <2> QED BY <1>7
<1>9. RemoveAll(b, S) = R[n]
  BY DEF RemoveAll, op
<1> HIDE DEF R
<1> DEFINE T == {k \in 0..n : R[k] \in G[k]}
<1>10. 0 \in T
  <2>1. 0 \in 0..n
    BY <1>1
  <2> QED BY <1>2, <1>8, <2>1
<1>11. ASSUME NEW k \in 1..n, k - 1 \in T PROVE k \in T
  <2>1. k \in 0..n /\ k # 0 /\ R[k - 1] \in G[k - 1]
    BY <1>1, <1>11
  <2>2. R[k] = op(k, R[k - 1])
    BY <1>8, <2>1
  <2> QED BY <1>3, <2>1, <2>2
<1>12. n \in T
  <2> HIDE DEF T
  <2>1. \A k \in 0..n : k \in T
    BY <1>1, <1>10, <1>11, SegmentInduction
  <2> QED BY <1>1, <2>1
<1>13. n \in 0..n
  BY <1>1
<1> QED BY <1>9, <1>12, <1>13 DEF G

\* removeMessage takes out the message if its row is in the view.
LEMMA RemoveMessageFacts ==
  ASSUME NEW k, NEW b, Good(k, b), NEW d, NEW c, c = removeMessage(b, d)
  PROVE  Good(k, c) /\ Drops(b, c, IF Hides(b, d) THEN {} ELSE {d} \intersect Shown(b))
<1>1. CASE RowsOf(b, d) = {} \/ Hides(b, d)
  <2>1. ~Hides(b, d) => {d} \intersect Shown(b) = {}
    BY <1>1 DEF RowsOf, Shown
  <2>2. c = b /\ Repaints(b, c)
    BY <1>1 DEF removeMessage, Repaints
  <2> QED BY <2>1, <2>2, RepaintsDrops
<1>2. CASE RowsOf(b, d) # {} /\ ~Hides(b, d)
  <2> DEFINE i == CHOOSE j \in RowsOf(b, d) : TRUE
  <2>1. i \in DOMAIN b.rows /\ b.rows[i].digest = d
    BY <1>2 DEF RowsOf
  <2>2. c = removeRow(b, i)
    BY <1>2 DEF removeMessage
  <2> HIDE DEF i
  <2>3. {d} \intersect Shown(b) = {b.rows[i].digest}
    BY <2>1 DEF Shown
  <2>4. Good(k, c) /\ Drops(b, c, {b.rows[i].digest})
    BY <2>1, <2>2, RemoveFacts
  <2> QED BY <1>2, <2>3, <2>4
<1> QED BY <1>1, <1>2

\* Selecting the next row, if the view has one at that position.
LEMMA SelectNextFacts ==
  ASSUME NEW k, NEW b, Good(k, b), NEW last, NEW n
  PROVE  Dropped(k, b, selectNextRow(b, last, n))
<1> DEFINE next == last + 1 - n
           at == RowsAt(b, {IF next <= Len(b.rows) THEN next ELSE Len(b.rows)})
           keys == {b.rows[i].key : i \in at}
           c == onSelectionChanged(b, keys)
<1>1. selectNextRow(b, last, n) = IF at = {} THEN b ELSE c
  BY DEF selectNextRow
<1>2. keys \in SUBSET (Keys(b) \ b.hidden)
  BY DEF RowsAt, InView, Keys
<1> HIDE DEF at, keys
<1>3. Good(k, c) /\ Repaints(b, c)
  BY <1>2, SelectFacts
<1> HIDE DEF c
<1>4. Dropped(k, b, c) /\ Dropped(k, b, b)
  BY <1>3, RepaintedIsDropped
<1> QED BY <1>1, <1>4

\* A new search text: rows leave the view and the selection, others come back.
LEMMA FilteredFacts ==
  ASSUME NEW q, NEW b, Good(q, b), NEW H \in SUBSET Keys(b)
  PROVE  Dropped(q, b, FilteredOut(b, H))
<1> DEFINE n == Len(b.rows)
           Below(i) == {b.rows[j].key : j \in i + 1..n}
           op(k, x) == IF n + 1 - k \in InView(b) /\ b.rows[n + 1 - k].key \notin H
                       THEN onSelectionChanged(x, x.sel \ (H \intersect Below(n + 1 - k)))
                       ELSE x
           X == {x \in Box : Good(q, x) /\ Repaints(b, x)}
           step == [k \in 1..n |-> [x \in X |-> op(k, x)]]
<1>1. b \in Box /\ n \in Nat /\ DOMAIN b.rows = 1..n
  BY BoxFields DEF Good
<1>2. b \in X
  BY <1>1 DEF Repaints
<1>3. ASSUME NEW x \in X, NEW E PROVE onSelectionChanged(x, x.sel \ E) \in X
  <2> DEFINE keys == x.sel \ E
             y == onSelectionChanged(x, keys)
  <2>1. Good(q, x) /\ Repaints(b, x)
    OBVIOUS
  <2>2. keys \in SUBSET (Keys(x) \ x.hidden)
    BY <2>1 DEF Good
  <2> HIDE DEF keys
  <2>3. Good(q, y) /\ Repaints(x, y)
    BY <2>1, <2>2, SelectFacts
  <2> HIDE DEF y
  <2>4. Repaints(b, y) /\ y \in Box
    BY <2>1, <2>3, RepaintsTwice DEF Good
  <2>5. y \in X
    BY <2>3, <2>4
  <2> QED BY <2>5 DEF y, keys
<1> HIDE DEF X, Below
<1>4. step \in [1..n -> [X -> X]]
  <2>1. ASSUME NEW k \in 1..n, NEW x \in X PROVE op(k, x) \in X
    BY <1>3
  <2> HIDE DEF op
  <2> QED BY <2>1
<1>5. PICK f \in [0..n -> X] : Iterates(f, b, n, step)
  <2> HIDE DEF step, n
  <2> QED BY <1>1, <1>2, <1>4, Recursion
<1> HIDE DEF op
<1>6. ASSUME NEW k \in 1..n PROVE f[k] = op(k, f[k - 1])
  <2>1. k - 1 \in 0..n
    BY <1>1
  <2> QED BY <1>5, <2>1 DEF Iterates
<1>7. f = [k \in 0..n |-> IF k = 0 THEN b ELSE op(k, f[k - 1])]
  <2>1. ASSUME NEW k \in 0..n PROVE f[k] = IF k = 0 THEN b ELSE op(k, f[k - 1])
    <3>1. k # 0 => k \in 1..n
      BY <1>1
    <3> QED BY <1>5, <1>6, <3>1 DEF Iterates
  <2> QED BY <2>1
<1> DEFINE left == CHOOSE r : r = [k \in 0..n |-> IF k = 0 THEN b ELSE op(k, r[k - 1])]
           L == left[n]
           e == onSelectionChanged(L, L.sel \ H)
           c == [e EXCEPT !.hidden = H]
<1>8. left = [k \in 0..n |-> IF k = 0 THEN b ELSE op(k, left[k - 1])]
  BY <1>7
<1>9. FilteredOut(b, H) = c
  BY DEF FilteredOut, op, Below
<1> HIDE DEF left
<1> DEFINE T == {k \in 0..n : left[k] \in X}
<1>10. 0 \in T
  <2>1. 0 \in 0..n
    BY <1>1
  <2> QED BY <1>2, <1>8, <2>1
<1>11. ASSUME NEW k \in 1..n, k - 1 \in T PROVE k \in T
  <2>1. k \in 0..n /\ k # 0 /\ left[k - 1] \in X
    BY <1>1, <1>11
  <2>2. left[k] = op(k, left[k - 1])
    BY <1>8, <2>1
  <2> QED BY <1>3, <2>1, <2>2 DEF op
<1>12. L \in X
  <2> HIDE DEF T
  <2>1. \A k \in 0..n : k \in T
    BY <1>1, <1>10, <1>11, SegmentInduction
  <2> QED BY <1>1, <2>1 DEF T
<1> HIDE DEF L
<1>13. Good(q, e) /\ Repaints(b, e) /\ e.sel = L.sel \ H
  <2> DEFINE keys == L.sel \ H
  <2>1. Good(q, L) /\ Repaints(b, L)
    BY <1>12 DEF X
  <2>2. keys \in SUBSET (Keys(L) \ L.hidden)
    BY <2>1 DEF Good
  <2>3. e = onSelectionChanged(L, keys)
    OBVIOUS
  <2> HIDE DEF keys, e
  <2>4. Good(q, e) /\ Repaints(L, e) /\ e.sel = keys
    BY <2>1, <2>2, <2>3, SelectFacts
  <2> QED BY <2>1, <2>4, RepaintsTwice DEF keys
<1> HIDE DEF e
<1>14. Keys(e) = Keys(b) /\ Drops(b, e, {}) /\ e \in Box /\ H \in SUBSET Digests
  <2>2. Keys(e) = Keys(b)
    BY <1>13 DEF Repaints, Keys
  <2>3. Drops(b, e, {})
    BY <1>13, RepaintsDrops
  <2>4. e \in Box
    BY <1>13 DEF Good
  <2>5. H \in SUBSET Digests
    BY <1>1, BoxFields DEF Keys
  <2> QED BY <2>2, <2>3, <2>4, <2>5
<1>15. /\ c \in Box /\ c.hidden = H /\ c.sel = e.sel /\ c.rows = e.rows /\ c.data = e.data
       /\ c.headers = e.headers /\ c.unread = e.unread
  BY <1>14 DEF Box
<1> HIDE DEF c
<1>16. Shown(c) = Shown(e) /\ Keys(c) = Keys(e) /\ UnreadDigests(c) = UnreadDigests(e)
  BY <1>15 DEF Shown, Keys, UnreadDigests, UnreadRows
<1>17. Good(q, c)
  <2>1. Distinct(c) /\ Saved(c)
    BY <1>13, <1>15 DEF Good, Distinct, Saved
  <2>2. q # "drafts" => Exact(c)
    BY <1>13, <1>15, <1>16 DEF Good, Exact
  <2>3. /\ c.hidden \subseteq Keys(c) /\ c.sel \subseteq Keys(c) \ c.hidden
        /\ \A d \in c.data : c.headers[d] # "none"
    BY <1>13, <1>14, <1>15, <1>16 DEF Good
  <2> QED BY <1>15, <2>1, <2>2, <2>3 DEF Good
<1>18. Drops(b, c, {})
  BY <1>14, <1>15, <1>16 DEF Drops
<1> QED BY <1>9, <1>17, <1>18 DEF Dropped

\* onMarkAsUnreadMail marks the selected rows, one after the other.
LEMMA MarkUnreadFacts ==
  ASSUME Good(kind, box), onMarkAsUnreadMail
  PROVE  Dropped(kind, box, box')
<1> DEFINE n == Len(box.rows)
           op(k, x) == IF box.rows[k].key \in box.sel THEN markMessageAsUnread(x, k) ELSE x
           X == {x \in Box : Good(kind, x) /\ Repaints(box, x)}
           step == [k \in 1..n |-> [x \in X |-> op(k, x)]]
<1>1. box \in Box /\ n \in Nat /\ DOMAIN box.rows = 1..n
  BY BoxFields DEF Good
<1>2. box \in X
  BY <1>1 DEF Repaints
<1>3. ASSUME NEW k \in 1..n, NEW x \in X PROVE op(k, x) \in X
  <2>1. CASE box.rows[k].key \in box.sel
    <3> DEFINE y == markMessageAsUnread(x, k)
    <3>1. Good(kind, x) /\ Repaints(box, x) /\ k \in DOMAIN x.rows
      BY <1>1 DEF Repaints
    <3>2. Good(kind, y) /\ Repaints(x, y)
      BY <3>1, MarkFacts
    <3> HIDE DEF y
    <3>3. Repaints(box, y) /\ y \in Box
      BY <3>1, <3>2, RepaintsTwice DEF Good
    <3> QED BY <2>1, <3>2, <3>3 DEF y
  <2> QED BY <2>1
<1>4. step \in [1..n -> [X -> X]]
  <2> HIDE DEF X, op
  <2> QED BY <1>3
<1>5. PICK f \in [0..n -> X] : Iterates(f, box, n, step)
  <2> HIDE DEF X, step, n
  <2> QED BY <1>1, <1>2, <1>4, Recursion
<1> HIDE DEF X, op
<1>6. ASSUME NEW k \in 1..n PROVE f[k] = op(k, f[k - 1])
  <2>1. k - 1 \in 0..n
    BY <1>1
  <2> QED BY <1>5, <2>1 DEF Iterates
<1>7. f = [k \in 0..n |-> IF k = 0 THEN box ELSE op(k, f[k - 1])]
  <2>1. ASSUME NEW k \in 0..n PROVE f[k] = IF k = 0 THEN box ELSE op(k, f[k - 1])
    <3>1. k # 0 => k \in 1..n
      BY <1>1
    <3> QED BY <1>5, <1>6, <3>1 DEF Iterates
  <2> QED BY <2>1
<1> DEFINE R == CHOOSE r : r = [k \in 0..n |-> IF k = 0 THEN box ELSE op(k, r[k - 1])]
<1>8. R = [k \in 0..n |-> IF k = 0 THEN box ELSE op(k, R[k - 1])]
  BY <1>7
<1>9. box' = R[n]
  BY DEF onMarkAsUnreadMail, op
<1> HIDE DEF R
<1> DEFINE T == {k \in 0..n : R[k] \in X}
<1>10. 0 \in T
  <2>1. 0 \in 0..n
    BY <1>1
  <2> QED BY <1>2, <1>8, <2>1
<1>11. ASSUME NEW k \in 1..n, k - 1 \in T PROVE k \in T
  <2>1. k \in 0..n /\ k # 0 /\ R[k - 1] \in X
    BY <1>1, <1>11
  <2>2. R[k] = op(k, R[k - 1])
    BY <1>8, <2>1
  <2> QED BY <1>3, <2>1, <2>2
<1>12. n \in T
  <2> HIDE DEF T
  <2>1. \A k \in 0..n : k \in T
    BY <1>1, <1>10, <1>11, SegmentInduction
  <2> QED BY <1>1, <2>1
<1>13. Good(kind, box') /\ Repaints(box, box')
  BY <1>9, <1>12 DEF X
<1> QED BY <1>13, RepaintedIsDropped

-----------------------------------------------------------------------------
(* Adding and replacing rows.                                              *)

\* A row for message d, with the mark that the database has, is put in at at.p,
\* in the view or out of it.
Added(b, d, mark, at, c) ==
  /\ c \in Box
  /\ c.headers = b.headers /\ c.data = b.data /\ c.sel = b.sel
  /\ c.hidden = IF at.out THEN b.hidden \union ({d} \intersect Hideable) ELSE b.hidden
  /\ c.rows = InsertAt(b.rows, at.p, [digest |-> d, mark |-> mark, key |-> d])
  /\ c.unread = IF mark = "unread" THEN Inc(b.unread) ELSE b.unread

\* It leaves a good folder that shows d too.
LEMMA AddedFacts ==
  ASSUME NEW k, NEW b, Good(k, b), NEW d \in Digests, NEW mark \in Marks,
         d \notin Keys(b) \union Shown(b), b.headers[d] = mark,
         NEW at, at.p \in 1..(Len(b.rows) + 1), NEW c, Added(b, d, mark, at, c)
  PROVE  Good(k, c) /\ Shown(c) = Shown(b) \union {d} /\ Keys(c) = Keys(b) \union {d}
<1> DEFINE r == [digest |-> d, mark |-> mark, key |-> d]
           p == at.p
<1>1. b \in Box /\ c \in Box /\ Distinct(b)
  BY DEF Good, Added
<1>2. With(b.rows, p, r, c.rows)
  <2>1. b.rows \in Seq(Row) /\ r \in Row
    BY <1>1, BoxFields DEF Row
  <2>2. With(b.rows, p, r, InsertAt(b.rows, p, r))
    <3>1. p \in 1..(Len(b.rows) + 1)
      OBVIOUS
    <3> HIDE DEF r, p
    <3> QED BY <2>1, <3>1, InsertAtFacts
  <2>3. c.rows = InsertAt(b.rows, p, r)
    BY DEF Added
  <2> QED BY <2>2, <2>3
<1>3. p \in DOMAIN c.rows /\ c.rows[p].digest = d /\ c.rows[p].key = d /\ c.rows[p].mark = mark
  BY <1>2 DEF With
<1>4. ASSUME NEW j \in DOMAIN c.rows, j # p
      PROVE  \E l \in DOMAIN b.rows : c.rows[j] = b.rows[l] /\ l = IF j < p THEN j ELSE j - 1
  BY <1>2, <1>4 DEF With
<1>5. ASSUME NEW l \in DOMAIN b.rows PROVE \E j \in DOMAIN c.rows : j # p /\ c.rows[j] = b.rows[l]
  BY <1>2 DEF With
<1> HIDE DEF r, p
<1>6. \A l \in DOMAIN b.rows : b.rows[l].digest # d /\ b.rows[l].key # d
  BY DEF Shown, Keys
<1>7. Shown(c) = Shown(b) \union {d} /\ Keys(c) = Keys(b) \union {d}
  BY <1>3, <1>4, <1>5 DEF Shown, Keys
<1>8. Distinct(c)
  <2> SUFFICES ASSUME NEW j \in DOMAIN c.rows, NEW m \in DOMAIN c.rows, j # m, m # p
               PROVE  c.rows[j].digest # c.rows[m].digest /\ c.rows[j].key # c.rows[m].key
    BY DEF Distinct
  <2>1. DOMAIN c.rows \subseteq Nat /\ p \in Nat
    BY <1>1, <1>3, BoxFields
  <2>2. PICK n \in DOMAIN b.rows : c.rows[m] = b.rows[n] /\ n = IF m < p THEN m ELSE m - 1
    BY <1>4
  <2>3. CASE j = p
    BY <1>3, <1>6, <2>2, <2>3
  <2>4. CASE j # p
    <3>1. PICK l \in DOMAIN b.rows : c.rows[j] = b.rows[l] /\ l = IF j < p THEN j ELSE j - 1
      BY <1>4, <2>4
    <3>2. l # n
      BY <2>1, <2>2, <2>4, <3>1
    <3> QED BY <1>1, <2>2, <3>1, <3>2 DEF Distinct
  <2> QED BY <2>3, <2>4
<1>9. Saved(c)
  <2> SUFFICES ASSUME NEW j \in DOMAIN c.rows, c.rows[j].digest \in c.data
               PROVE  c.headers[c.rows[j].digest] = c.rows[j].mark
    BY DEF Saved
  <2>1. CASE j = p
    BY <1>3, <2>1 DEF Added
  <2>2. CASE j # p
    <3>1. PICK l \in DOMAIN b.rows : c.rows[j] = b.rows[l]
      BY <1>4, <2>2
    <3> QED BY <3>1 DEF Good, Saved, Added
  <2> QED BY <2>1, <2>2
<1>10. ASSUME k # "drafts" PROVE Exact(c)
  <2>1. Exact(b)
    BY <1>10 DEF Good
  <2>2. \A j \in DOMAIN c.rows : c.rows[j].key = c.rows[j].digest
    BY <1>3, <1>4, <2>1 DEF Exact
  <2>3. IsFiniteSet(UnreadDigests(b)) /\ Cardinality(UnreadDigests(b)) \in 0..MaxMsgs
    BY <1>1, CountFacts
  <2>4. d \notin UnreadDigests(b)
    BY <1>6 DEF UnreadDigests, UnreadRows
  <2>5. CASE mark = "unread"
    <3>1. UnreadDigests(c) = UnreadDigests(b) \union {d}
      BY <1>3, <1>4, <1>5, <2>5 DEF UnreadDigests, UnreadRows
    <3>2. Cardinality(UnreadDigests(c)) = Cardinality(UnreadDigests(b)) + 1
      BY <2>3, <2>4, <3>1, FS_AddElement
    <3>3. c.unread = b.unread + 1
      <4>1. b.unread \in 0..UintMax /\ b.unread < UintMax
        BY <2>1, <2>3, FolderBoundsAssumption DEF Exact
      <4>2. c.unread = Inc(b.unread)
        BY <2>5 DEF Added
      <4> QED BY <4>1, <4>2, CounterFacts
    <3> QED BY <2>1, <2>2, <3>2, <3>3 DEF Exact
  <2>6. CASE mark # "unread"
    <3>1. UnreadDigests(c) = UnreadDigests(b)
      BY <1>3, <1>4, <1>5, <2>6 DEF UnreadDigests, UnreadRows
    <3> QED BY <2>1, <2>2, <2>6, <3>1 DEF Exact, Added
  <2> QED BY <2>5, <2>6
<1>11. /\ c.hidden \subseteq Keys(c) /\ c.sel \subseteq Keys(c) \ c.hidden
       /\ \A x \in c.data : c.headers[x] # "none"
  BY <1>7 DEF Good, Added
<1> QED BY <1>1, <1>7, <1>8, <1>9, <1>10, <1>11 DEF Good

\* addMailHeader adds a message that is in the database and has no entry yet.
LEMMA AddFacts ==
  ASSUME NEW k, NEW b, Good(k, b), NEW d, NEW mark \in Marks,
         d \notin Keys(b) \union Shown(b), d \in b.data => b.headers[d] = mark,
         NEW at, at.p \in 1..(Len(b.rows) + 1), NEW c, c = addMailHeader(b, d, mark, at)
  PROVE  /\ Good(k, c) /\ c.data = b.data /\ c.headers = b.headers
         /\ Shown(c) = Shown(b) \union ({d} \intersect b.data)
         /\ Keys(c) = Keys(b) \union ({d} \intersect b.data)
<1>1. CASE d \notin b.data
  BY <1>1 DEF addMailHeader, fillMailHeader
<1>2. CASE d \in b.data
  <2> DEFINE r == [digest |-> d, mark |-> mark, key |-> d]
             rows == InsertAt(b.rows, at.p, r)
             H == IF at.out THEN b.hidden \union ({d} \intersect Hideable) ELSE b.hidden
             u == IF mark = "unread" THEN Inc(b.unread) ELSE b.unread
  <2>1. b \in Box /\ d \in Digests
    BY <1>2, BoxFields DEF Good
  <2>2. rows \in Seq(Row)
    <3>1. b.rows \in Seq(Row) /\ r \in Row
      BY <2>1, BoxFields DEF Row
    <3> DEFINE p == at.p
    <3>2. p \in 1..(Len(b.rows) + 1)
      OBVIOUS
    <3> HIDE DEF r, p
    <3>3. InsertAt(b.rows, p, r) \in Seq(Row)
      BY <3>1, <3>2, InsertAtFacts
    <3> QED BY <3>3 DEF p
  <2>3. u \in 0..UintMax
    BY <2>1, BoxFields, CounterFacts
  <2>4. c = [headers |-> b.headers, data |-> b.data, rows |-> rows, unread |-> u, hidden |-> H,
             sel |-> b.sel]
    <3>1. b = [headers |-> b.headers, data |-> b.data, rows |-> b.rows,
               unread |-> b.unread, hidden |-> b.hidden, sel |-> b.sel]
      BY <2>1 DEF Box
    <3>2. c = [b EXCEPT !.rows = rows, !.hidden = H, !.unread = u]
      BY <1>2, <3>1 DEF addMailHeader, fillMailHeader
    <3> HIDE DEF rows, u, H
    <3> QED BY <3>1, <3>2
  <2>5. c \in Box
    <3>1. H \subseteq Digests
      BY <2>1, BoxFields
    <3> HIDE DEF rows, u, H
    <3> QED BY <2>1, <2>2, <2>3, <2>4, <3>1, BoxFields DEF Box
  <2> HIDE DEF rows, u, H
  <2>6. Added(b, d, mark, at, c)
    BY <2>4, <2>5 DEF Added, rows, u, H
  <2>7. Good(k, c) /\ Shown(c) = Shown(b) \union {d} /\ Keys(c) = Keys(b) \union {d}
    BY <1>2, <2>1, <2>6, AddedFacts
  <2>8. {d} \intersect b.data = {d}
    BY <1>2
  <2> QED BY <2>4, <2>7, <2>8
<1> QED BY <1>1, <1>2

\* Message d is shown in place of the old one, if it is in the database.
Replaces(b, old, d, c) ==
  /\ Good("drafts", c) /\ c.data = b.data /\ c.headers = b.headers
  /\ Shown(c) = IF d \in b.data THEN (Shown(b) \ {old}) \union {d} ELSE Shown(b)
  /\ Keys(c) \subseteq Keys(b) \union {d}

\* replaceMessage, in Drafts: a row of the old message becomes one of d, or d is
\* added.
LEMMA ReplaceFacts ==
  ASSUME NEW b, Good("drafts", b), NEW d, NEW mark \in Marks, NEW old, NEW oldMark,
         d \notin Keys(b) \union Shown(b), d \in b.data => b.headers[d] = mark,
         NEW at, at.p \in 1..(Len(b.rows) + 1),
         NEW c, c = replaceMessage(b, old, oldMark, d, mark, at)
  PROVE  Replaces(b, old, d, c)
<1> USE DEF Replaces
<1>1. CASE RowsOf(b, old) = {}
  <2>1. Shown(b) \ {old} = Shown(b)
    BY <1>1 DEF RowsOf, Shown
  <2>2. c = addMailHeader(b, d, mark, at)
    BY <1>1 DEF replaceMessage
  <2>3. /\ Good("drafts", c) /\ c.data = b.data /\ c.headers = b.headers
        /\ Shown(c) = Shown(b) \union ({d} \intersect b.data)
        /\ Keys(c) = Keys(b) \union ({d} \intersect b.data)
    BY <2>2, AddFacts
  <2> QED BY <2>1, <2>3
<1>2. CASE RowsOf(b, old) # {} /\ d \notin b.data
  BY <1>2 DEF replaceMessage, fillMailHeader
<1>3. CASE RowsOf(b, old) # {} /\ d \in b.data
  <2> DEFINE new(i) == [b.rows[i] EXCEPT !.digest = d, !.mark = mark]
             rows == [i \in DOMAIN b.rows |-> IF i \in RowsOf(b, old) THEN new(i) ELSE b.rows[i]]
             u == IF oldMark = "read" THEN Inc(b.unread) ELSE b.unread
  <2>1. b \in Box /\ d \in Digests /\ Distinct(b)
    BY <1>3, BoxFields DEF Good
  <2>2. b = [headers |-> b.headers, data |-> b.data, rows |-> b.rows,
             unread |-> b.unread, hidden |-> b.hidden, sel |-> b.sel]
    BY <2>1 DEF Box
  <2>3. c = [b EXCEPT !.rows = rows, !.unread = u]
    BY <1>3, <2>2 DEF replaceMessage, fillMailHeader
  <2>4. \A i \in DOMAIN b.rows : new(i) \in Row /\ new(i).digest = d
                                 /\ new(i).mark = mark /\ new(i).key = b.rows[i].key
    BY <2>1, BoxFields DEF Row
  <2> HIDE DEF new
  <2>5. rows \in Seq(Row) /\ DOMAIN rows = DOMAIN b.rows
    <3>1. rows \in [1..Len(b.rows) -> Row] /\ Len(b.rows) \in Nat
      BY <2>1, <2>4, BoxFields
    <3>2. DOMAIN rows = DOMAIN b.rows
      OBVIOUS
    <3> HIDE DEF rows
    <3>3. rows \in Seq(Row)
      BY <3>1, SeqDef
    <3> QED BY <3>2, <3>3
  <2>6. u \in 0..UintMax
    BY <2>1, BoxFields, CounterFacts
  <2>7. PICK i \in DOMAIN b.rows : b.rows[i].digest = old
    BY <1>3 DEF RowsOf
  <2>8. RowsOf(b, old) = {i}
    BY <2>1, <2>7 DEF RowsOf, Distinct
  <2>9. rows[i] = new(i) /\ \A j \in DOMAIN b.rows : j # i => rows[j] = b.rows[j]
    BY <2>8
  <2> HIDE DEF rows, u
  <2>10. c = [headers |-> b.headers, data |-> b.data, rows |-> rows, unread |-> u,
              hidden |-> b.hidden, sel |-> b.sel]
    BY <2>2, <2>3
  <2>11. c \in Box
    BY <2>1, <2>5, <2>6, <2>10, BoxFields DEF Box
  <2>12. \A j \in DOMAIN b.rows : c.rows[j].key = b.rows[j].key
    BY <2>4, <2>9, <2>10
  <2>13. Keys(c) = Keys(b)
    BY <2>5, <2>10, <2>12 DEF Keys
  <2>14. \A j \in DOMAIN b.rows : b.rows[j].digest # d /\ (j # i => b.rows[j].digest # old)
    BY <2>1, <2>7 DEF Shown, Distinct
  <2>15. c.rows[i].digest = d /\ c.rows[i].mark = mark
    BY <2>4, <2>9, <2>10
  <2>16. \A j \in DOMAIN b.rows : j # i => c.rows[j] = b.rows[j]
    BY <2>9, <2>10
  <2>17. Shown(c) = (Shown(b) \ {old}) \union {d}
    BY <2>5, <2>7, <2>10, <2>14, <2>15, <2>16 DEF Shown
  <2>18. Distinct(c)
    <3> SUFFICES ASSUME NEW j \in DOMAIN b.rows, NEW m \in DOMAIN b.rows, j # m
                 PROVE  c.rows[j].digest # c.rows[m].digest
      BY <2>1, <2>5, <2>10, <2>12 DEF Distinct
    <3>1. CASE j = i
      BY <2>14, <2>15, <2>16, <3>1
    <3>2. CASE m = i
      BY <2>14, <2>15, <2>16, <3>2
    <3>3. CASE j # i /\ m # i
      BY <2>1, <2>16, <3>3 DEF Distinct
    <3> QED BY <3>1, <3>2, <3>3
  <2>19. Saved(c)
    <3> SUFFICES ASSUME NEW j \in DOMAIN b.rows, c.rows[j].digest \in b.data
                 PROVE  b.headers[c.rows[j].digest] = c.rows[j].mark
      BY <2>5, <2>10 DEF Saved
    <3>1. CASE j = i
      BY <1>3, <2>15, <3>1
    <3>2. CASE j # i
      BY <2>16, <3>2 DEF Good, Saved
    <3> QED BY <3>1, <3>2
  <2>20. /\ c.hidden \subseteq Keys(c) /\ c.sel \subseteq Keys(c) \ c.hidden
         /\ \A x \in c.data : c.headers[x] # "none"
    BY <2>10, <2>13 DEF Good
  <2>21. Good("drafts", c)
    BY <2>11, <2>18, <2>19, <2>20 DEF Good
  <2> QED BY <1>3, <2>10, <2>13, <2>17, <2>21
<1> QED BY <1>1, <1>2, <1>3

-----------------------------------------------------------------------------
(* The folder and the notifications under way.                             *)

\* Nothing is about a message not yet stored.
Known(b, ns, st) ==
  /\ b.data \union Keys(b) \union Shown(b) \subseteq 1..st
  /\ \A n \in DOMAIN ns : ns[n].digest <= st /\ ns[n].old <= st

\* What a notification adds is not there yet, and no two add the same.
Fresh(b, ns) ==
  /\ \A n \in DOMAIN ns : ns[n].digest \notin Keys(b) \union Shown(b)
  /\ \A m, n \in DOMAIN ns : m # n /\ ns[m].digest = ns[n].digest => ns[n].digest = None

\* A notification carries the mark of the database; only those of Drafts replace,
\* and what they replace is gone from the database; those that remove add nothing.
Proper(k, b, ns) ==
  \A n \in DOMAIN ns :
    /\ ns[n].digest \in b.data => b.headers[ns[n].digest] = ns[n].mark
    /\ ns[n].type = "replace" => k = "drafts" /\ ns[n].old \notin b.data
    /\ ns[n].type = "remove" => ns[n].digest = None

\* Outside Drafts, the row of a message that is gone is about to be removed, or
\* was hidden (ms) when it should have been.
RowsLeave(k, b, ns, ms) ==
  k # "drafts" =>
    \A d \in (Shown(b) \ b.data) \ ms : \E n \in DOMAIN ns : ns[n].type = "remove" /\ ns[n].old = d

\* StoredIsShown.
Covered(b, ns) == \A d \in b.data : d \in Shown(b) \/ \E n \in DOMAIN ns : ns[n].digest = d

\* The row of a message to be removed is there, or comes before.
Finds(b, ns) ==
  \A n \in DOMAIN ns :
    ns[n].type = "remove" /\ ns[n].old \in b.data =>
      ns[n].old \in Shown(b) \/ \E m \in 1..(n - 1) : ns[m].digest = ns[n].old

Linked(k, b, ns, st, ms) ==
  /\ Good(k, b) /\ ns \in Seq(Note) /\ st \in 0..MaxMsgs
  /\ Known(b, ns, st) /\ Fresh(b, ns) /\ Proper(k, b, ns)
  /\ RowsLeave(k, b, ns, ms) /\ Covered(b, ns) /\ Finds(b, ns)

\* Dropping messages leaves the notifications in order.
LEMMA LinkedDrops ==
  ASSUME NEW k, NEW b, NEW ns, NEW st, NEW ms, Linked(k, b, ns, st, ms), NEW c, Dropped(k, b, c)
  PROVE  Linked(k, c, ns, st, ms)
<1>1. PICK D : Drops(b, c, D)
  BY DEF Dropped
<1>2. Good(k, c) /\ ns \in Seq(Note) /\ st \in 0..MaxMsgs /\ Good(k, b)
  BY DEF Dropped, Linked
<1>3. b.data \subseteq Digests
  BY <1>2, BoxFields DEF Good
<1>4. Known(c, ns, st) /\ Fresh(c, ns)
  BY <1>1 DEF Linked, Known, Fresh, Drops
<1>5. Proper(k, c, ns)
  <2> SUFFICES ASSUME NEW n \in DOMAIN ns
               PROVE  /\ ns[n].digest \in c.data => c.headers[ns[n].digest] = ns[n].mark
                      /\ ns[n].type = "replace" => k = "drafts" /\ ns[n].old \notin c.data
                      /\ ns[n].type = "remove" => ns[n].digest = None
    BY DEF Proper
  <2>1. ns[n].digest \notin Shown(b) /\ c.data \subseteq b.data
    BY <1>1 DEF Linked, Fresh, Drops
  <2> QED BY <1>1, <1>3, <2>1 DEF Linked, Proper, Drops
<1>6. RowsLeave(k, c, ns, ms) /\ Covered(c, ns)
  BY <1>1 DEF Linked, RowsLeave, Covered, Drops
<1>7. Finds(c, ns)
  BY <1>1 DEF Linked, Finds, Drops
<1> QED BY <1>2, <1>4, <1>5, <1>6, <1>7 DEF Linked

\* What the handler of notification h does to the folder, as far as the other
\* notifications are concerned.
Handles(k, b, c, h) ==
  /\ Good(k, c)
  /\ Shown(c) \subseteq Shown(b) \union ({h.digest} \intersect c.data)
  /\ Keys(c) \subseteq Keys(b) \union ({h.digest} \intersect Digests)
  /\ c.data \subseteq b.data
  /\ \A d \in Digests \ Shown(b) : c.headers[d] = b.headers[d]
  /\ \A d \in c.data : d \in Shown(b) \/ d = h.digest => d \in Shown(c)
  /\ k # "drafts" => \A d \in Shown(c) : /\ d \in b.data => d \in c.data
                                         /\ h.type = "remove" /\ h.old = d => Hides(b, d)

\* The positions of the notifications once the first is delivered.
LEMMA TailFacts ==
  ASSUME NEW T, NEW ns \in Seq(T), ns # <<>>
  PROVE  /\ Tail(ns) \in Seq(T) /\ 1 \in DOMAIN ns /\ Head(ns) = ns[1]
         /\ \A n \in DOMAIN Tail(ns) : n + 1 \in DOMAIN ns /\ Tail(ns)[n] = ns[n + 1]
         /\ \A n \in DOMAIN ns : n # 1 => n - 1 \in DOMAIN Tail(ns) /\ Tail(ns)[n - 1] = ns[n]
         /\ DOMAIN ns \subseteq Nat /\ DOMAIN Tail(ns) \subseteq Nat
<1>1. Len(ns) \in Nat /\ Len(ns) > 0 /\ DOMAIN ns = 1..Len(ns)
  OBVIOUS
<1>2. Tail(ns) \in Seq(T) /\ Len(Tail(ns)) = Len(ns) - 1 /\ Head(ns) = ns[1]
  OBVIOUS
<1>3. DOMAIN Tail(ns) = 1..(Len(ns) - 1)
  BY <1>2
<1>4. \A n \in 1..(Len(ns) - 1) : Tail(ns)[n] = ns[n + 1]
  BY <1>1
<1> HIDE <1>2
<1>5. \A n \in DOMAIN ns : n # 1 => n - 1 \in 1..(Len(ns) - 1) /\ (n - 1) + 1 = n
  BY <1>1
<1>6. \A n \in DOMAIN Tail(ns) : n + 1 \in DOMAIN ns /\ Tail(ns)[n] = ns[n + 1]
  BY <1>1, <1>3, <1>4
<1>7. \A n \in DOMAIN ns : n # 1 => n - 1 \in DOMAIN Tail(ns) /\ Tail(ns)[n - 1] = ns[n]
  BY <1>3, <1>4, <1>5
<1> QED BY <1>1, <1>2, <1>3, <1>6, <1>7

\* Delivering the first notification leaves the others in order.
LEMMA LinkedHandles ==
  ASSUME NEW k, NEW b, NEW ns, NEW st, NEW ms, Linked(k, b, ns, st, ms), ns # <<>>,
         NEW c, Handles(k, b, c, ns[1]),
         NEW mt, ms \subseteq mt,
         k # "drafts" /\ ns[1].type = "remove" /\ Hides(b, ns[1].old) => ns[1].old \in mt
  PROVE  Linked(k, c, Tail(ns), st, mt)
<1> DEFINE ts == Tail(ns)
           h == ns[1]
<1>1. /\ ts \in Seq(Note) /\ 1 \in DOMAIN ns
      /\ \A n \in DOMAIN ts : n + 1 \in DOMAIN ns /\ ts[n] = ns[n + 1]
      /\ \A n \in DOMAIN ns : n # 1 => n - 1 \in DOMAIN ts /\ ts[n - 1] = ns[n]
      /\ DOMAIN ns \subseteq Nat /\ DOMAIN ts \subseteq Nat
  BY TailFacts DEF Linked
<1> HIDE DEF ts
<1>2. b \in Box /\ b.data \subseteq Digests /\ None \notin Digests /\ st \in 0..MaxMsgs /\ Good(k, c)
  BY BoxFields, FolderBoundsAssumption DEF Linked, Good, Digests, None, Handles
<1>3. h.digest \in Digests \union {None} /\ h.digest <= st
  <2>1. h \in Note
    BY <1>1 DEF Linked
  <2> HIDE DEF h
  <2>2. h.digest \in Digests \union {None}
    BY <2>1 DEF Note
  <2> QED BY <1>1, <2>2 DEF Linked, Known, h
<1>4. Known(c, ts, st)
  <2>1. {h.digest} \intersect Digests \subseteq 1..st
    BY <1>2, <1>3 DEF Digests
  <2>2. c.data \union Keys(c) \union Shown(c) \subseteq 1..st
    BY <1>2, <2>1 DEF Linked, Known, Handles
  <2> QED BY <1>1, <2>2 DEF Linked, Known
<1>5. Fresh(c, ts)
  <2>1. ASSUME NEW n \in DOMAIN ts PROVE ts[n].digest \notin Keys(c) \union Shown(c)
    <3>1. n + 1 \in DOMAIN ns /\ ts[n] = ns[n + 1] /\ n + 1 # 1
      BY <1>1
    <3>2. ns[n + 1].digest \notin Keys(b) \union Shown(b)
      BY <3>1 DEF Linked, Fresh
    <3>3. ns[n + 1].digest = h.digest => h.digest = None
      BY <1>1, <3>1 DEF Linked, Fresh
    <3> QED BY <1>2, <3>1, <3>2, <3>3 DEF Handles
  <2>2. ASSUME NEW m \in DOMAIN ts, NEW n \in DOMAIN ts, m # n, ts[m].digest = ts[n].digest
        PROVE  ts[n].digest = None
    <3>1. /\ m + 1 \in DOMAIN ns /\ ts[m] = ns[m + 1]
          /\ n + 1 \in DOMAIN ns /\ ts[n] = ns[n + 1] /\ m + 1 # n + 1
      BY <1>1, <2>2
    <3> QED BY <2>2, <3>1 DEF Linked, Fresh
  <2> QED BY <2>1, <2>2 DEF Fresh
<1>6. Proper(k, c, ts)
  <2> SUFFICES ASSUME NEW n \in DOMAIN ts
               PROVE  /\ ts[n].digest \in c.data => c.headers[ts[n].digest] = ts[n].mark
                      /\ ts[n].type = "replace" => k = "drafts" /\ ts[n].old \notin c.data
                      /\ ts[n].type = "remove" => ts[n].digest = None
    BY DEF Proper
  <2>1. n + 1 \in DOMAIN ns /\ ts[n] = ns[n + 1]
    BY <1>1
  <2>2. ns[n + 1].digest \notin Shown(b)
    BY <2>1 DEF Linked, Fresh
  <2> QED BY <1>2, <2>1, <2>2 DEF Linked, Proper, Handles
<1>7. RowsLeave(k, c, ts, mt)
  <2> SUFFICES ASSUME k # "drafts", NEW d \in (Shown(c) \ c.data) \ mt
               PROVE  \E n \in DOMAIN ts : ts[n].type = "remove" /\ ts[n].old = d
    BY DEF RowsLeave
  <2>1. d \in (Shown(b) \ b.data) \ ms /\ ~(h.type = "remove" /\ h.old = d)
    BY DEF Handles
  <2>2. PICK n \in DOMAIN ns : ns[n].type = "remove" /\ ns[n].old = d
    BY <2>1 DEF Linked, RowsLeave
  <2>3. n # 1
    BY <2>1, <2>2
  <2> QED BY <1>1, <2>2, <2>3
<1>8. Covered(c, ts)
  <2> SUFFICES ASSUME NEW d \in c.data, d \notin Shown(c)
               PROVE  \E n \in DOMAIN ts : ts[n].digest = d
    BY DEF Covered
  <2>1. d \in b.data /\ d \notin Shown(b) /\ d # h.digest
    BY DEF Handles
  <2>2. PICK n \in DOMAIN ns : ns[n].digest = d
    BY <2>1 DEF Linked, Covered
  <2>3. n # 1
    BY <2>1, <2>2
  <2> QED BY <1>1, <2>2, <2>3
<1>9. Finds(c, ts)
  <2> SUFFICES ASSUME NEW n \in DOMAIN ts, ts[n].type = "remove", ts[n].old \in c.data,
                      ts[n].old \notin Shown(c)
               PROVE  \E m \in 1..(n - 1) : ts[m].digest = ts[n].old
    BY DEF Finds
  <2>1. n + 1 \in DOMAIN ns /\ ts[n] = ns[n + 1] /\ n \in Nat
    BY <1>1
  <2>2. ts[n].old \in b.data /\ ts[n].old \notin Shown(b) /\ ts[n].old # h.digest
    BY DEF Handles
  <2>3. PICK m \in 1..((n + 1) - 1) : ns[m].digest = ts[n].old
    BY <2>1, <2>2 DEF Linked, Finds
  <2>4. m # 1 /\ m \in Nat
    BY <2>1, <2>2, <2>3
  <2>5. m \in DOMAIN ns
    <3>1. DOMAIN ns = 1..Len(ns) /\ Len(ns) \in Nat
      BY DEF Linked
    <3> QED BY <2>1, <2>3, <3>1
  <2>6. m - 1 \in 1..(n - 1) /\ ts[m - 1] = ns[m]
    BY <1>1, <2>1, <2>3, <2>4, <2>5
  <2> QED BY <2>3, <2>6
<1>10. Linked(k, c, ts, st, mt)
  BY <1>1, <1>2, <1>4, <1>5, <1>6, <1>7, <1>8, <1>9 DEF Linked
<1> QED BY <1>10 DEF ts

\* The handlers of the three notifications are of that kind.
LEMMA DeliverFacts ==
  ASSUME Linked(kind, box, notes, stored, missed), notes # <<>>,
         NEW at, at.p \in 1..(Len(box.rows) + 1), NEW c, c = Delivered(notes[1], at)
  PROVE  Handles(kind, box, c, notes[1])
<1> DEFINE h == notes[1]
<1>1. Good(kind, box) /\ box \in Box /\ h \in Note /\ 1 \in DOMAIN notes
  <2>1. 1 \in DOMAIN notes /\ notes \in Seq(Note)
    BY TailFacts DEF Linked
  <2> QED BY <2>1 DEF Linked, Good
<1>2. /\ h.digest \notin Keys(box) \union Shown(box)
      /\ h.digest \in box.data => box.headers[h.digest] = h.mark
      /\ h.type = "replace" => kind = "drafts" /\ h.old \notin box.data
      /\ h.type = "remove" => h.digest = None
  BY <1>1 DEF Linked, Fresh, Proper
<1>3. h.type \in {"add", "replace", "remove"} /\ h.mark \in Marks /\ box.data \subseteq Digests
  BY <1>1, BoxFields DEF Note
<1>4. c = Delivered(h, at)
  OBVIOUS
<1> HIDE DEF h
<1>5. CASE h.type = "add"
  <2>1. c = addMailHeader(box, h.digest, h.mark, at)
    BY <1>4, <1>5 DEF Delivered
  <2>2. /\ Good(kind, c) /\ c.data = box.data /\ c.headers = box.headers
        /\ Shown(c) = Shown(box) \union ({h.digest} \intersect box.data)
        /\ Keys(c) = Keys(box) \union ({h.digest} \intersect box.data)
    BY <1>1, <1>2, <1>3, <2>1, AddFacts
  <2> QED BY <1>3, <1>5, <2>2 DEF Handles, h
<1>6. CASE h.type = "replace"
  <2>1. c = replaceMessage(box, h.old, h.oldMark, h.digest, h.mark, at)
    BY <1>4, <1>6 DEF Delivered
  <2>2. kind = "drafts" /\ h.old \notin box.data
    BY <1>2, <1>6
  <2>3. Good("drafts", box)
    BY <1>1, <2>2
  <2>0. Replaces(box, h.old, h.digest, c)
    BY <1>2, <1>3, <2>1, <2>3, ReplaceFacts
  <2>4. c.data = box.data /\ c.headers = box.headers /\ Good("drafts", c)
    BY <2>0 DEF Replaces
  <2>5. /\ Shown(c) = IF h.digest \in box.data THEN (Shown(box) \ {h.old}) \union {h.digest}
                                               ELSE Shown(box)
        /\ Keys(c) \subseteq Keys(box) \union {h.digest}
    BY <2>0 DEF Replaces
  <2>6. Keys(c) \subseteq Digests
    <3>1. c \in Box
      BY <2>4 DEF Good
    <3> QED BY <3>1, BoxFields DEF Keys
  <2>7. \A d \in c.data : d \in Shown(box) \/ d = h.digest => d \in Shown(c)
    BY <2>2, <2>4, <2>5
  <2> QED BY <2>2, <2>4, <2>5, <2>6, <2>7 DEF Handles, h
<1>7. CASE h.type = "remove"
  <2>1. c = removeMessage(box, h.old)
    BY <1>4, <1>7 DEF Delivered
  <2> DEFINE D == IF Hides(box, h.old) THEN {} ELSE {h.old} \intersect Shown(box)
  <2>2. Good(kind, c) /\ Drops(box, c, D)
    BY <1>1, <2>1, RemoveMessageFacts
  <2>3. h.digest = None /\ None \notin Digests
    BY <1>2, <1>7, FolderBoundsAssumption DEF Digests, None
  <2>4. \A d \in c.data : d # h.digest
    BY <1>3, <2>2, <2>3 DEF Drops
  <2>5. \A d \in Shown(c) : d = h.old => Hides(box, d)
    BY <2>2 DEF Drops
  <2> HIDE DEF D
  <2> QED BY <2>2, <2>4, <2>5 DEF Handles, Drops, h
<1> QED BY <1>3, <1>5, <1>6, <1>7

-----------------------------------------------------------------------------
(* Posting notifications.                                                  *)

\* One more notification.
LEMMA AppendFacts ==
  ASSUME NEW T, NEW ns \in Seq(T), NEW h \in T
  PROVE  /\ Append(ns, h) \in Seq(T)
         /\ Len(ns) \in Nat /\ DOMAIN ns = 1..Len(ns) /\ DOMAIN Append(ns, h) = 1..(Len(ns) + 1)
         /\ Append(ns, h)[Len(ns) + 1] = h
         /\ \A n \in DOMAIN ns : n \in 1..Len(ns) /\ Append(ns, h)[n] = ns[n]
         /\ \A n \in DOMAIN Append(ns, h) : n # Len(ns) + 1 => n \in DOMAIN ns
OBVIOUS

\* Message d is stored with its mark, in place of the old one; view and counter
\* stay.
Stores(b, d, old, mark, c) ==
  c = [headers |-> [x \in Digests |-> IF x = d THEN mark ELSE IF x = old THEN "none"
                                      ELSE b.headers[x]],
       data |-> (b.data \union {d}) \ {old}, rows |-> b.rows, unread |-> b.unread,
       hidden |-> b.hidden, sel |-> b.sel]

\* Storing a message and posting the notification that adds it to the view.
LEMMA LinkedStores ==
  ASSUME NEW k, NEW b, NEW ns, NEW st, NEW ms, Linked(k, b, ns, st, ms), st < MaxMsgs,
         NEW d, d = st + 1, NEW old \in 0..st, old # None => k = "drafts", NEW mark \in Marks,
         NEW c, Stores(b, d, old, mark, c),
         NEW h \in Note, h.digest = d, h.mark = mark, h.old = old,
         h.type = "add" \/ (h.type = "replace" /\ k = "drafts")
  PROVE  Linked(k, c, Append(ns, h), d, ms)
<1> DEFINE ts == Append(ns, h)
<1>1. /\ Good(k, b) /\ b \in Box /\ ns \in Seq(Note) /\ st \in 0..MaxMsgs /\ MaxMsgs \in Nat
      /\ Known(b, ns, st)
  BY FolderBoundsAssumption DEF Linked, Good
<1>2. /\ ts \in Seq(Note) /\ Len(ns) \in Nat /\ DOMAIN ns = 1..Len(ns)
      /\ DOMAIN ts = 1..(Len(ns) + 1) /\ ts[Len(ns) + 1] = h
      /\ \A n \in DOMAIN ns : n \in DOMAIN ts /\ n # Len(ns) + 1 /\ ts[n] = ns[n]
      /\ \A n \in DOMAIN ts : n # Len(ns) + 1 => n \in DOMAIN ns
  <2>1. /\ ts \in Seq(Note) /\ Len(ns) \in Nat /\ DOMAIN ns = 1..Len(ns)
        /\ DOMAIN ts = 1..(Len(ns) + 1) /\ ts[Len(ns) + 1] = h
        /\ \A n \in DOMAIN ns : n \in 1..Len(ns) /\ ts[n] = ns[n]
        /\ \A n \in DOMAIN ts : n # Len(ns) + 1 => n \in DOMAIN ns
    BY <1>1, AppendFacts
  <2> HIDE DEF ts
  <2> QED BY <2>1
<1> HIDE DEF ts
<1>3. /\ d \in Digests /\ d \in 1..d /\ d \in 0..MaxMsgs /\ d \notin 1..st /\ old # d /\ ~(d <= st)
      /\ 1..st \subseteq 1..d /\ \A x : x \in Digests \union {None} /\ x <= st => x <= d
      /\ old <= d /\ d # None /\ None \notin Digests
  BY <1>1 DEF Digests, None
<1>4. /\ c.rows = b.rows /\ c.sel = b.sel /\ c.unread = b.unread /\ c.hidden = b.hidden
      /\ c.data = (b.data \union {d}) \ {old} /\ c.headers[d] = mark
      /\ \A x \in Digests : x # d /\ x # old => c.headers[x] = b.headers[x]
  BY <1>3 DEF Stores
<1>5. c \in Box
  <2>1. \A x \in Digests : b.headers[x] \in Marks \union {"none"}
    BY <1>1, BoxFields
  <2>2. [x \in Digests |-> IF x = d THEN mark ELSE IF x = old THEN "none" ELSE b.headers[x]]
          \in [Digests -> Marks \union {"none"}]
    BY <2>1
  <2> QED BY <1>1, <1>3, <2>2, BoxFields DEF Stores, Box
<1>6. Shown(c) = Shown(b) /\ Keys(c) = Keys(b) /\ UnreadRows(c) = UnreadRows(b)
  BY <1>4 DEF Shown, Keys, UnreadRows
<1>7. \A i \in DOMAIN b.rows : b.rows[i].digest \in Digests /\ b.rows[i].digest # d
  BY <1>1, <1>3, BoxFields DEF Known, Shown
<1>8. \A x \in c.data : x # old /\ x \in Digests /\ (x = d \/ x \in b.data)
  BY <1>4, <1>5, BoxFields
<1>9. Good(k, c)
  <2>1. Distinct(c) /\ c.hidden \subseteq Keys(c) /\ c.sel \subseteq Keys(c) \ c.hidden
    BY <1>1, <1>4, <1>6 DEF Good, Distinct
  <2>2. Saved(c)
    BY <1>1, <1>4, <1>7, <1>8 DEF Good, Saved
  <2>3. \A x \in c.data : c.headers[x] # "none"
    BY <1>1, <1>4, <1>8 DEF Good, Marks
  <2>4. UnreadDigests(c) = UnreadDigests(b)
    BY <1>4, <1>6 DEF UnreadDigests
  <2>5. k # "drafts" => Exact(c)
    BY <1>1, <1>4, <2>4 DEF Good, Exact
  <2> QED BY <1>5, <2>1, <2>2, <2>3, <2>5 DEF Good
<1>10. \A n \in DOMAIN ns : /\ ns[n].digest \in Digests \union {None} /\ ns[n].old \in Digests \union {None}
                            /\ ns[n].digest <= st /\ ns[n].old <= st
  <2>1. \A n \in DOMAIN ns : ns[n] \in Note
    BY <1>1
  <2> QED BY <1>1, <2>1 DEF Known, Note
<1>11. Known(c, ts, d)
  <2>1. c.data \union Keys(c) \union Shown(c) \subseteq 1..d
    BY <1>1, <1>3, <1>6, <1>8 DEF Known
  <2>2. \A n \in DOMAIN ts : ts[n].digest <= d /\ ts[n].old <= d
    BY <1>2, <1>3, <1>10
  <2> QED BY <2>1, <2>2 DEF Known
<1>12. Fresh(c, ts)
  <2>1. d \notin Keys(c) \union Shown(c)
    BY <1>1, <1>3, <1>6 DEF Known
  <2>2. \A n \in DOMAIN ns : ns[n].digest # d
    BY <1>3, <1>10
  <2> QED BY <1>2, <1>6, <2>1, <2>2 DEF Linked, Fresh
<1>13. Proper(k, c, ts)
  <2> SUFFICES ASSUME NEW n \in DOMAIN ts
               PROVE  /\ ts[n].digest \in c.data => c.headers[ts[n].digest] = ts[n].mark
                      /\ ts[n].type = "replace" => k = "drafts" /\ ts[n].old \notin c.data
                      /\ ts[n].type = "remove" => ts[n].digest = None
    BY DEF Proper
  <2>1. CASE n = Len(ns) + 1
    BY <1>2, <1>4, <2>1
  <2>2. CASE n # Len(ns) + 1
    <3>1. n \in DOMAIN ns /\ ts[n] = ns[n]
      BY <1>2, <2>2
    <3>2. ns[n].digest # d /\ ns[n].old # d
      BY <1>3, <1>10, <3>1
    <3> QED BY <1>4, <1>8, <3>1, <3>2 DEF Linked, Proper
  <2> QED BY <2>1, <2>2
<1>14. RowsLeave(k, c, ts, ms)
  <2> SUFFICES ASSUME k # "drafts", NEW x \in (Shown(c) \ c.data) \ ms
               PROVE  \E n \in DOMAIN ts : ts[n].type = "remove" /\ ts[n].old = x
    BY DEF RowsLeave
  <2>1. old = None /\ x \in Digests
    BY <1>5, BoxFields DEF Shown
  <2>2. x \in (Shown(b) \ b.data) \ ms
    BY <1>3, <1>4, <1>6, <2>1
  <2>3. PICK n \in DOMAIN ns : ns[n].type = "remove" /\ ns[n].old = x
    BY <2>2 DEF Linked, RowsLeave
  <2> QED BY <1>2, <2>3
<1>15. Covered(c, ts)
  <2> SUFFICES ASSUME NEW x \in c.data, x \notin Shown(c) PROVE \E n \in DOMAIN ts : ts[n].digest = x
    BY DEF Covered
  <2>1. CASE x = d
    BY <1>2, <2>1
  <2>2. CASE x # d
    <3>1. PICK n \in DOMAIN ns : ns[n].digest = x
      BY <1>6, <1>8, <2>2 DEF Linked, Covered
    <3> QED BY <1>2, <3>1
  <2> QED BY <2>1, <2>2
<1>16. Finds(c, ts)
  <2> SUFFICES ASSUME NEW n \in DOMAIN ts, ts[n].type = "remove", ts[n].old \in c.data,
                      ts[n].old \notin Shown(c)
               PROVE  \E m \in 1..(n - 1) : ts[m].digest = ts[n].old
    BY DEF Finds
  <2>1. n # Len(ns) + 1
    BY <1>2
  <2>2. n \in DOMAIN ns /\ ts[n] = ns[n]
    BY <1>2, <2>1
  <2>3. ns[n].old \in b.data /\ ns[n].old \notin Shown(b)
    BY <1>3, <1>6, <1>8, <1>10, <2>2
  <2>4. PICK m \in 1..(n - 1) : ns[m].digest = ns[n].old
    BY <2>2, <2>3 DEF Linked, Finds
  <2>5. m \in DOMAIN ns
    BY <1>2, <2>2, <2>4
  <2> QED BY <1>2, <2>2, <2>4, <2>5
<1>17. Linked(k, c, ts, d, ms)
  BY <1>2, <1>3, <1>9, <1>11, <1>12, <1>13, <1>14, <1>15, <1>16 DEF Linked
<1> QED BY <1>17 DEF ts

\* The message is out of the database; view and counter stay.
Leaves(b, old, c) ==
  c = [headers |-> [b.headers EXCEPT ![old] = "none"], data |-> b.data \ {old},
       rows |-> b.rows, unread |-> b.unread,
       hidden |-> b.hidden, sel |-> b.sel]

\* Posting the notification that removes a message, which may have left the
\* database already: its row is there or comes before.
LEMMA LinkedRemoves ==
  ASSUME NEW k, NEW b, NEW ns, NEW st, NEW ms, Linked(k, b, ns, st, ms), NEW old \in 0..st,
         NEW c, c = b \/ (old \in Digests /\ Leaves(b, old, c)),
         NEW h \in Note, h.digest = None, h.old = old, h.type = "remove"
  PROVE  Linked(k, c, Append(ns, h), st, ms)
<1> DEFINE ts == Append(ns, h)
<1>1. /\ Good(k, b) /\ b \in Box /\ ns \in Seq(Note) /\ st \in 0..MaxMsgs /\ MaxMsgs \in Nat
      /\ Known(b, ns, st)
  BY FolderBoundsAssumption DEF Linked, Good
<1>2. /\ ts \in Seq(Note) /\ Len(ns) \in Nat /\ DOMAIN ns = 1..Len(ns)
      /\ DOMAIN ts = 1..(Len(ns) + 1) /\ ts[Len(ns) + 1] = h
      /\ \A n \in DOMAIN ns : n \in DOMAIN ts /\ n # Len(ns) + 1 /\ ts[n] = ns[n]
      /\ \A n \in DOMAIN ts : n # Len(ns) + 1 => n \in DOMAIN ns
  <2>1. /\ ts \in Seq(Note) /\ Len(ns) \in Nat /\ DOMAIN ns = 1..Len(ns)
        /\ DOMAIN ts = 1..(Len(ns) + 1) /\ ts[Len(ns) + 1] = h
        /\ \A n \in DOMAIN ns : n \in 1..Len(ns) /\ ts[n] = ns[n]
        /\ \A n \in DOMAIN ts : n # Len(ns) + 1 => n \in DOMAIN ns
    BY <1>1, AppendFacts
  <2> HIDE DEF ts
  <2> QED BY <2>1
<1> HIDE DEF ts
<1>3. None \notin Digests /\ None <= st
  BY <1>1 DEF Digests, None
<1>4. /\ c.rows = b.rows /\ c.sel = b.sel /\ c.unread = b.unread /\ c.hidden = b.hidden
      /\ c.data \subseteq b.data /\ b.data \ {old} \subseteq c.data
      /\ \A x \in c.data : c.headers[x] = b.headers[x]
      /\ c \in Box
  <2>1. CASE c = b
    BY <1>1, <2>1
  <2>2. CASE old \in Digests /\ Leaves(b, old, c)
    <3>1. [b.headers EXCEPT ![old] = "none"] \in [Digests -> Marks \union {"none"}]
      BY <1>1, <2>2, BoxFields
    <3>2. \A x \in Digests : x # old => [b.headers EXCEPT ![old] = "none"][x] = b.headers[x]
      BY <1>1, <2>2, BoxFields
    <3> QED BY <1>1, <2>2, <3>1, <3>2, BoxFields DEF Leaves, Box
  <2> QED BY <2>1, <2>2
<1>5. Shown(c) = Shown(b) /\ Keys(c) = Keys(b) /\ UnreadRows(c) = UnreadRows(b)
  BY <1>4 DEF Shown, Keys, UnreadRows
<1>6. Good(k, c)
  <2>1. Distinct(c) /\ c.hidden \subseteq Keys(c) /\ c.sel \subseteq Keys(c) \ c.hidden
    BY <1>1, <1>4, <1>5 DEF Good, Distinct
  <2>2. Saved(c) /\ \A x \in c.data : c.headers[x] # "none"
    BY <1>1, <1>4 DEF Good, Saved
  <2>3. UnreadDigests(c) = UnreadDigests(b)
    BY <1>4, <1>5 DEF UnreadDigests
  <2>4. k # "drafts" => Exact(c)
    BY <1>1, <1>4, <2>3 DEF Good, Exact
  <2> QED BY <1>4, <2>1, <2>2, <2>4 DEF Good
<1>7. Known(c, ts, st)
  BY <1>1, <1>2, <1>3, <1>4, <1>5 DEF Known
<1>8. Fresh(c, ts)
  <2>1. None \notin Keys(b) \union Shown(b)
    BY <1>1, <1>3, BoxFields DEF Keys, Shown
  <2> QED BY <1>2, <1>5, <2>1 DEF Linked, Fresh
<1>9. Proper(k, c, ts)
  <2> SUFFICES ASSUME NEW n \in DOMAIN ts
               PROVE  /\ ts[n].digest \in c.data => c.headers[ts[n].digest] = ts[n].mark
                      /\ ts[n].type = "replace" => k = "drafts" /\ ts[n].old \notin c.data
                      /\ ts[n].type = "remove" => ts[n].digest = None
    BY DEF Proper
  <2>1. CASE n = Len(ns) + 1
    <3>1. None \notin c.data
      BY <1>3, <1>4, BoxFields
    <3> QED BY <1>2, <2>1, <3>1
  <2>2. CASE n # Len(ns) + 1
    <3>1. n \in DOMAIN ns /\ ts[n] = ns[n]
      BY <1>2, <2>2
    <3> QED BY <1>4, <3>1 DEF Linked, Proper
  <2> QED BY <2>1, <2>2
<1>10. RowsLeave(k, c, ts, ms)
  <2> SUFFICES ASSUME k # "drafts", NEW x \in (Shown(c) \ c.data) \ ms
               PROVE  \E n \in DOMAIN ts : ts[n].type = "remove" /\ ts[n].old = x
    BY DEF RowsLeave
  <2>1. CASE x = old
    BY <1>2, <2>1
  <2>2. CASE x # old
    <3>1. x \in (Shown(b) \ b.data) \ ms
      BY <1>4, <1>5, <2>2
    <3>2. PICK n \in DOMAIN ns : ns[n].type = "remove" /\ ns[n].old = x
      BY <3>1 DEF Linked, RowsLeave
    <3> QED BY <1>2, <3>2
  <2> QED BY <2>1, <2>2
<1>11. Covered(c, ts)
  <2> SUFFICES ASSUME NEW x \in c.data, x \notin Shown(c) PROVE \E n \in DOMAIN ts : ts[n].digest = x
    BY DEF Covered
  <2>1. PICK n \in DOMAIN ns : ns[n].digest = x
    BY <1>4, <1>5 DEF Linked, Covered
  <2> QED BY <1>2, <2>1
<1>12. Finds(c, ts)
  <2> SUFFICES ASSUME NEW n \in DOMAIN ts, ts[n].type = "remove", ts[n].old \in c.data,
                      ts[n].old \notin Shown(c)
               PROVE  \E m \in 1..(n - 1) : ts[m].digest = ts[n].old
    BY DEF Finds
  <2>1. CASE n = Len(ns) + 1
    <3>1. old \in b.data /\ old \notin Shown(b) /\ ts[n].old = old
      BY <1>2, <1>4, <1>5, <2>1
    <3>2. PICK m \in DOMAIN ns : ns[m].digest = old
      BY <3>1 DEF Linked, Covered
    <3>3. m \in 1..(n - 1) /\ ts[m] = ns[m]
      BY <1>2, <2>1
    <3> QED BY <3>1, <3>2, <3>3
  <2>2. CASE n # Len(ns) + 1
    <3>1. n \in DOMAIN ns /\ ts[n] = ns[n]
      BY <1>2, <2>2
    <3>2. ns[n].old \in b.data /\ ns[n].old \notin Shown(b)
      BY <1>4, <1>5, <3>1
    <3>3. PICK m \in 1..(n - 1) : ns[m].digest = ns[n].old
      BY <3>1, <3>2 DEF Linked, Finds
    <3>4. m \in DOMAIN ns
      BY <1>2, <3>1, <3>3
    <3> QED BY <1>2, <3>1, <3>3, <3>4
  <2> QED BY <2>1, <2>2
<1>13. Linked(k, c, ts, st, ms)
  BY <1>1, <1>2, <1>6, <1>7, <1>8, <1>9, <1>10, <1>11, <1>12 DEF Linked
<1> QED BY <1>13 DEF ts

-----------------------------------------------------------------------------
(* The next start.                                                         *)

\* The view is filled with every stored message once, and the counter is right.
LEMMA OpenedFacts ==
  ASSUME NEW k, NEW b, Good(k, b), NEW order \in SetToSeqs(Stored(b)), NEW c, c = Opened(b, order)
  PROVE  Good(k, c) /\ Shown(c) = b.data /\ Keys(c) = b.data /\ c.data = b.data
<1> DEFINE N == Cardinality(b.data)
           U == {d \in b.data : b.headers[d] = "unread"}
<1>1. b \in Box /\ b.data \subseteq Digests /\ \A d \in b.data : b.headers[d] \in Marks
  BY BoxFields DEF Good
<1>2. Stored(b) = b.data
  BY DEF Good, Stored
<1>3. IsFiniteSet(b.data) /\ N \in Nat /\ IsFiniteSet(U) /\ Cardinality(U) \in 0..UintMax
  <2>1. IsFiniteSet(Digests) /\ Cardinality(Digests) = MaxMsgs
    BY FS_Interval, FolderBoundsAssumption DEF Digests
  <2>2. IsFiniteSet(b.data) /\ IsFiniteSet(U) /\ Cardinality(U) <= MaxMsgs
    BY <1>1, <2>1, FS_Subset
  <2> HIDE DEF U
  <2>3. N \in Nat /\ Cardinality(U) \in Nat
    BY <2>2, FS_CardinalityType
  <2> QED BY <2>2, <2>3, FolderBoundsAssumption
<1>4. order \in [1..N -> b.data] /\ \A i, j \in 1..N : i # j => order[i] # order[j]
  BY <1>2 DEF SetToSeqs
<1> HIDE DEF N
<1>5. \A d \in b.data : \E i \in 1..N : order[i] = d
  <2>1. order \in Injection(1..N, b.data)
    BY <1>4 DEF Injection, IsInjective
  <2>2. Cardinality(1..N) = Cardinality(b.data)
    <3>1. Cardinality(1..N) = N
      BY <1>3, FS_Interval
    <3> QED BY <3>1 DEF N
  <2>3. order \in Surjection(1..N, b.data)
    BY <1>3, <2>1, <2>2, FS_Injection
  <2> QED BY <2>3 DEF Surjection
<1> DEFINE row(i) == [digest |-> order[i], mark |-> b.headers[order[i]], key |-> order[i]]
           rows == [i \in 1..N |-> row(i)]
<1>6. rows \in Seq(Row) /\ DOMAIN rows = 1..N
  <2>1. \A i \in 1..N : row(i) \in Row
    BY <1>1, <1>4 DEF Row
  <2> HIDE DEF row
  <2>2. rows \in [1..N -> Row] /\ DOMAIN rows = 1..N
    BY <2>1
  <2> HIDE DEF rows
  <2> QED BY <1>3, <2>2, SeqDef
<1>7. \A i \in 1..N : /\ rows[i].digest = order[i] /\ rows[i].key = order[i]
                      /\ rows[i].mark = b.headers[order[i]]
  OBVIOUS
<1>8. c = [headers |-> b.headers, data |-> b.data, hidden |-> {}, sel |-> {}, rows |-> rows,
           unread |-> Cardinality(U)]
  BY <1>2, <1>4 DEF Opened
<1> HIDE DEF rows, U
<1>9. c \in Box
  BY <1>1, <1>3, <1>6, <1>8, BoxFields DEF Box
<1>10. Shown(c) = b.data /\ Keys(c) = b.data /\ c.data = b.data
  BY <1>4, <1>5, <1>6, <1>7, <1>8 DEF Shown, Keys
<1>11. Distinct(c) /\ Saved(c)
  BY <1>4, <1>6, <1>7, <1>8 DEF Distinct, Saved
<1>12. Exact(c)
  <2>1. UnreadDigests(c) = U
    BY <1>4, <1>5, <1>6, <1>7, <1>8 DEF UnreadDigests, UnreadRows, U
  <2> QED BY <1>6, <1>7, <1>8, <2>1 DEF Exact
<1>13. /\ c.hidden \subseteq Keys(c) /\ c.sel \subseteq Keys(c) \ c.hidden
       /\ \A d \in c.data : c.headers[d] # "none"
  BY <1>8 DEF Good
<1> QED BY <1>9, <1>10, <1>11, <1>12, <1>13 DEF Good

\* With no notification under way and the messages shown, nothing is amiss.
LEMMA LinkedQuiet ==
  ASSUME NEW k, NEW c, Good(k, c), NEW st \in 0..MaxMsgs, c.data \subseteq 1..st,
         Shown(c) = c.data, Keys(c) = c.data, NEW ms
  PROVE  Linked(k, c, <<>>, st, ms)
<1>1. <<>> \in Seq(Note) /\ DOMAIN <<>> = {}
  OBVIOUS
<1>2. Known(c, <<>>, st) /\ Fresh(c, <<>>) /\ Proper(k, c, <<>>)
  BY <1>1 DEF Known, Fresh, Proper
<1>3. RowsLeave(k, c, <<>>, ms) /\ Covered(c, <<>>) /\ Finds(c, <<>>)
  BY <1>1 DEF RowsLeave, Covered, Finds
<1> QED BY <1>1, <1>2, <1>3 DEF Linked

-----------------------------------------------------------------------------
(* Saving drafts again.                                                    *)

\* store_message, on the fields.
LEMMA StoreFields ==
  ASSUME NEW b, b = [headers |-> b.headers, data |-> b.data, rows |-> b.rows,
                     unread |-> b.unread, hidden |-> b.hidden, sel |-> b.sel],
         NEW d, NEW old
  PROVE  Stores(b, d, old, "unread", store_message(b, d, old))
<1> DEFINE H == [x \in Digests |-> IF x = d THEN "unread" ELSE IF x = old THEN "none" ELSE b.headers[x]]
           D == (b.data \union {d}) \ {old}
<1>1. store_message(b, d, old) = [b EXCEPT !.data = D, !.headers = H]
  BY DEF store_message
<1> HIDE DEF H, D
<1>2. store_message(b, d, old)
        = [headers |-> H, data |-> D, rows |-> b.rows, unread |-> b.unread,
       hidden |-> b.hidden, sel |-> b.sel]
  BY <1>1
<1> QED BY <1>2 DEF Stores, H, D

\* The loop of onIdentityDelete over the drafts keeps folder and notifications in
\* order, as long as there are digests left.
LEMMA SaveAgainFacts ==
  ASSUME Linked("drafts", box, notes, stored, missed), NEW S,
         NEW after, after = SaveAgain(S), after.stored <= MaxMsgs
  PROVE  Linked("drafts", after.box, after.notes, after.stored, missed) /\ after.stored >= stored
<1> DEFINE n == Len(box.rows)
           old(i) == box.rows[i].digest
           note(i, p) == [type |-> "replace", digest |-> p.stored + 1, mark |-> "unread",
                          old |-> old(i), oldMark |-> box.rows[i].mark]
           round(i, p) == [box |-> store_message(p.box, p.stored + 1, old(i)),
                           notes |-> Append(p.notes, note(i, p)), stored |-> p.stored + 1]
           op(i, p) == IF i \notin S THEN p ELSE round(i, p)
           p0 == [box |-> box, notes |-> notes, stored |-> stored]
           AnyBox == [headers: [Digests -> Marks \union {"none"}], data: SUBSET Nat,
                      rows: Seq(Row), unread: 0..UintMax, hidden: SUBSET Digests, sel: SUBSET Digests]
           AnyNote == [type: {"add", "replace", "remove"}, digest: Nat, mark: Marks,
                       old: Nat, oldMark: Marks]
           X == {p \in [box: AnyBox, notes: Seq(AnyNote), stored: Nat] :
                   /\ p.stored >= stored
                   /\ p.stored <= MaxMsgs => Linked("drafts", p.box, p.notes, p.stored, missed)}
           step == [i \in 1..n |-> [p \in X |-> op(i, p)]]
<1>1. /\ box \in Box /\ n \in Nat /\ stored \in 0..MaxMsgs /\ notes \in Seq(Note) /\ MaxMsgs \in Nat
      /\ \A i \in 1..n : old(i) \in Digests /\ old(i) \in 1..stored /\ box.rows[i].mark \in Marks
  <2>1. box \in Box /\ stored \in 0..MaxMsgs /\ notes \in Seq(Note) /\ MaxMsgs \in Nat
    BY FolderBoundsAssumption DEF Linked, Good
  <2>2. n \in Nat /\ DOMAIN box.rows = 1..n
    BY <2>1, BoxFields
  <2>3. \A i \in 1..n : old(i) \in 1..stored
    BY <2>2 DEF Linked, Known, Shown
  <2> QED BY <2>1, <2>2, <2>3, BoxFields
<1>2. p0 \in X
  <2>1. Box \subseteq AnyBox
    BY <1>1 DEF Box, Digests
  <2>2. Note \subseteq AnyNote
    BY <1>1 DEF Note, Digests, None
  <2>3. notes \in Seq(AnyNote)
    <3> HIDE DEF AnyNote
    <3> QED BY <1>1, <2>2
  <2> HIDE DEF AnyBox, AnyNote
  <2>4. p0 \in [box: AnyBox, notes: Seq(AnyNote), stored: Nat]
    BY <1>1, <2>1, <2>3
  <2> QED BY <1>1, <2>4
<1>3. ASSUME NEW i \in 1..n, NEW p \in X PROVE round(i, p) \in X
  <2> DEFINE d == p.stored + 1
             c == store_message(p.box, d, old(i))
             h == note(i, p)
             q == round(i, p)
  <2>1. /\ p.box \in AnyBox /\ p.notes \in Seq(AnyNote) /\ p.stored \in Nat /\ p.stored >= stored
        /\ p.stored <= MaxMsgs => Linked("drafts", p.box, p.notes, p.stored, missed)
    <3> HIDE DEF AnyBox, AnyNote
    <3> QED OBVIOUS
  <2>2. /\ p.box = [headers |-> p.box.headers, data |-> p.box.data, rows |-> p.box.rows,
                    unread |-> p.box.unread, hidden |-> p.box.hidden, sel |-> p.box.sel]
        /\ p.box.headers \in [Digests -> Marks \union {"none"}] /\ p.box.data \subseteq Nat
        /\ p.box.rows \in Seq(Row) /\ p.box.unread \in 0..UintMax /\ p.box.sel \subseteq Digests
        /\ p.box.hidden \subseteq Digests
    BY <2>1
  <2>3. Stores(p.box, d, old(i), "unread", c)
    <3> HIDE DEF d, old, AnyBox
    <3> QED BY <2>2, StoreFields
  <2>4. d \in Nat /\ old(i) \in Nat /\ old(i) \in 0..p.stored
    <3>1. old(i) \in 1..stored /\ stored \in Nat
      <4> HIDE DEF old, X
      <4> QED BY <1>1
    <3>2. p.stored \in Nat /\ p.stored >= stored
      BY <2>1
    <3> HIDE DEF old, X
    <3> QED BY <3>1, <3>2
  <2>5. c \in AnyBox
    <3> HIDE DEF c, d, old
    <3>1. [x \in Digests |-> IF x = d THEN "unread" ELSE IF x = old(i) THEN "none"
                             ELSE p.box.headers[x]] \in [Digests -> Marks \union {"none"}]
      BY <2>2 DEF Marks
    <3>2. (p.box.data \union {d}) \ {old(i)} \in SUBSET Nat
      BY <2>2, <2>4
    <3> QED BY <2>2, <2>3, <3>1, <3>2 DEF Stores
  <2>6. h \in AnyNote
    <3> HIDE DEF d, old
    <3>1. h = [type |-> "replace", digest |-> d, mark |-> "unread",
               old |-> old(i), oldMark |-> box.rows[i].mark]
      BY DEF d
    <3> QED BY <1>1, <2>4, <3>1 DEF Marks
  <2>7. Append(p.notes, h) \in Seq(AnyNote)
    <3> HIDE DEF h, AnyNote
    <3> QED BY <2>1, <2>6
  <2>8. q = [box |-> c, notes |-> Append(p.notes, h), stored |-> d]
    OBVIOUS
  <2>9. d <= MaxMsgs => Linked("drafts", c, Append(p.notes, h), d, missed)
    <3> SUFFICES ASSUME d <= MaxMsgs PROVE Linked("drafts", c, Append(p.notes, h), d, missed)
      OBVIOUS
    <3>1. Linked("drafts", p.box, p.notes, p.stored, missed) /\ p.stored < MaxMsgs
      BY <1>1, <2>1
    <3>2. d \in Digests
      BY <1>1, <2>1 DEF Digests
    <3>3. h \in Note /\ h.digest = d /\ h.mark = "unread" /\ h.old = old(i) /\ h.type = "replace"
      <4> HIDE DEF d, old
      <4>1. h = [type |-> "replace", digest |-> d, mark |-> "unread",
                 old |-> old(i), oldMark |-> box.rows[i].mark]
        BY DEF d
      <4> QED BY <1>1, <3>2, <4>1 DEF Note, Marks
    <3>4. d = p.stored + 1
      OBVIOUS
    <3> HIDE DEF c, d, h, old
    <3>5. "unread" \in Marks
      BY DEF Marks
    <3> QED BY <2>3, <2>4, <3>1, <3>3, <3>4, <3>5, LinkedStores
  <2>10. d >= stored
    BY <1>1, <2>1
  <2> HIDE DEF c, d, h, q, AnyBox, AnyNote
  <2>11. q \in X
    BY <2>4, <2>5, <2>7, <2>8, <2>9, <2>10
  <2> QED BY <2>11 DEF q
<1> HIDE DEF X, round
<1>4. step \in [1..n -> [X -> X]]
  BY <1>3
<1>5. PICK f \in [0..n -> X] : Iterates(f, p0, n, step)
  <2> HIDE DEF step, n, p0
  <2> QED BY <1>1, <1>2, <1>4, Recursion
<1>6. ASSUME NEW i \in 1..n PROVE f[i] = op(i, f[i - 1])
  <2>1. i - 1 \in 0..n
    BY <1>1
  <2> HIDE DEF op
  <2> QED BY <1>5, <2>1 DEF Iterates
<1>7. f = [i \in 0..n |-> IF i = 0 THEN p0 ELSE op(i, f[i - 1])]
  <2>1. ASSUME NEW i \in 0..n PROVE f[i] = IF i = 0 THEN p0 ELSE op(i, f[i - 1])
    <3>1. i # 0 => i \in 1..n
      BY <1>1
    <3> HIDE DEF op, p0
    <3> QED BY <1>5, <1>6, <3>1 DEF Iterates
  <2> HIDE DEF op, p0
  <2> QED BY <2>1
<1> DEFINE R == CHOOSE r : r = [i \in 0..n |-> IF i = 0 THEN p0 ELSE op(i, r[i - 1])]
<1>8. R = [i \in 0..n |-> IF i = 0 THEN p0 ELSE op(i, R[i - 1])]
  <2> HIDE DEF op, p0
  <2> QED BY <1>7
<1>9. SaveAgain(S) = R[n]
  BY DEF SaveAgain, round
<1> HIDE DEF R, p0
<1> DEFINE T == {i \in 0..n : R[i] \in X}
<1>10. 0 \in T
  <2>1. 0 \in 0..n
    BY <1>1
  <2> QED BY <1>2, <1>8, <2>1
<1>11. ASSUME NEW i \in 1..n, i - 1 \in T PROVE i \in T
  <2>1. i \in 0..n /\ i # 0 /\ R[i - 1] \in X
    BY <1>1, <1>11
  <2>2. R[i] = op(i, R[i - 1])
    BY <1>8, <2>1
  <2> QED BY <1>3, <2>1, <2>2
<1>12. n \in T
  <2> HIDE DEF T
  <2>1. \A i \in 0..n : i \in T
    BY <1>1, <1>10, <1>11, SegmentInduction
  <2> QED BY <1>1, <2>1
<1>13. after \in X
  BY <1>9, <1>12
<1> QED BY <1>13 DEF X

-----------------------------------------------------------------------------
(* Counting rows.                                                          *)

\* No two rows share a message, so there are at most as many as messages.
LEMMA RowsFewEnough ==
  ASSUME NEW k, NEW b, Good(k, b)
  PROVE  Len(b.rows) <= MaxMsgs
<1> DEFINE n == Len(b.rows)
           f == [i \in 1..n |-> b.rows[i].digest]
<1>1. b \in Box /\ n \in Nat /\ DOMAIN b.rows = 1..n /\ MaxMsgs \in Nat
  BY BoxFields, FolderBoundsAssumption DEF Good
<1>2. f \in [1..n -> Digests]
  BY <1>1, BoxFields
<1>3. \A i, j \in 1..n : f[i] = f[j] => i = j
  BY <1>1 DEF Good, Distinct
<1>4. f \in Injection(1..n, Digests)
  <2> HIDE DEF f
  <2> QED BY <1>2, <1>3 DEF Injection, IsInjective
<1>5. IsFiniteSet(Digests) /\ Cardinality(Digests) = MaxMsgs
  BY <1>1, FS_Interval DEF Digests
<1>6. Cardinality(1..n) = n
  BY <1>1, FS_Interval
<1> HIDE DEF f, n
<1>7. Cardinality(1..n) <= Cardinality(Digests)
  BY <1>4, <1>5, FS_Injection
<1> QED BY <1>5, <1>6, <1>7 DEF n

\* The unread rows are as many as the unread messages.
LEMMA UnreadRowsCounted ==
  ASSUME NEW k, NEW b, Good(k, b)
  PROVE  Cardinality(UnreadRows(b)) = Cardinality(UnreadDigests(b))
<1> DEFINE R == UnreadRows(b)
           D == UnreadDigests(b)
           f == [i \in R |-> b.rows[i].digest]
<1>1. b \in Box /\ Distinct(b)
  BY DEF Good
<1>2. IsFiniteSet(D)
  BY <1>1, CountFacts
<1>3. f \in [R -> D]
  BY DEF UnreadDigests
<1>4. \A i, j \in R : f[i] = f[j] => i = j
  BY <1>1 DEF Distinct, UnreadRows
<1>5. \A d \in D : \E i \in R : f[i] = d
  BY DEF UnreadDigests
<1> HIDE DEF f, R, D
<1>6. f \in Injection(R, D)
  BY <1>3, <1>4 DEF Injection, IsInjective
<1>7. f \in Surjection(R, D)
  BY <1>3, <1>5 DEF Surjection
<1>8. Cardinality(R) = Cardinality(D)
  BY <1>2, <1>6, <1>7, FS_Injection
<1> QED BY <1>8 DEF R, D

LEMMA SegmentSize ==
  ASSUME NEW n \in Nat PROVE IsFiniteSet(1..n) /\ Cardinality(1..n) = n
BY FS_Interval

\* The position of a row in the view.
LEMMA PlaceFacts ==
  ASSUME NEW k, NEW b, Good(k, b), NEW i \in InView(b)
  PROVE  Place(b, i) \in Digests
<1> DEFINE n == Len(b.rows)
           S == {j \in InView(b) : j <= i}
<1>1. b \in Box /\ n \in Nat /\ DOMAIN b.rows = 1..n /\ MaxMsgs \in Nat
  BY BoxFields, FolderBoundsAssumption DEF Good
<1>2. S \in SUBSET (1..n) /\ i \in S
  BY <1>1 DEF InView
<1>3. n <= MaxMsgs
  BY RowsFewEnough
<1> HIDE DEF n, S
<1>4. IsFiniteSet(1..n) /\ Cardinality(1..n) = n
  BY <1>1, SegmentSize
<1>5. IsFiniteSet(S) /\ Cardinality(S) <= n
  BY <1>2, <1>4, FS_Subset
<1>6. Cardinality(S) \in Nat /\ Cardinality(S) # 0
  <2>1. S # {}
    BY <1>2
  <2> QED BY <1>5, <2>1, FS_CardinalityType, FS_EmptySet
<1>7. Place(b, i) = Cardinality(S)
  BY DEF Place, S
<1>8. Cardinality(S) >= 1 /\ Cardinality(S) <= MaxMsgs
  BY <1>1, <1>3, <1>5, <1>6
<1> QED BY <1>1, <1>6, <1>7, <1>8 DEF Digests

-----------------------------------------------------------------------------
(* The invariant and the steps.                                            *)

EditorState == [open: BOOLEAN, digest: 0..MaxMsgs, mark: Marks]

\* What is proved inductive: the folder agrees with the notifications under way,
\* and no editor holds a message that was never stored.
FolderInv ==
  /\ kind \in Kinds
  /\ Linked(kind, box, notes, stored, missed)
  /\ editors \in [Editors -> EditorState]
  /\ \A e \in Editors : editors[e].digest <= stored
  /\ asked \subseteq Digests /\ missed \subseteq Digests

\* A closed editor.
LEMMA ClosedFacts == Closed \in EditorState /\ Closed.digest = 0
BY FolderBoundsAssumption DEF Closed, EditorState, None, Marks

LEMMA FolderInit == Init => FolderInv
<1> SUFFICES ASSUME Init PROVE FolderInv
  OBVIOUS
<1>1. MaxMsgs \in Nat /\ UintMax \in Nat
  BY FolderBoundsAssumption
<1>2. /\ box = [headers |-> [d \in Digests |-> "none"], data |-> {}, rows |-> <<>>,
                unread |-> 0, hidden |-> {}, sel |-> {}]
      /\ notes = <<>> /\ stored = 0 /\ editors = [e \in Editors |-> Closed]
      /\ kind \in Kinds /\ asked = {} /\ missed = {}
  BY DEF Init
<1>3. [d \in Digests |-> "none"] \in [Digests -> Marks \union {"none"}] /\ <<>> \in Seq(Row)
      /\ 0 \in 0..UintMax /\ 0 \in 0..MaxMsgs
  BY <1>1
<1>4. box \in Box
  BY <1>2, <1>3 DEF Box
<1>5. /\ box.data = {} /\ box.sel = {} /\ box.hidden = {} /\ box.unread = 0 /\ box.rows = <<>> /\ DOMAIN box.rows = {}
  BY <1>2
<1>6. Shown(box) = {} /\ Keys(box) = {} /\ UnreadDigests(box) = {}
  BY <1>5 DEF Shown, Keys, UnreadDigests, UnreadRows
<1>7. Good(kind, box)
  <2>1. Distinct(box) /\ Saved(box)
    BY <1>5 DEF Distinct, Saved
  <2>2. Exact(box)
    BY <1>5, <1>6, FS_EmptySet DEF Exact
  <2> QED BY <1>4, <1>5, <2>1, <2>2 DEF Good
<1>8. Linked(kind, box, notes, stored, missed)
  <2>1. box.data \subseteq 1..0 /\ Shown(box) = box.data /\ Keys(box) = box.data
    BY <1>5, <1>6
  <2> QED BY <1>2, <1>3, <1>7, <2>1, LinkedQuiet
<1>9. \A e \in Editors : editors[e] = Closed
  BY <1>2
<1>10. \A e \in Editors : editors[e].digest <= stored
  BY <1>2, <1>9, ClosedFacts
<1>11. editors \in [Editors -> EditorState]
  BY <1>2, ClosedFacts
<1> QED BY <1>2, <1>8, <1>10, <1>11 DEF FolderInv

\* A step that only drops messages or changes marks, the editors keeping still.
LEMMA DroppedStep ==
  ASSUME FolderInv, Dropped(kind, box, box'), UNCHANGED <<kind, notes, editors, stored, missed>>,
         asked' \subseteq Digests
  PROVE  FolderInv'
<1>1. Linked(kind, box, notes, stored, missed)
  BY DEF FolderInv
<1>2. Linked(kind, box', notes, stored, missed)
  BY <1>1, LinkedDrops
<1> QED BY <1>2 DEF FolderInv

\* Reading the database again, after a crash or at the start.
LEMMA ReopenFacts ==
  ASSUME FolderInv, NEW b, Dropped(kind, box, b), Reopen(b)
  PROVE  FolderInv'
<1>1. PICK order \in SetToSeqs(Stored(b)) : box' = Opened(b, order)
  BY DEF Reopen
<1>2. /\ notes' = <<>> /\ editors' = [e \in Editors |-> Closed] /\ asked' = {}
      /\ kind' = kind /\ stored' = stored /\ missed' = {}
  BY DEF Reopen
<1>3. Good(kind, b) /\ b.data \subseteq 1..stored /\ stored \in 0..MaxMsgs
  <2>1. Linked(kind, box, notes, stored, missed)
    BY DEF FolderInv
  <2>2. Linked(kind, b, notes, stored, missed)
    BY <2>1, LinkedDrops
  <2> QED BY <2>2 DEF Linked, Known
<1>4. Good(kind, box') /\ Shown(box') = b.data /\ Keys(box') = b.data /\ (box').data = b.data
  BY <1>1, <1>3, OpenedFacts
<1>5. Linked(kind, box', <<>>, stored, {})
  BY <1>3, <1>4, LinkedQuiet
<1>6. editors' \in [Editors -> EditorState] /\ \A e \in Editors : editors'[e] = Closed
  BY <1>2, ClosedFacts
<1>7. \A e \in Editors : editors'[e].digest <= stored
  BY <1>3, <1>6, ClosedFacts
<1> QED BY <1>2, <1>5, <1>6, <1>7 DEF FolderInv

\* One editor changes, to a message stored; the folder may change with it.
LEMMA EditorStep ==
  ASSUME FolderInv, NEW e \in Editors, NEW w \in EditorState, editors' = [editors EXCEPT ![e] = w],
         w.digest <= stored', stored <= stored', stored' \in 0..MaxMsgs,
         Linked(kind, box', notes', stored', missed'), UNCHANGED <<kind, asked, missed>>
  PROVE  FolderInv'
<1>1. editors \in [Editors -> EditorState] /\ (\A x \in Editors : editors[x].digest <= stored)
      /\ stored \in 0..MaxMsgs /\ MaxMsgs \in Nat
  BY FolderBoundsAssumption DEF FolderInv, Linked
<1>2. editors' \in [Editors -> EditorState]
  BY <1>1
<1>3. \A x \in Editors : editors'[x] = w \/ editors'[x] = editors[x]
  BY <1>1
<1>4. \A x \in Editors : editors[x].digest \in 0..MaxMsgs
  BY <1>1 DEF EditorState
<1>5. \A x \in Editors : editors'[x].digest <= stored'
  <2> SUFFICES ASSUME NEW x \in Editors PROVE editors'[x].digest <= stored'
    OBVIOUS
  <2>1. editors[x].digest <= stored'
    BY <1>1, <1>4
  <2> QED BY <1>3, <2>1
<1> QED BY <1>2, <1>5 DEF FolderInv

\* A message arrives.
LEMMA ArriveStep ==
  ASSUME FolderInv, Arrive PROVE FolderInv'
<1> DEFINE d == stored + 1
           mark == IF kind = "sent" THEN "read" ELSE "unread"
           h == [type |-> "add", digest |-> d, mark |-> mark, old |-> None, oldMark |-> "read"]
           s == store_message(box, d, None)
<1>1. Linked(kind, box, notes, stored, missed) /\ stored \in 0..MaxMsgs /\ MaxMsgs \in Nat /\ box \in Box
  BY FolderBoundsAssumption DEF FolderInv, Linked, Good
<1>2. /\ stored < MaxMsgs /\ stored' = d /\ box' = store_message_header(s, d, mark)
      /\ notes' = Append(notes, h) /\ kind' = kind /\ editors' = editors /\ asked' = asked
      /\ missed' = missed
  BY DEF Arrive, Post
<1>3. d \in Digests /\ d # None /\ d \in Nat /\ mark \in Marks /\ None \in 0..stored
  BY <1>1, <1>2 DEF Digests, None, Marks
<1>4. h \in Note /\ h.digest = d /\ h.mark = mark /\ h.old = None /\ h.type = "add"
  <2> HIDE DEF d, mark
  <2> QED BY <1>3 DEF Note, Marks
<1>5. Stores(box, d, None, "unread", s)
  <2>1. box = [headers |-> box.headers, data |-> box.data, rows |-> box.rows,
               unread |-> box.unread, hidden |-> box.hidden, sel |-> box.sel]
    BY <1>1 DEF Box
  <2> HIDE DEF d
  <2> QED BY <2>1, StoreFields
<1> HIDE DEF h, s, d, mark
<1>6. Stores(box, d, None, mark, box')
  <2> DEFINE H == [x \in Digests |-> IF x = d THEN "unread" ELSE IF x = None THEN "none"
                                     ELSE box.headers[x]]
             K == [x \in Digests |-> IF x = d THEN mark ELSE IF x = None THEN "none"
                                     ELSE box.headers[x]]
  <2>1. s.headers = H
    BY <1>5 DEF Stores
  <2>2. [H EXCEPT ![d] = mark] = K
    BY <1>3
  <2>3. box' = [s EXCEPT !.headers[d] = mark]
    BY <1>2 DEF store_message_header
  <2> HIDE DEF H, K
  <2>4. box' = [s EXCEPT !.headers = K]
    BY <2>1, <2>2, <2>3
  <2>5. box' = [headers |-> K, data |-> s.data, rows |-> s.rows, unread |-> s.unread,
                hidden |-> s.hidden, sel |-> s.sel]
    BY <1>5, <2>4 DEF Stores
  <2> QED BY <1>5, <2>5 DEF Stores, K
<1>7. Linked(kind, box', Append(notes, h), d, missed)
  <2>1. d = stored + 1
    BY DEF d
  <2> QED BY <1>1, <1>2, <1>3, <1>4, <1>6, <2>1, LinkedStores
<1>8. \A e \in Editors : editors[e].digest \in 0..MaxMsgs /\ editors[e].digest <= stored
  BY DEF FolderInv, EditorState
<1>9. \A e \in Editors : editors[e].digest <= d
  BY <1>1, <1>8 DEF d
<1> QED BY <1>2, <1>7, <1>9 DEF FolderInv

\* The mail sent leaves the Outbox.
LEMMA MoveToSentStep ==
  ASSUME FolderInv, MoveToSent PROVE FolderInv'
<1>1. Linked(kind, box, notes, stored, missed) /\ box \in Box /\ stored \in 0..MaxMsgs
      /\ (\A d \in box.data : box.headers[d] # "none") /\ box.data \subseteq 1..stored
  BY DEF FolderInv, Linked, Good, Known
<1>2. PICK d \in Stored(box) : Post("remove", None, "read", d, box.headers[d])
                               /\ box' = remove_message(box, d)
  BY DEF MoveToSent
<1> DEFINE h == [type |-> "remove", digest |-> None, mark |-> "read",
                 old |-> d, oldMark |-> box.headers[d]]
<1>3. d \in Digests /\ d \in 0..stored /\ box.headers[d] \in Marks
  <2>1. d \in box.data
    BY DEF Stored
  <2>2. d \in 1..stored /\ d \in Digests /\ box.headers[d] \in Marks \union {"none"}
    BY <1>1, <2>1, BoxFields
  <2> QED BY <1>1, <2>1, <2>2
<1>4. h \in Note /\ h.digest = None /\ h.old = d /\ h.type = "remove"
  BY <1>3 DEF Note, Marks
<1>5. notes' = Append(notes, h)
  BY <1>2 DEF Post
<1>6. Leaves(box, d, box')
  BY <1>1, <1>2 DEF remove_message, Leaves, Box
<1> HIDE DEF h
<1>7. Linked(kind, box', notes', stored, missed)
  BY <1>1, <1>3, <1>4, <1>5, <1>6, LinkedRemoves
<1>8. kind' = kind /\ editors' = editors /\ asked' = asked /\ stored' = stored
      /\ missed' = missed
  BY DEF MoveToSent
<1> QED BY <1>7, <1>8 DEF FolderInv

\* The editors: a window opens or closes.
LEMMA WindowStep ==
  ASSUME FolderInv, NEW e \in Editors, NewEditor(e) \/ OpenDraft(e) \/ CloseEditor(e)
  PROVE  FolderInv'
<1>1. Linked(kind, box, notes, stored, missed) /\ box \in Box /\ stored \in 0..MaxMsgs /\ stored \in Nat
      /\ MaxMsgs \in Nat /\ Shown(box) \subseteq 1..stored
  BY FolderBoundsAssumption DEF FolderInv, Linked, Good, Known
<1>2. UNCHANGED <<kind, box, notes, asked, stored, missed>>
  BY DEF NewEditor, OpenDraft, CloseEditor
<1>3. PICK w \in EditorState : editors' = [editors EXCEPT ![e] = w] /\ w.digest <= stored
  <2>1. CASE NewEditor(e)
    <3> DEFINE w == [Closed EXCEPT !.open = TRUE]
    <3>1. w \in EditorState /\ w.digest = Closed.digest
      <4> HIDE DEF Closed
      <4> QED BY ClosedFacts DEF EditorState
    <3>2. editors' = [editors EXCEPT ![e] = w]
      BY <2>1 DEF NewEditor
    <3> HIDE DEF w
    <3>3. w.digest <= stored
      BY <1>1, <3>1, ClosedFacts
    <3> QED BY <3>1, <3>2, <3>3
  <2>2. CASE OpenDraft(e)
    <3>1. PICK i \in DOMAIN box.rows : editors' = [editors EXCEPT ![e] =
            [open |-> TRUE, digest |-> box.rows[i].digest, mark |-> box.rows[i].mark]]
      BY <2>2 DEF OpenDraft
    <3> DEFINE w == [open |-> TRUE, digest |-> box.rows[i].digest, mark |-> box.rows[i].mark]
    <3>2. box.rows[i].digest \in 1..stored /\ box.rows[i].mark \in Marks
      BY <1>1, BoxFields DEF Shown
    <3>3. box.rows[i].digest \in 0..MaxMsgs /\ box.rows[i].digest <= stored
      BY <1>1, <3>2
    <3>4. w \in EditorState /\ w.digest <= stored
      BY <3>2, <3>3 DEF EditorState
    <3> HIDE DEF w
    <3> QED BY <3>1, <3>4 DEF w
  <2>3. CASE CloseEditor(e)
    <3>1. editors' = [editors EXCEPT ![e] = Closed]
      BY <2>3 DEF CloseEditor
    <3>2. Closed.digest <= stored
      BY <1>1, ClosedFacts
    <3> QED BY <3>1, <3>2, ClosedFacts
  <2> QED BY <2>1, <2>2, <2>3
<1>4. Linked(kind, box', notes', stored', missed') /\ w.digest <= stored' /\ stored <= stored'
      /\ stored' \in 0..MaxMsgs
  BY <1>1, <1>2, <1>3
<1> QED BY <1>2, <1>3, <1>4, EditorStep

\* A draft is saved, in place of the one the editor holds.
LEMMA SaveStep ==
  ASSUME FolderInv, NEW e \in Editors, Save(e) PROVE FolderInv'
<1> DEFINE d == stored + 1
           old == editors[e].digest
           w == [open |-> TRUE, digest |-> d, mark |-> "unread"]
<1>1. Linked(kind, box, notes, stored, missed) /\ stored \in 0..MaxMsgs /\ MaxMsgs \in Nat /\ box \in Box
  BY FolderBoundsAssumption DEF FolderInv, Linked, Good
<1>2. /\ kind = "drafts" /\ stored < MaxMsgs /\ stored' = d /\ box' = store_message(box, d, old)
      /\ editors' = [editors EXCEPT ![e] = w] /\ kind' = kind /\ asked' = asked
      /\ missed' = missed
  BY DEF Save, Edits
<1>3. old \in 0..MaxMsgs /\ old <= stored /\ editors[e].mark \in Marks
  BY DEF FolderInv, EditorState
<1>4. d \in Digests /\ old \in 0..stored /\ old \in Digests \union {None} /\ "unread" \in Marks
      /\ "read" \in Marks /\ d \in 0..MaxMsgs /\ stored <= d /\ d <= d
  BY <1>1, <1>2, <1>3 DEF Digests, None, Marks
<1>5. Stores(box, d, old, "unread", box')
  <2>1. box = [headers |-> box.headers, data |-> box.data, rows |-> box.rows,
               unread |-> box.unread, hidden |-> box.hidden, sel |-> box.sel]
    BY <1>1 DEF Box
  <2> HIDE DEF d, old
  <2> QED BY <1>2, <2>1, StoreFields
<1>6. w \in EditorState /\ w.digest = d
  <2> HIDE DEF d
  <2> QED BY <1>4 DEF EditorState
<1>7. PICK h \in Note : /\ h.digest = d /\ h.mark = "unread" /\ h.old = old
                        /\ h.type = "add" \/ (h.type = "replace" /\ kind = "drafts")
                        /\ notes' = Append(notes, h)
  <2>1. CASE old = None
    <3> DEFINE h == [type |-> "add", digest |-> d, mark |-> "unread", old |-> None, oldMark |-> "read"]
    <3>1. notes' = Append(notes, h)
      BY <2>1 DEF Save, Post
    <3> HIDE DEF d, old
    <3>2. h \in Note /\ h.digest = d /\ h.mark = "unread" /\ h.old = old /\ h.type = "add"
      BY <1>4, <2>1 DEF Note
    <3> HIDE DEF h
    <3> QED BY <3>1, <3>2
  <2>2. CASE old # None
    <3> DEFINE h == [type |-> "replace", digest |-> d, mark |-> "unread", old |-> old,
                     oldMark |-> editors[e].mark]
    <3>1. notes' = Append(notes, h)
      BY <2>2 DEF Save, Post
    <3> HIDE DEF d, old
    <3>2. h \in Note /\ h.digest = d /\ h.mark = "unread" /\ h.old = old /\ h.type = "replace"
      BY <1>3, <1>4, <2>2 DEF Note
    <3> HIDE DEF h
    <3> QED BY <1>2, <3>1, <3>2
  <2> QED BY <2>1, <2>2
<1>8. d = stored + 1
  OBVIOUS
<1> HIDE DEF d, old, w
<1>9. Linked(kind, box', notes', d, missed')
  BY <1>1, <1>2, <1>4, <1>5, <1>7, <1>8, LinkedStores
<1> QED BY <1>2, <1>4, <1>6, <1>9, EditorStep

\* A mail is sent: the notification that removes its draft is posted.
LEMMA SendStep ==
  ASSUME FolderInv, NEW e \in Editors, Send(e) PROVE FolderInv'
<1> DEFINE old == editors[e].digest
           h == [type |-> "remove", digest |-> None, mark |-> "read", old |-> old,
                 oldMark |-> editors[e].mark]
<1>1. Linked(kind, box, notes, stored, missed) /\ stored \in 0..MaxMsgs /\ MaxMsgs \in Nat
  BY FolderBoundsAssumption DEF FolderInv, Linked
<1>2. /\ notes' = Append(notes, h) /\ editors' = [editors EXCEPT ![e] = Closed]
      /\ kind' = kind /\ box' = box /\ asked' = asked /\ stored' = stored
      /\ missed' = missed
  BY DEF Send, Post
<1>3. old \in 0..MaxMsgs /\ old <= stored /\ editors[e].mark \in Marks
  BY DEF FolderInv, EditorState
<1>4. old \in 0..stored /\ old \in Digests \union {None} /\ "read" \in Marks
  BY <1>1, <1>3 DEF Digests, None, Marks
<1>5. h \in Note /\ h.digest = None /\ h.old = old /\ h.type = "remove"
  <2> HIDE DEF old
  <2> QED BY <1>3, <1>4 DEF Note
<1> HIDE DEF h, old
<1>6. Linked(kind, box', notes', stored', missed')
  BY <1>1, <1>2, <1>4, <1>5, LinkedRemoves
<1>7. Closed.digest <= stored' /\ stored <= stored' /\ stored' \in 0..MaxMsgs
  BY <1>1, <1>2, ClosedFacts
<1> QED BY <1>2, <1>6, <1>7, ClosedFacts, EditorStep

\* An identity is deleted: its drafts are saved again, its mails leave the Outbox.
LEMMA IdentityDeleteStep ==
  ASSUME FolderInv, onIdentityDelete PROVE FolderInv'
<1>1. Linked(kind, box, notes, stored, missed) /\ Good(kind, box) /\ stored \in 0..MaxMsgs
      /\ asked \subseteq Digests
  BY DEF FolderInv, Linked
<1>2. kind' = kind /\ editors' = editors /\ asked' = asked /\ missed' = missed
  BY DEF onIdentityDelete
<1>3. PICK S \in SUBSET DOMAIN box.rows \ {{}} :
        \/ LET after == SaveAgain(S)
           IN  /\ kind = "drafts"
               /\ after.stored <= MaxMsgs
               /\ Len(after.notes) <= MaxNotes
               /\ box' = after.box
               /\ notes' = after.notes
               /\ stored' = after.stored
        \/ /\ kind = "outbox"
           /\ box' = RemoveAll(box, S)
           /\ UNCHANGED <<notes, stored>>
  BY DEF onIdentityDelete
<1>4. CASE kind = "outbox" /\ box' = RemoveAll(box, S) /\ UNCHANGED <<notes, stored>>
  <2>1. Dropped(kind, box, box')
    BY <1>1, <1>4, RemoveAllFacts
  <2> QED BY <1>1, <1>2, <1>4, <2>1, DroppedStep
<1> DEFINE after == SaveAgain(S)
<1>5. CASE /\ kind = "drafts" /\ after.stored <= MaxMsgs
           /\ box' = after.box /\ notes' = after.notes /\ stored' = after.stored
  <2>1. Linked("drafts", box, notes, stored, missed)
    BY <1>1, <1>5
  <2>2. Linked("drafts", after.box, after.notes, after.stored, missed) /\ after.stored >= stored
    <3> HIDE DEF after
    <3>1. after = SaveAgain(S)
      BY DEF after
    <3> QED BY <1>5, <2>1, <3>1, SaveAgainFacts
  <2> HIDE DEF after
  <2>3. Linked(kind', box', notes', stored', missed') /\ stored' >= stored
    BY <1>2, <1>5, <2>2
  <2>4. stored' \in 0..MaxMsgs
    BY <2>3 DEF Linked
  <2>5. \A e \in Editors : editors[e].digest \in 0..MaxMsgs /\ editors[e].digest <= stored
    BY DEF FolderInv, EditorState
  <2>6. \A e \in Editors : editors[e].digest <= stored'
    BY <1>1, <2>3, <2>4, <2>5
  <2> QED BY <1>2, <2>3, <2>6 DEF FolderInv
<1> QED BY <1>3, <1>4, <1>5

\* The user searches, selects, marks as unread, deletes.
LEMMA UserStep ==
  ASSUME FolderInv,
         searchEditChanged \/ Select \/ onMarkAsUnreadMail \/ AskDelete \/ CancelDelete
         \/ ConfirmDelete
  PROVE  FolderInv'
<1>1. Good(kind, box) /\ asked \subseteq Digests /\ box \in Box
  BY DEF FolderInv, Linked, Good
<1>2. CASE Select
  <2>1. PICK keys \in SUBSET (Keys(box) \ box.hidden) : box' = onSelectionChanged(box, keys)
    BY <1>2 DEF Select
  <2>2. Good(kind, box') /\ Repaints(box, box')
    BY <1>1, <2>1, SelectFacts
  <2>3. Dropped(kind, box, box')
    BY <2>2, RepaintedIsDropped
  <2> QED BY <1>1, <1>2, <2>3, DroppedStep DEF Select
<1>3. CASE onMarkAsUnreadMail
  <2>1. Dropped(kind, box, box')
    BY <1>1, <1>3, MarkUnreadFacts
  <2>2. UNCHANGED <<kind, notes, editors, asked, stored, missed>>
    BY <1>3 DEF onMarkAsUnreadMail
  <2> QED BY <1>1, <2>1, <2>2, DroppedStep
<1>4. CASE AskDelete \/ CancelDelete
  <2>1. \A i \in DOMAIN box.rows : box.rows[i].key \in box.sel => i \in InView(box)
    BY <1>1 DEF Good, InView
  <2>2. \A i \in InView(box) : Place(box, i) \in Digests
    BY <1>1, PlaceFacts
  <2>3. asked' \subseteq Digests
    BY <1>4, <2>1, <2>2 DEF AskDelete, CancelDelete
  <2>4. box' = box /\ UNCHANGED <<kind, notes, editors, stored, missed>>
    BY <1>4 DEF AskDelete, CancelDelete
  <2>5. Dropped(kind, box, box')
    BY <1>1, <2>4, RepaintedIsDropped
  <2> QED BY <2>3, <2>4, <2>5, DroppedStep
<1>5. CASE ConfirmDelete
  <2> DEFINE last == CHOOSE i \in asked : \A j \in asked : j <= i
             S == RowsAt(box, asked)
             c == RemoveAll(box, S)
  <2>1. asked' = {} /\ box' = selectNextRow(c, last, Cardinality(asked))
    BY <1>5 DEF ConfirmDelete
  <2>2. UNCHANGED <<kind, notes, editors, stored, missed>>
    BY <1>5 DEF ConfirmDelete
  <2> HIDE DEF last, S
  <2>4. Dropped(kind, box, c)
    BY <1>1, RemoveAllFacts
  <2> HIDE DEF c
  <2>5. Good(kind, c)
    BY <2>4 DEF Dropped
  <2>6. Dropped(kind, c, box')
    BY <2>1, <2>5, SelectNextFacts
  <2>7. Dropped(kind, box, box')
    BY <2>4, <2>6, DroppedAgain
  <2> QED BY <2>1, <2>2, <2>7, DroppedStep
<1>6. CASE searchEditChanged
  <2>1. PICK H \in SUBSET (Keys(box) \intersect Hideable) : box' = FilteredOut(box, H)
    BY <1>6 DEF searchEditChanged
  <2>2. Dropped(kind, box, box')
    BY <1>1, <2>1, FilteredFacts
  <2> QED BY <1>1, <1>6, <2>2, DroppedStep DEF searchEditChanged
<1> QED BY <1>2, <1>3, <1>4, <1>5, <1>6

\* The process stops and starts again.
LEMMA RestartStep ==
  ASSUME FolderInv, Restart \/ ConfirmDeletePastEnd PROVE FolderInv'
<1>1. Good(kind, box)
  BY DEF FolderInv, Linked
<1>2. CASE Restart
  <2>1. Dropped(kind, box, box)
    BY <1>1, RepaintedIsDropped
  <2> QED BY <1>2, <2>1, ReopenFacts DEF Restart
<1>3. CASE ConfirmDeletePastEnd
  <2> DEFINE S == RowsAt(box, asked)
             b == RemoveAll(box, S)
  <2>1. Dropped(kind, box, b)
    <3> HIDE DEF S
    <3> QED BY <1>1, RemoveAllFacts
  <2>2. Reopen(b)
    BY <1>3 DEF ConfirmDeletePastEnd
  <2> HIDE DEF b, S
  <2> QED BY <2>1, <2>2, ReopenFacts
<1> QED BY <1>2, <1>3

\* The first notification is delivered.
LEMMA DeliverStep ==
  ASSUME FolderInv, DeliverNote PROVE FolderInv'
<1>1. Linked(kind, box, notes, stored, missed)
  BY DEF FolderInv
<1>2. notes # <<>> /\ notes' = Tail(notes) /\ Head(notes) = notes[1]
  BY <1>1 DEF DeliverNote, Linked
<1>3. UNCHANGED <<kind, editors, asked, stored>>
  BY DEF DeliverNote
<1>4. PICK p \in 1..(Len(box.rows) + 1), out \in BOOLEAN :
        box' = IF kind = "inbox" THEN Delivered(notes[1], [p |-> p, out |-> out])
               ELSE refreshMessageViewer(Delivered(notes[1], [p |-> p, out |-> out]))
  BY <1>2 DEF DeliverNote
<1> DEFINE at == [p |-> p, out |-> out]
           c == Delivered(notes[1], at)
<1>5. Handles(kind, box, c, notes[1])
  <2>1. at.p \in 1..(Len(box.rows) + 1)
    OBVIOUS
  <2> HIDE DEF at
  <2> QED BY <1>1, <1>2, <2>1, DeliverFacts
<1> HIDE DEF c
<1>10. missed' = IF kind # "drafts" /\ notes[1].type = "remove" /\ Hides(box, notes[1].old)
                 THEN missed \union {notes[1].old} ELSE missed
  BY <1>2 DEF DeliverNote
<1>11. missed \subseteq missed' /\ missed' \subseteq Digests
       /\ (kind # "drafts" /\ notes[1].type = "remove" /\ Hides(box, notes[1].old)
             => notes[1].old \in missed')
  <2>1. box \in Box /\ missed \subseteq Digests
    BY DEF FolderInv, Linked, Good
  <2>2. Hides(box, notes[1].old) => notes[1].old \in Digests
    BY <2>1, BoxFields DEF Hides, RowsOf
  <2> QED BY <1>10, <2>1, <2>2
<1>6. Linked(kind, c, Tail(notes), stored, missed')
  BY <1>1, <1>2, <1>5, <1>11, LinkedHandles
<1>7. Dropped(kind, c, box')
  <2>1. Good(kind, c)
    BY <1>6 DEF Linked
  <2>2. CASE kind = "inbox"
    BY <1>4, <2>1, <2>2, RepaintedIsDropped DEF c
  <2>3. CASE kind # "inbox"
    <3>1. box' = refreshMessageViewer(c)
      BY <1>4, <2>3 DEF c
    <3>2. Good(kind, box') /\ Repaints(c, box')
      BY <2>1, <3>1, RefreshFacts
    <3> QED BY <3>2, RepaintedIsDropped
  <2> QED BY <2>2, <2>3
<1>8. Linked(kind, box', notes', stored, missed')
  BY <1>2, <1>6, <1>7, LinkedDrops
<1> QED BY <1>3, <1>8, <1>11 DEF FolderInv

\* Every step keeps the invariant.
LEMMA FolderStep == FolderInv /\ [Next]_vars => FolderInv'
<1> SUFFICES ASSUME FolderInv, [Next]_vars PROVE FolderInv'
  OBVIOUS
<1>1. CASE Arrive
  BY <1>1, ArriveStep
<1>2. CASE MoveToSent
  BY <1>2, MoveToSentStep
<1>3. ASSUME NEW e \in Editors, NewEditor(e) \/ OpenDraft(e) \/ CloseEditor(e) PROVE FolderInv'
  BY <1>3, WindowStep
<1>4. ASSUME NEW e \in Editors, Save(e) PROVE FolderInv'
  BY <1>4, SaveStep
<1>5. ASSUME NEW e \in Editors, Send(e) PROVE FolderInv'
  BY <1>5, SendStep
<1>6. CASE onIdentityDelete
  BY <1>6, IdentityDeleteStep
<1>7. CASE searchEditChanged \/ Select \/ onMarkAsUnreadMail \/ AskDelete \/ CancelDelete
           \/ ConfirmDelete
  BY <1>7, UserStep
<1>8. CASE ConfirmDeletePastEnd \/ Restart
  BY <1>8, RestartStep
<1>9. CASE DeliverNote
  BY <1>9, DeliverStep
<1>10. CASE UNCHANGED vars
  BY <1>10 DEF vars, FolderInv
<1> QED BY <1>1, <1>2, <1>3, <1>4, <1>5, <1>6, <1>7, <1>8, <1>9, <1>10 DEF Next

-----------------------------------------------------------------------------
(* The theorems.                                                           *)

\* The invariant holds in every reachable state.
THEOREM FolderAlwaysLinked == Spec => []FolderInv
BY FolderInit, FolderStep, PTL DEF Spec

\* TypeOK: the types of the state; the selection holds rows that are there, and no
\* two rows share a message or an entry of _digest2headers.
THEOREM FolderTypes == Spec => []TypeOK
<1>1. FolderInv => TypeOK
  <2> SUFFICES ASSUME FolderInv PROVE TypeOK
    OBVIOUS
  <2>1. Good(kind, box) /\ box \in Box /\ notes \in Seq(Note) /\ stored \in 0..MaxMsgs
    BY DEF FolderInv, Linked, Good
  <2>2. editors \in [Editors -> [open: BOOLEAN, digest: 0..MaxMsgs, mark: Marks]]
    BY DEF FolderInv, EditorState
  <2> QED BY <2>1, <2>2, BoxFields DEF TypeOK, FolderInv, Good, Distinct
<1> QED BY <1>1, FolderAlwaysLinked, PTL

\* StoredIsShown: whatever is saved, sent, deleted and replaced in whatever order, a
\* message of the database has its row or a notification that will add it.
THEOREM StoredStaysShown == Spec => []StoredIsShown
<1>1. FolderInv => StoredIsShown
  BY DEF FolderInv, Linked, Covered, StoredIsShown, Stored
<1> QED BY <1>1, FolderAlwaysLinked, PTL

\* ShownIsStored: outside Drafts, with every notification delivered, a row has its
\* message in the database, or the search hid it when its removal was announced and
\* removeMessage did nothing.
THEOREM ShownStaysStored == Spec => []ShownIsStored
<1>1. FolderInv => ShownIsStored
  <2> SUFFICES ASSUME FolderInv, kind # "drafts", notes = <<>>, NEW d \in Shown(box) \ Stored(box)
               PROVE  d \in missed
    BY DEF ShownIsStored
  <2>1. DOMAIN notes = {}
    OBVIOUS
  <2>2. d \notin box.data
    BY DEF FolderInv, Linked, Good, Stored
  <2> QED BY <2>1, <2>2 DEF FolderInv, Linked, RowsLeave
<1> QED BY <1>1, FolderAlwaysLinked, PTL

\* UnreadIsCount: outside Drafts the counter beside the folder's name is the number
\* of rows shown as unread; the unsigned arithmetic never wraps.
THEOREM UnreadCountRight == Spec => []UnreadIsCount
<1>1. FolderInv => UnreadIsCount
  <2> SUFFICES ASSUME FolderInv, kind # "drafts"
               PROVE  box.unread = Cardinality(UnreadRows(box))
    BY DEF UnreadIsCount
  <2>1. Good(kind, box) /\ Exact(box)
    BY DEF FolderInv, Linked, Good
  <2> QED BY <2>1, UnreadRowsCounted DEF Exact
<1> QED BY <1>1, FolderAlwaysLinked, PTL

\* MarksAreSaved: the mark a row shows is the one in the database.
THEOREM MarksStaySaved == Spec => []MarksAreSaved
<1>1. FolderInv => MarksAreSaved
  BY DEF FolderInv, Linked, Good, Saved, MarksAreSaved
<1> QED BY <1>1, FolderAlwaysLinked, PTL

\* RemovalTakesEffect: the notification that removes a message takes it out of the
\* database, unless the search hides its row; a stored message always has its row by
\* then.
THEOREM RemovalWorks == Spec => RemovalTakesEffect
<1> DEFINE Works == DeliverNote /\ Head(notes).type = "remove" =>
                      Head(notes).old \notin (box').data \/ Hides(box, Head(notes).old)
<1>1. ASSUME FolderInv, DeliverNote, Head(notes).type = "remove", ~Hides(box, Head(notes).old)
      PROVE  Head(notes).old \notin (box').data
  <2> DEFINE h == Head(notes)
  <2>1. Linked(kind, box, notes, stored, missed) /\ Good(kind, box)
    BY <1>1 DEF FolderInv, Linked
  <2>2. notes # <<>> /\ notes \in Seq(Note) /\ 1 \in DOMAIN notes /\ h = notes[1]
    BY <1>1, <2>1, TailFacts DEF DeliverNote, Linked
  <2>3. PICK p \in 1..(Len(box.rows) + 1), out \in BOOLEAN :
          box' = IF kind = "inbox" THEN Delivered(h, [p |-> p, out |-> out])
                 ELSE refreshMessageViewer(Delivered(h, [p |-> p, out |-> out]))
    BY <1>1 DEF DeliverNote
  <2> DEFINE c == removeMessage(box, h.old)
  <2>4. Delivered(h, [p |-> p, out |-> out]) = c
    BY <1>1 DEF Delivered
  <2> HIDE DEF h
  <2>5. Good(kind, c) /\ Drops(box, c, IF Hides(box, h.old) THEN {} ELSE {h.old} \intersect Shown(box))
    BY <2>1, RemoveMessageFacts
  <2>6. ~Hides(box, h.old)
    BY <1>1 DEF h
  <2>7. h.old \in box.data => h.old \in Shown(box)
    BY <1>1, <2>1, <2>2 DEF Linked, Finds, h
  <2> HIDE DEF c
  <2>8. h.old \notin c.data
    BY <2>5, <2>6, <2>7 DEF Drops
  <2>9. CASE kind = "inbox"
    BY <2>3, <2>4, <2>8, <2>9 DEF h
  <2>10. CASE kind # "inbox"
    <3>1. box' = refreshMessageViewer(c)
      BY <2>3, <2>4, <2>10
    <3>2. Repaints(c, box')
      BY <2>5, <3>1, RefreshFacts
    <3> QED BY <2>8, <3>2 DEF Repaints, h
  <2> QED BY <2>9, <2>10
<1>2. FolderInv /\ [Next]_vars => [Works]_vars
  BY <1>1
<1> QED BY <1>2, FolderAlwaysLinked, PTL DEF Spec, RemovalTakesEffect
=============================================================================
