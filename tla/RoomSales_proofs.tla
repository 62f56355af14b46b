-------------------------- MODULE RoomSales_proofs --------------------------
(***************************************************************************)
(* For every season, every set of sales and every length of the event log: *)
(* the sales table tells the same board as the log, and with its unique    *)
(* index nobody is drafted twice.  The invariants of the room are taken    *)
(* from LiveDraftRoom_proofs, whose steps the composed specification       *)
(* takes.                                                                  *)
(*                                                                         *)
(* The inductive invariant adds that corrections name older events, of     *)
(* whose sales they keep a copy, that at most one correction of an event   *)
(* is not undone, and that no sale of the log is of a keeper.              *)
(***************************************************************************)
EXTENDS RoomSales, LiveDraftRoom_proofs

SaleTypes == {"sale_logged", "sale_corrected"}
RowStatuses == {"none", "active", "corrected", "voided"}

RowsTyped ==
    /\ sales \in Seq(RowStatuses)
    /\ Len(sales) = Len(events)
    /\ \A i \in DOMAIN events : sales[i] # "none" => events[i].type \in SaleTypes

\* A correction names an older sale or correction and keeps its sale.
CorrectionsLookBack ==
    \A c \in DOMAIN events : events[c].type = "sale_corrected" =>
        /\ events[c].corrected \in 1..(c - 1)
        /\ events[events[c].corrected].type \in SaleTypes
        /\ events[events[c].corrected].sale = events[c].previous

ActiveRowsAreSources ==
    /\ \A k \in ActiveIndices(activeSales) :
        /\ activeSales[k].source \in DOMAIN events
        /\ sales[activeSales[k].source] = "active"
        /\ activeSales[k].sale = events[activeSales[k].source].sale
    /\ \A e \in DOMAIN events : sales[e] = "active" =>
        \E k \in ActiveIndices(activeSales) : activeSales[k].source = e

\* A correction of an event that is not undone.
Corrects(log, rows, c, e) ==
    /\ log[c].type = "sale_corrected" /\ log[c].corrected = e
    /\ rows[c] \in {"active", "corrected"}

CorrectedRows ==
    \A e \in DOMAIN events :
        /\ sales[e] = "corrected" <=> \E c \in DOMAIN events : Corrects(events, sales, c, e)
        /\ \A c, d \in DOMAIN events :
            Corrects(events, sales, c, e) /\ Corrects(events, sales, d, e) => c = d

TableInv ==
    /\ RowsTyped
    /\ CorrectionsLookBack
    /\ ActiveRowsAreSources
    /\ CorrectedRows

\* No sale ever recorded is of a keeper, and before the start there are none.
KeepersApart ==
    /\ status \in NotStarted \cup {"none"} =>
        \A i \in DOMAIN events : events[i].type \notin SaleTypes
    /\ \A i \in DOMAIN events, j \in DOMAIN initialRosters :
        events[i].type \in SaleTypes => events[i].sale.player # initialRosters[j].player

SalesInv ==
    /\ RoomInv /\ PlayersInv
    /\ TableInv /\ KeepersApart
    /\ ActivePlayerKey(sales, events)

-----------------------------------------------------------------------------
(* The table after a step, row by row.                                     *)

\* Appending a row to a table whose rows may have changed.
LEMMA AppendedRow ==
    ASSUME NEW rows \in Seq(RowStatuses), NEW row \in RowStatuses
    PROVE  /\ Append(rows, row) \in Seq(RowStatuses)
           /\ Len(Append(rows, row)) = Len(rows) + 1
           /\ Append(rows, row)[Len(rows) + 1] = row
           /\ \A i \in 1..Len(rows) : Append(rows, row)[i] = rows[i]
  OBVIOUS

\* A committed event is the one the table is changed for.
LEMMA CommittedRows ==
    ASSUME RoomInv, RowsTyped, NEW newStatus, NEW event \in Events, Commit(newStatus, event),
           PersistSaleProjection
    PROVE  /\ sales' = RowsAfter(sales, events')
           /\ events'[Len(events')] = event
           /\ \A i \in DOMAIN events : events'[i] = events[i]
           /\ DOMAIN events' = DOMAIN events \cup {revision'}
           /\ revision' = Len(events) + 1 /\ revision' \in Nat
           /\ revision' \notin DOMAIN events
           /\ events'[revision'] = event
           /\ events \in Seq(Events)
           /\ DOMAIN events = 1..Len(events)
           /\ Len(sales) + 1 = revision'
           /\ Len(events') = revision'
           /\ ActivePlayerKey(sales', events')
<1>1. TypeOK
  BY DEF RoomInv, BoardInv
<1>2. /\ events \in Seq(Events) /\ Len(events) = revision /\ Len(sales) = Len(events)
      /\ events' \in Seq(Events) /\ Len(events') = revision' /\ revision' = Len(events) + 1
  BY <1>1, CommitLog DEF TypeOK, RowsTyped
<1>3. events' # << >>
  BY <1>2
<1>4. sales' = RowsAfter(sales, events') /\ ActivePlayerKey(sales', events')
  BY <1>3 DEF PersistSaleProjection
<1>5. /\ \A i \in DOMAIN events : events'[i] = events[i]
      /\ DOMAIN events' = DOMAIN events \cup {revision'}
      /\ revision' \notin DOMAIN events
      /\ events'[revision'] = event
  BY <1>1, CommitLog
<1> QED
  BY <1>2, <1>4, <1>5

\* The first conjuncts of the invariant after an event that adds a row.
LEMMA RowsStayTyped ==
    ASSUME RoomInv, RowsTyped, NEW newStatus, NEW event \in Events, Commit(newStatus, event),
           NEW rows \in Seq(RowStatuses), NEW row \in RowStatuses,
           Len(rows) = Len(events),
           \A i \in DOMAIN events : rows[i] # "none" => sales[i] # "none",
           row # "none" => event.type \in SaleTypes,
           sales' = Append(rows, row), PersistSaleProjection
    PROVE  /\ RowsTyped'
           /\ sales'[revision'] = row
           /\ \A i \in DOMAIN events : sales'[i] = rows[i]
<1>1. /\ \A i \in DOMAIN events : events'[i] = events[i]
      /\ DOMAIN events' = DOMAIN events \cup {revision'}
      /\ revision' = Len(events) + 1
      /\ events'[revision'] = event
      /\ DOMAIN events = 1..Len(events)
      /\ Len(events') = revision'
  BY CommittedRows
<1>2. /\ sales' \in Seq(RowStatuses)
      /\ Len(sales') = Len(rows) + 1
      /\ sales'[Len(rows) + 1] = row
      /\ \A i \in 1..Len(rows) : sales'[i] = rows[i]
  BY AppendedRow
<1> QED
  BY <1>1, <1>2 DEF RowsTyped

\* An event that is no sale event adds a row that holds nothing.
LEMMA QuietKeepsTable ==
    ASSUME RoomInv, TableInv, NEW newStatus, NEW event \in Events, Commit(newStatus, event),
           event.type \notin SaleEvents, PersistSaleProjection
    PROVE  TableInv'
<1> USE DEF TableInv
<1>1. /\ sales' = RowsAfter(sales, events')
      /\ events'[Len(events')] = event
      /\ \A i \in DOMAIN events : events'[i] = events[i]
      /\ DOMAIN events' = DOMAIN events \cup {revision'}
      /\ revision' \notin DOMAIN events
      /\ events'[revision'] = event
      /\ DOMAIN events = 1..Len(events)
  BY CommittedRows
<1>2. sales' = Append(sales, "none")
  BY <1>1 DEF RowsAfter, SaleEvents
<1>3. /\ RowsTyped'
      /\ sales'[revision'] = "none"
      /\ \A i \in DOMAIN events : sales'[i] = sales[i]
  BY <1>2, RowsStayTyped DEF RowsTyped, RowStatuses
<1>4. CorrectionsLookBack'
  BY <1>1 DEF CorrectionsLookBack, SaleEvents
<1>5. activeSales' = activeSales
  BY QuietCommit DEF RoomInv, BoardInv
<1>6. ActiveRowsAreSources'
  BY <1>1, <1>3, <1>5 DEF ActiveRowsAreSources
<1>7. \A c \in DOMAIN events' : \A e :
          Corrects(events', sales', c, e) <=> c \in DOMAIN events /\ Corrects(events, sales, c, e)
  BY <1>1, <1>3 DEF Corrects
<1>8. \A c \in DOMAIN events : \A e : Corrects(events, sales, c, e) => e # revision'
  BY <1>1 DEF Corrects, CorrectionsLookBack
<1>9. CorrectedRows'
  BY <1>1, <1>3, <1>7, <1>8 DEF CorrectedRows
<1> QED
  BY <1>3, <1>4, <1>6, <1>9

\* The one entry a step writes is of an active row, and the others stay active.
LEMMA EntryPlaced ==
    ASSUME ActiveRowsAreSources,
           DOMAIN events \subseteq DOMAIN events',
           \A i \in DOMAIN events : events'[i] = events[i],
           NEW k, NEW source \in DOMAIN events', sales'[source] = "active",
           ActiveIndices(activeSales') = ActiveIndices(activeSales) \cup {k},
           activeSales'[k] = [source |-> source, sale |-> events'[source].sale],
           \A j \in ActiveIndices(activeSales) \ {k} :
                /\ activeSales'[j] = activeSales[j]
                /\ sales'[activeSales[j].source] = "active",
           \A e \in DOMAIN events' : sales'[e] = "active" =>
                e = source \/ \E j \in ActiveIndices(activeSales) \ {k} : activeSales[j].source = e
    PROVE  ActiveRowsAreSources'
<1>1. activeSales'[k].source = source /\ activeSales'[k].sale = events'[source].sale
  OBVIOUS
<1>2. ASSUME NEW j \in ActiveIndices(activeSales')
      PROVE  /\ activeSales'[j].source \in DOMAIN events'
             /\ sales'[activeSales'[j].source] = "active"
             /\ activeSales'[j].sale = events'[activeSales'[j].source].sale
  <2>1. CASE j = k
    BY <1>1, <2>1
  <2>2. CASE j # k
    <3>1. j \in ActiveIndices(activeSales) /\ activeSales'[j] = activeSales[j]
      BY <2>2
    <3>2. /\ activeSales[j].source \in DOMAIN events
          /\ activeSales[j].sale = events[activeSales[j].source].sale
      BY <3>1 DEF ActiveRowsAreSources
    <3> QED
      BY <2>2, <3>1, <3>2
  <2> QED
    BY <2>1, <2>2
<1>3. ASSUME NEW e \in DOMAIN events', sales'[e] = "active"
      PROVE  \E j \in ActiveIndices(activeSales') : activeSales'[j].source = e
  <2>1. CASE e = source
    BY <1>1, <2>1
  <2>2. CASE e # source
    <3>1. PICK j \in ActiveIndices(activeSales) \ {k} : activeSales[j].source = e
      BY <1>3, <2>2
    <3> QED
      BY <3>1
  <2> QED
    BY <2>1, <2>2
<1> QED
  BY <1>2, <1>3 DEF ActiveRowsAreSources

\* No two active sales have the same source.
LEMMA OneSalePerSource ==
    ASSUME RoomInv, NEW j \in ActiveIndices(activeSales), NEW k \in ActiveIndices(activeSales),
           activeSales[j].source = activeSales[k].source
    PROVE  j = k
<1>1. /\ IndicesOfSource(activeSales, activeSales[j].source) = {j}
      /\ IndicesOfSource(activeSales, activeSales[k].source) = {k}
  BY SourceIndex DEF RoomInv
<1> QED
  BY <1>1

\* A logged sale adds an active row.
LEMMA LogSaleKeepsTable ==
    ASSUME RoomInv, TableInv, NEW sale \in SaleInputs,
           Commit("live", [type |-> "sale_logged", sale |-> sale]), PersistSaleProjection
    PROVE  TableInv'
<1> USE DEF TableInv
<1> DEFINE event == [type |-> "sale_logged", sale |-> sale]
<1>0. event \in Events /\ event.type = "sale_logged" /\ event.sale = sale
  BY DEF Events
<1>1. /\ sales' = RowsAfter(sales, events')
      /\ events'[Len(events')] = event
      /\ \A i \in DOMAIN events : events'[i] = events[i]
      /\ DOMAIN events' = DOMAIN events \cup {revision'}
      /\ revision' \notin DOMAIN events
      /\ events'[revision'] = event
      /\ DOMAIN events = 1..Len(events)
      /\ revision' \in Nat
  BY <1>0, CommittedRows
<1>2. sales' = Append(sales, "active")
  BY <1>1 DEF RowsAfter
<1>3. /\ RowsTyped'
      /\ sales'[revision'] = "active"
      /\ \A i \in DOMAIN events : sales'[i] = sales[i]
  BY <1>0, <1>2, RowsStayTyped DEF RowsTyped, RowStatuses, SaleTypes
<1>4. CorrectionsLookBack'
  BY <1>0, <1>1 DEF CorrectionsLookBack
<1>5. PICK n \in 0..Len(activeSales) :
        /\ ActiveIndices(activeSales) = 1..n
        /\ activeSales' = WithEntry(activeSales, n + 1, revision', sale)
  BY LoggedCommit DEF RoomInv
<1> DEFINE k == n + 1
<1>6. /\ activeSales \in Seq(Entries) /\ k \in 1..(Len(activeSales) + 1)
      /\ k \notin ActiveIndices(activeSales)
      /\ activeSales' = WithEntry(activeSales, k, revision', sale)
  BY <1>5 DEF RoomInv, BoardInv, TypeOK
<1> HIDE DEF event, k
<1>7. /\ ActiveIndices(activeSales') = ActiveIndices(activeSales) \cup {k}
      /\ activeSales'[k] = [source |-> revision', sale |-> sale]
      /\ \A j \in ActiveIndices(activeSales) \ {k} : activeSales'[j] = activeSales[j]
  BY <1>1, <1>6, WithEntryType
<1>8. ActiveRowsAreSources'
  <2>1. \A j \in ActiveIndices(activeSales) \ {k} : sales'[activeSales[j].source] = "active"
    BY <1>3 DEF ActiveRowsAreSources
  <2>2. \A e \in DOMAIN events' : sales'[e] = "active" =>
            e = revision' \/ \E j \in ActiveIndices(activeSales) \ {k} : activeSales[j].source = e
    BY <1>1, <1>3, <1>6 DEF ActiveRowsAreSources
  <2>3. events'[revision'].sale = sale /\ revision' \in DOMAIN events'
    BY <1>0, <1>1
  <2>4. activeSales'[k] = [source |-> revision', sale |-> events'[revision'].sale]
    BY <1>7, <2>3
  <2> QED
    BY <1>1, <1>3, <1>7, <2>1, <2>2, <2>3, <2>4, EntryPlaced
<1>9. CorrectedRows'
  <2>1. \A c \in DOMAIN events' : \A e :
            Corrects(events', sales', c, e) <=> c \in DOMAIN events /\ Corrects(events, sales, c, e)
    BY <1>0, <1>1, <1>3 DEF Corrects
  <2>2. \A c \in DOMAIN events : \A e : Corrects(events, sales, c, e) => e # revision'
    BY <1>1 DEF Corrects, CorrectionsLookBack
  <2> QED
    BY <1>1, <1>3, <2>1, <2>2 DEF CorrectedRows
<1> QED
  BY <1>3, <1>4, <1>8, <1>9

\* A correction turns the row it replaces and adds an active one.
LEMMA CorrectSaleKeepsTable ==
    ASSUME RoomInv, TableInv, NEW k \in ActiveIndices(activeSales), NEW sale \in SaleInputs,
           Commit("live", [type |-> "sale_corrected",
                           corrected |-> activeSales[k].source,
                           previous |-> activeSales[k].sale,
                           sale |-> sale]),
           PersistSaleProjection
    PROVE  TableInv'
<1> USE DEF TableInv
<1> DEFINE old == activeSales[k].source
           event == [type |-> "sale_corrected", corrected |-> old,
                     previous |-> activeSales[k].sale, sale |-> sale]
<1>0. /\ event \in Events /\ event.type = "sale_corrected" /\ event.sale = sale
      /\ event.corrected = old /\ event.previous = activeSales[k].sale
      /\ activeSales' = WithEntry(activeSales, k, revision', sale)
  BY CorrectedCommit DEF RoomInv
<1>1. /\ sales' = RowsAfter(sales, events')
      /\ events'[Len(events')] = event
      /\ \A i \in DOMAIN events : events'[i] = events[i]
      /\ DOMAIN events' = DOMAIN events \cup {revision'}
      /\ revision' \notin DOMAIN events
      /\ events'[revision'] = event
      /\ DOMAIN events = 1..Len(events)
      /\ revision' \in Nat /\ revision' = Len(events) + 1
  BY <1>0, CommittedRows
<1>2. old \in DOMAIN events /\ sales[old] = "active" /\ events[old].sale = activeSales[k].sale
  BY DEF ActiveRowsAreSources
<1> DEFINE rows == [sales EXCEPT ![old] = "corrected"]
<1>3. sales' = Append(rows, "active")
  BY <1>0, <1>1 DEF RowsAfter
<1>4. /\ rows \in Seq(RowStatuses)
      /\ Len(rows) = Len(events)
      /\ \A i \in DOMAIN events : rows[i] = IF i = old THEN "corrected" ELSE sales[i]
  BY <1>2 DEF RowsTyped, RowStatuses
<1>5. /\ RowsTyped'
      /\ sales'[revision'] = "active"
      /\ \A i \in DOMAIN events : sales'[i] = IF i = old THEN "corrected" ELSE sales[i]
  <2>1. "active" \in RowStatuses /\ event.type \in SaleTypes
    BY <1>0 DEF RowStatuses, SaleTypes
  <2>2. \A i \in DOMAIN events : rows[i] # "none" => sales[i] # "none"
    BY <1>2, <1>4
  <2>3. Commit("live", event) /\ RowsTyped
    OBVIOUS
  <2> HIDE DEF event, rows, TableInv
  <2>4. /\ RowsTyped'
        /\ sales'[revision'] = "active"
        /\ \A i \in DOMAIN events : sales'[i] = rows[i]
    BY <1>0, <1>3, <1>4, <2>1, <2>2, <2>3, RowsStayTyped
  <2> QED
    BY <1>4, <2>4
<1>6. CorrectionsLookBack'
  <2>1. events[old].type \in SaleTypes
    BY <1>2 DEF RowsTyped
  <2> HIDE DEF event
  <2> QED
    BY <1>0, <1>1, <1>2, <2>1 DEF CorrectionsLookBack
<1>7. /\ ActiveIndices(activeSales') = ActiveIndices(activeSales) \cup {k}
      /\ activeSales'[k] = [source |-> revision', sale |-> sale]
      /\ \A j \in ActiveIndices(activeSales) \ {k} : activeSales'[j] = activeSales[j]
  <2>1. activeSales \in Seq(Entries) /\ k \in 1..Len(activeSales)
    BY ActiveEntry DEF RoomInv, BoardInv, TypeOK
  <2>2. k \in 1..(Len(activeSales) + 1)
    BY <2>1
  <2> QED
    <3> HIDE DEF event, old, TableInv
    <3> QED
      BY <1>0, <1>1, <2>1, <2>2, WithEntryType
<1>8. \A j \in ActiveIndices(activeSales) : activeSales[j].source = old => j = k
  BY OneSalePerSource
<1> HIDE DEF event, old, rows
<1>9. ActiveRowsAreSources'
  <2>1. \A j \in ActiveIndices(activeSales) \ {k} : sales'[activeSales[j].source] = "active"
    BY <1>5, <1>8 DEF ActiveRowsAreSources
  <2>2. \A e \in DOMAIN events' : sales'[e] = "active" =>
            e = revision' \/ \E j \in ActiveIndices(activeSales) \ {k} : activeSales[j].source = e
    <3> SUFFICES ASSUME NEW e \in DOMAIN events, sales'[e] = "active"
                 PROVE  \E j \in ActiveIndices(activeSales) \ {k} : activeSales[j].source = e
      BY <1>1
    <3>1. e # old /\ sales[e] = "active"
      BY <1>5
    <3> QED
      BY <3>1 DEF ActiveRowsAreSources, old
  <2>3. events'[revision'].sale = sale /\ revision' \in DOMAIN events'
    BY <1>0, <1>1
  <2>4. activeSales'[k] = [source |-> revision', sale |-> events'[revision'].sale]
    BY <1>7, <2>3
  <2> QED
    BY <1>1, <1>5, <1>7, <2>1, <2>2, <2>3, <2>4, EntryPlaced
<1>10. CorrectedRows'
  <2>1. \A c \in DOMAIN events : \A e : Corrects(events', sales', c, e) <=> Corrects(events, sales, c, e)
    BY <1>1, <1>2, <1>5 DEF Corrects
  <2>2. \A e : Corrects(events', sales', revision', e) <=> e = old
    BY <1>0, <1>1, <1>5 DEF Corrects
  <2>3. \A c \in DOMAIN events : ~Corrects(events, sales, c, old)
    BY <1>2 DEF CorrectedRows
  <2>4. \A c \in DOMAIN events : \A e : Corrects(events, sales, c, e) => e # revision'
    BY <1>1 DEF Corrects, CorrectionsLookBack
  <2>5. ASSUME NEW e \in DOMAIN events
        PROVE  sales'[e] = "corrected" <=> \E c \in DOMAIN events' : Corrects(events', sales', c, e)
    BY <1>1, <1>2, <1>5, <2>1, <2>2, <2>3 DEF CorrectedRows
  <2>6. ~ \E c \in DOMAIN events' : Corrects(events', sales', c, revision')
    BY <1>1, <1>2, <2>1, <2>2, <2>4
  <2>7. ASSUME NEW e, NEW c \in DOMAIN events', NEW d \in DOMAIN events',
               Corrects(events', sales', c, e), Corrects(events', sales', d, e)
        PROVE  c = d
    <3>0. \A x \in DOMAIN events : Corrects(events, sales, x, e) => e \in DOMAIN events
      BY <1>1 DEF Corrects, CorrectionsLookBack
    <3>1. CASE c \in DOMAIN events /\ d \in DOMAIN events
      <4>1. Corrects(events, sales, c, e) /\ Corrects(events, sales, d, e)
        BY <2>1, <2>7, <3>1
      <4>2. e \in DOMAIN events
        BY <4>1, <3>0, <3>1
      <4> QED
        BY <3>1, <4>1, <4>2 DEF CorrectedRows
    <3>2. CASE c = revision' \/ d = revision'
      BY <1>1, <2>1, <2>2, <2>3, <2>7, <3>2
    <3> QED
      BY <1>1, <3>1, <3>2
  <2> QED
    BY <1>1, <1>5, <2>5, <2>6, <2>7 DEF CorrectedRows
<1> QED
  BY <1>5, <1>6, <1>9, <1>10

\* An undo voids the row of the undone event, and a correction's gives way again to
\* the row it had replaced.
LEMMA UndoKeepsTable ==
    ASSUME RoomInv, TableInv, NEW n \in ActiveIndices(activeSales),
           Commit("live", [type |-> "sale_undone", undone |-> activeSales[n].source]),
           PersistSaleProjection
    PROVE  TableInv'
<1> USE DEF TableInv
<1> DEFINE old == activeSales[n].source
           event == [type |-> "sale_undone", undone |-> old]
           undone == events[old]
<1>0. /\ event \in Events /\ event.type = "sale_undone" /\ event.undone = old
      /\ old \in DOMAIN events
      /\ undone.type = "sale_corrected" =>
            /\ undone.corrected \in Nat /\ undone.previous \in SaleInputs
            /\ activeSales' = WithEntry(activeSales, n, undone.corrected, undone.previous)
      /\ undone.type # "sale_corrected" => activeSales' = WithoutEntry(activeSales, n)
  BY UndoneCommit DEF RoomInv
<1>1. /\ sales' = RowsAfter(sales, events')
      /\ events'[Len(events')] = event
      /\ \A i \in DOMAIN events : events'[i] = events[i]
      /\ DOMAIN events' = DOMAIN events \cup {revision'}
      /\ revision' \notin DOMAIN events
      /\ events'[revision'] = event
      /\ DOMAIN events = 1..Len(events)
      /\ revision' \in Nat /\ revision' = Len(events) + 1
  BY <1>0, CommittedRows
<1>2. sales[old] = "active" /\ undone.type \in SaleTypes
  BY <1>0 DEF ActiveRowsAreSources, RowsTyped
<1>3. \A j \in ActiveIndices(activeSales) : activeSales[j].source = old => j = n
  BY OneSalePerSource
<1>4. activeSales \in Seq(Entries) /\ n \in 1..Len(activeSales) /\ n \in DOMAIN activeSales
      /\ n \in 1..(Len(activeSales) + 1)
  BY ActiveEntry DEF RoomInv, BoardInv, TypeOK
<1>5. CorrectionsLookBack'
  BY <1>0, <1>1 DEF CorrectionsLookBack
<1>6. Commit("live", event) /\ RowsTyped /\ "none" \in RowStatuses
  BY DEF RowStatuses
<1>7. CASE undone.type = "sale_corrected"
  <2> DEFINE back == undone.corrected
             rows == [sales EXCEPT ![old] = "voided", ![back] = "active"]
  <2>1. /\ back \in DOMAIN events /\ back # old
        /\ events[back].type \in SaleTypes /\ events[back].sale = undone.previous
    BY <1>0, <1>1, <1>7 DEF CorrectionsLookBack
  <2>2. Corrects(events, sales, old, back)
    BY <1>2, <1>7 DEF Corrects
  <2>3. sales[back] = "corrected"
    BY <1>0, <2>1, <2>2 DEF CorrectedRows
  <2>4. events'[event.undone].type = "sale_corrected" /\ events'[event.undone].corrected = back
    BY <1>0, <1>1, <1>7
  <2>5. sales' = Append(rows, "none")
    <3> HIDE DEF TableInv
    <3> QED
      BY <1>0, <1>1, <2>4 DEF RowsAfter
  <2>6. /\ rows \in Seq(RowStatuses)
        /\ Len(rows) = Len(events)
        /\ \A i \in DOMAIN events :
            rows[i] = IF i = back THEN "active" ELSE IF i = old THEN "voided" ELSE sales[i]
    BY <1>0, <2>1 DEF RowsTyped, RowStatuses
  <2>7. \A i \in DOMAIN events : rows[i] # "none" => sales[i] # "none"
    BY <1>2, <2>3, <2>6
  <2>8. /\ RowsTyped'
        /\ sales'[revision'] = "none"
        /\ \A i \in DOMAIN events : sales'[i] = rows[i]
    <3> HIDE DEF event, rows, TableInv
    <3> QED
      BY <1>0, <1>6, <2>5, <2>6, <2>7, RowsStayTyped
  <2>9. \A i \in DOMAIN events :
            sales'[i] = IF i = back THEN "active" ELSE IF i = old THEN "voided" ELSE sales[i]
    BY <2>6, <2>8
  <2>10. /\ ActiveIndices(activeSales') = ActiveIndices(activeSales) \cup {n}
         /\ activeSales'[n] = [source |-> back, sale |-> undone.previous]
         /\ \A j \in ActiveIndices(activeSales) \ {n} : activeSales'[j] = activeSales[j]
    <3> HIDE DEF event, rows, TableInv
    <3> QED
      BY <1>0, <1>4, <1>7, WithEntryType
  <2> HIDE DEF event, rows, old, back, undone
  <2>11. ActiveRowsAreSources'
    <3>1. ASSUME NEW j \in ActiveIndices(activeSales) \ {n}
          PROVE  sales'[activeSales[j].source] = "active"
      <4>1. activeSales[j].source # old
        BY <1>3
      <4>2. activeSales[j].source \in DOMAIN events /\ sales[activeSales[j].source] = "active"
        BY DEF ActiveRowsAreSources
      <4> QED
        BY <2>9, <4>1, <4>2
    <3>2. ASSUME NEW e \in DOMAIN events', sales'[e] = "active", e # back
          PROVE  \E j \in ActiveIndices(activeSales) \ {n} : activeSales[j].source = e
      <4>1. e \in DOMAIN events /\ e # old /\ sales[e] = "active"
        BY <1>1, <2>8, <2>9, <3>2
      <4> QED
        BY <4>1 DEF ActiveRowsAreSources, old
    <3>3. /\ back \in DOMAIN events' /\ sales'[back] = "active"
          /\ events'[back].sale = undone.previous
      BY <1>1, <2>1, <2>9
    <3>4. activeSales'[n] = [source |-> back, sale |-> events'[back].sale]
      BY <2>10, <3>3
    <3> QED
      BY <1>1, <2>10, <3>1, <3>2, <3>3, <3>4, EntryPlaced
  <2>12. CorrectedRows'
    <3>1. \A c \in DOMAIN events' : \A e :
            Corrects(events', sales', c, e) <=>
                c \in DOMAIN events /\ c # old /\ Corrects(events, sales, c, e)
      <4>1. \A e : ~Corrects(events', sales', revision', e)
        BY <2>8 DEF Corrects
      <4>2. \A e : ~Corrects(events', sales', old, e)
        BY <1>0, <2>1, <2>9 DEF Corrects
      <4>3. \A c \in DOMAIN events \ {old} : \A e :
                Corrects(events', sales', c, e) <=> Corrects(events, sales, c, e)
        BY <1>1, <2>3, <2>9 DEF Corrects
      <4> QED
        BY <1>1, <4>1, <4>2, <4>3
    <3>2. ASSUME NEW e \in DOMAIN events
          PROVE  sales'[e] = "corrected" <=>
                    \E c \in DOMAIN events' : Corrects(events', sales', c, e)
      <4>1. CASE e = back
        <5>1. sales'[e] # "corrected"
          BY <2>9, <4>1
        <5>2. \A c \in DOMAIN events : Corrects(events, sales, c, e) => c = old
          BY <1>0, <2>2, <4>1 DEF CorrectedRows
        <5> QED
          BY <3>1, <5>1, <5>2
      <4>2. CASE e # back
        <5>1. ~Corrects(events, sales, old, e)
          BY <4>2 DEF Corrects, back, undone
        <5>2. \A c \in DOMAIN events : Corrects(events, sales, c, e) => c # old
          BY <5>1
        <5>3. (\E c \in DOMAIN events' : Corrects(events', sales', c, e)) <=>
                \E c \in DOMAIN events : Corrects(events, sales, c, e)
          BY <1>1, <3>1, <5>2
        <5>4. sales'[e] = "corrected" <=> sales[e] = "corrected"
          BY <1>2, <2>9, <4>2
        <5> QED
          BY <5>3, <5>4 DEF CorrectedRows
      <4> QED
        BY <4>1, <4>2
    <3>3. ~ \E c \in DOMAIN events' : Corrects(events', sales', c, revision')
      BY <1>1, <3>1 DEF Corrects, CorrectionsLookBack
    <3>4. \A c \in DOMAIN events : \A e : Corrects(events, sales, c, e) => e \in DOMAIN events
      BY <1>1 DEF Corrects, CorrectionsLookBack
    <3>5. ASSUME NEW e, NEW c \in DOMAIN events', NEW d \in DOMAIN events',
                 Corrects(events', sales', c, e), Corrects(events', sales', d, e)
          PROVE  c = d
      BY <3>1, <3>4, <3>5 DEF CorrectedRows
    <3> QED
      BY <1>1, <2>8, <3>2, <3>3, <3>5 DEF CorrectedRows
  <2> QED
    BY <1>5, <2>8, <2>11, <2>12
<1>8. CASE undone.type # "sale_corrected"
  <2> DEFINE rows == [sales EXCEPT ![old] = "voided"]
  <2>1. events'[event.undone].type # "sale_corrected"
    BY <1>0, <1>1, <1>8
  <2>2. sales' = Append(rows, "none")
    <3> HIDE DEF TableInv
    <3> QED
      BY <1>0, <1>1, <2>1 DEF RowsAfter
  <2>3. /\ rows \in Seq(RowStatuses)
        /\ Len(rows) = Len(events)
        /\ \A i \in DOMAIN events : rows[i] = IF i = old THEN "voided" ELSE sales[i]
    BY <1>0 DEF RowsTyped, RowStatuses
  <2>4. \A i \in DOMAIN events : rows[i] # "none" => sales[i] # "none"
    BY <1>2, <2>3
  <2>5. /\ RowsTyped'
        /\ sales'[revision'] = "none"
        /\ \A i \in DOMAIN events : sales'[i] = rows[i]
    <3> HIDE DEF event, rows, TableInv
    <3> QED
      BY <1>0, <1>6, <2>2, <2>3, <2>4, RowsStayTyped
  <2>6. \A i \in DOMAIN events : sales'[i] = IF i = old THEN "voided" ELSE sales[i]
    BY <2>3, <2>5
  <2>7. /\ ActiveIndices(activeSales') = ActiveIndices(activeSales) \ {n}
        /\ \A j \in ActiveIndices(activeSales) \ {n} : activeSales'[j] = activeSales[j]
    <3> HIDE DEF event, rows, TableInv
    <3> QED
      BY <1>0, <1>4, <1>8, WithoutEntryType
  <2> HIDE DEF event, rows, old, undone
  <2>8. ActiveRowsAreSources'
    <3>1. ASSUME NEW j \in ActiveIndices(activeSales')
          PROVE  /\ activeSales'[j].source \in DOMAIN events'
                 /\ sales'[activeSales'[j].source] = "active"
                 /\ activeSales'[j].sale = events'[activeSales'[j].source].sale
      <4>1. j \in ActiveIndices(activeSales) \ {n} /\ activeSales'[j] = activeSales[j]
        BY <2>7
      <4>2. activeSales[j].source # old
        BY <1>3, <4>1
      <4>3. /\ activeSales[j].source \in DOMAIN events /\ sales[activeSales[j].source] = "active"
            /\ activeSales[j].sale = events[activeSales[j].source].sale
        BY <4>1 DEF ActiveRowsAreSources
      <4> QED
        BY <1>1, <2>6, <4>1, <4>2, <4>3
    <3>2. ASSUME NEW e \in DOMAIN events', sales'[e] = "active"
          PROVE  \E j \in ActiveIndices(activeSales') : activeSales'[j].source = e
      <4>1. e \in DOMAIN events /\ e # old /\ sales[e] = "active"
        BY <1>1, <2>5, <2>6, <3>2
      <4>2. PICK j \in ActiveIndices(activeSales) : activeSales[j].source = e
        BY <4>1 DEF ActiveRowsAreSources
      <4>3. j # n
        BY <4>1, <4>2 DEF old
      <4> QED
        BY <2>7, <4>2, <4>3
    <3> QED
      BY <3>1, <3>2 DEF ActiveRowsAreSources
  <2>9. \A c \in DOMAIN events' : \A e :
            Corrects(events', sales', c, e) <=> c \in DOMAIN events /\ Corrects(events, sales, c, e)
    <3>1. \A e : ~Corrects(events', sales', revision', e)
      BY <2>5 DEF Corrects
    <3>2. \A e : ~Corrects(events', sales', old, e) /\ ~Corrects(events, sales, old, e)
      BY <1>0, <1>1, <1>8 DEF Corrects, undone
    <3>3. \A c \in DOMAIN events \ {old} : \A e :
            Corrects(events', sales', c, e) <=> Corrects(events, sales, c, e)
      BY <1>1, <2>6 DEF Corrects
    <3> QED
      BY <1>1, <3>1, <3>2, <3>3
  <2>10. \A c \in DOMAIN events : \A e : Corrects(events, sales, c, e) => e # revision'
    BY <1>1 DEF Corrects, CorrectionsLookBack
  <2>11. \A e \in DOMAIN events : sales'[e] = "corrected" <=> sales[e] = "corrected"
    BY <1>2, <2>6
  <2>12. CorrectedRows'
    BY <1>1, <2>5, <2>9, <2>10, <2>11 DEF CorrectedRows
  <2> QED
    BY <1>5, <2>5, <2>8, <2>12
<1> QED
  BY <1>7, <1>8
-----------------------------------------------------------------------------
(* The keepers and the sales of the log.                                   *)

\* An event that is no sale leaves keepers and sales apart: the keepers change
\* only while nothing is sold.
LEMMA QuietKeepsApart ==
    ASSUME RoomInv, KeepersApart, NEW newStatus, NEW event \in Events, Commit(newStatus, event),
           event.type \notin SaleTypes,
           \/ initialRosters' = initialRosters /\ newStatus \notin NotStarted \cup {"none"}
           \/ status \in NotStarted \cup {"none"}
    PROVE  KeepersApart'
<1>1. /\ \A i \in DOMAIN events : events'[i] = events[i]
      /\ DOMAIN events' = DOMAIN events \cup {revision'}
      /\ events'[revision'] = event
      /\ status' = newStatus
  BY CommitLog DEF RoomInv, BoardInv
<1>2. CASE initialRosters' = initialRosters /\ newStatus \notin NotStarted \cup {"none"}
  BY <1>1, <1>2 DEF KeepersApart
<1>3. CASE status \in NotStarted \cup {"none"}
  <2>1. \A i \in DOMAIN events' : events'[i].type \notin SaleTypes
    BY <1>1, <1>3 DEF KeepersApart
  <2> QED
    BY <2>1 DEF KeepersApart
<1> QED
  BY <1>2, <1>3

\* A validated sale is of no keeper.
LEMMA SaleKeepsApart ==
    ASSUME RoomInv, KeepersApart, KeepersDistinct, NEW event \in Events, Commit("live", event),
           UNCHANGED initialRosters, NEW board,
           ~Rostered(initialRosters, board, event.sale.player)
    PROVE  KeepersApart'
<1>1. /\ \A i \in DOMAIN events : events'[i] = events[i]
      /\ DOMAIN events' = DOMAIN events \cup {revision'}
      /\ events'[revision'] = event
      /\ status' = "live"
  BY CommitLog DEF RoomInv, BoardInv
<1>2. \A j \in DOMAIN initialRosters : event.sale.player # initialRosters[j].player
  BY RosteredPlayers DEF KeepersDistinct
<1>3. status' \notin NotStarted \cup {"none"}
  BY <1>1 DEF NotStarted
<1> QED
  BY <1>1, <1>2, <1>3 DEF KeepersApart

-----------------------------------------------------------------------------
(* The inductive invariant.                                                *)

LEMMA InitSales == SalesInit => SalesInv
<1> SUFFICES ASSUME SalesInit PROVE SalesInv
  OBVIOUS
<1>1. Init /\ sales = << >> /\ events = << >> /\ activeSales = << >> /\ initialRosters = << >>
  BY DEF SalesInit, Init
<1>2. DOMAIN initialRosters = {} /\ DOMAIN events = {} /\ DOMAIN sales = {}
      /\ ActiveIndices(activeSales) = {}
  BY <1>1 DEF ActiveIndices
<1>3. RoomInv
  BY <1>1, InitBoard
<1>4. PlayersInv
  BY <1>2 DEF PlayersInv, KeepersDistinct, NoSaleBeforeStart, SalesDistinct
<1>5. RowsTyped
  BY <1>1 DEF RowsTyped
<1>6. CorrectionsLookBack /\ ActiveRowsAreSources /\ CorrectedRows
  BY <1>2 DEF CorrectionsLookBack, ActiveRowsAreSources, CorrectedRows
<1>7. KeepersApart /\ ActivePlayerKey(sales, events)
  BY <1>2 DEF KeepersApart, ActivePlayerKey, ActiveRows
<1> QED
  BY <1>3, <1>4, <1>5, <1>6, <1>7 DEF SalesInv, TableInv

\* The rows of a cancelled room are deleted with its log.
LEMMA CancelKeepsSales ==
    ASSUME CancelRoom, PersistSaleProjection
    PROVE  TableInv' /\ KeepersApart'
<1>1. sales' = << >> /\ events' = << >> /\ activeSales' = << >> /\ initialRosters' = << >>
  BY DEF CancelRoom, PersistSaleProjection
<1>2. DOMAIN initialRosters' = {} /\ DOMAIN events' = {} /\ DOMAIN sales' = {}
      /\ ActiveIndices(activeSales') = {}
  BY <1>1 DEF ActiveIndices
<1>3. RowsTyped'
  BY <1>1 DEF RowsTyped
<1>4. CorrectionsLookBack' /\ ActiveRowsAreSources' /\ CorrectedRows'
  BY <1>2 DEF CorrectionsLookBack, ActiveRowsAreSources, CorrectedRows
<1>5. KeepersApart'
  BY <1>2 DEF KeepersApart
<1> QED
  BY <1>3, <1>4, <1>5 DEF TableInv

\* Every other step commits one event: no sale at all, or one of the three kinds.
LEMMA StepsCommit ==
    ASSUME RoomInv, Next, ~CancelRoom, ~LogSale, ~CorrectSale, ~UndoLastSale
    PROVE  \E newStatus \in Statuses, event \in Events :
            /\ Commit(newStatus, event) /\ event.type \notin SaleEvents
            /\ \/ initialRosters' = initialRosters /\ newStatus \notin NotStarted \cup {"none"}
               \/ status \in NotStarted \cup {"none"}
<1> USE DEF Statuses, NotStarted
<1>1. ASSUME NEW t \in {"room_created", "initial_rosters_synchronized", "room_started",
                        "room_paused", "room_resumed", "room_reopened"}
      PROVE  [type |-> t] \in Events /\ [type |-> t].type \notin SaleEvents
  BY DEF Events, SaleEvents
<1>2. CASE CreateRoom
  <2>1. PICK newStatus \in NotStarted : Commit(newStatus, [type |-> "room_created"])
    BY <1>2 DEF CreateRoom
  <2>2. status \in NotStarted \cup {"none"} /\ newStatus \in Statuses
    BY <1>2 DEF CreateRoom
  <2> QED
    BY <1>1, <2>1, <2>2
<1>3. CASE SynchronizeInitialRosters
  <2>1. Commit(status, [type |-> "initial_rosters_synchronized"])
    BY <1>3 DEF SynchronizeInitialRosters
  <2>2. status \in NotStarted \cup {"none"} /\ status \in Statuses
    BY <1>3 DEF SynchronizeInitialRosters
  <2> QED
    BY <1>1, <2>1, <2>2
<1>4. CASE StartRoom
  <2>1. Commit("live", [type |-> "room_started"]) /\ initialRosters' = initialRosters
    BY <1>4 DEF StartRoom
  <2> QED
    BY <1>1, <2>1
<1>5. CASE PauseRoom
  <2>1. Commit("paused", [type |-> "room_paused"]) /\ initialRosters' = initialRosters
    BY <1>5 DEF PauseRoom
  <2> QED
    BY <1>1, <2>1
<1>6. CASE ResumeRoom
  <2>1. Commit("live", [type |-> "room_resumed"]) /\ initialRosters' = initialRosters
    BY <1>6 DEF ResumeRoom
  <2> QED
    BY <1>1, <2>1
<1>7. CASE ReopenRoom
  <2>1. Commit("paused", [type |-> "room_reopened"]) /\ initialRosters' = initialRosters
    BY <1>7 DEF ReopenRoom
  <2> QED
    BY <1>1, <2>1
<1>8. CASE EndRoom
  <2> DEFINE incomplete == AnyOpenRosterSlot(initialRosters, activeSales)
             event == [type |-> "room_ended", incomplete |-> incomplete]
  <2>1. event \in Events
    BY DEF Events, AnyOpenRosterSlot
  <2>2. Commit("ended", event) /\ initialRosters' = initialRosters
    BY <1>8 DEF EndRoom
  <2>3. event.type \notin SaleEvents /\ "ended" \notin NotStarted \cup {"none"}
    BY DEF SaleEvents
  <2> HIDE DEF event
  <2> QED
    BY <2>1, <2>2, <2>3
<1> QED
  BY <1>2, <1>3, <1>4, <1>5, <1>6, <1>7, <1>8 DEF Next

LEMMA NextKeepsSales == SalesInv /\ [SalesNext]_salesVars => SalesInv'
<1> SUFFICES ASSUME SalesInv, [SalesNext]_salesVars PROVE SalesInv'
  OBVIOUS
<1>1. RoomInv /\ PlayersInv /\ TableInv /\ KeepersApart /\ KeepersDistinct
  BY DEF SalesInv, PlayersInv
<1>2. [Next]_vars
  BY DEF SalesNext, salesVars
<1>3. RoomInv'
  BY <1>1, <1>2, NextKeepsInv
<1>4. PlayersInv'
  BY <1>1, <1>2, <1>3, NextKeepsPlayers
<1>5. CASE SalesNext
  <2> USE <1>5 DEF SalesNext
  <2>1. ActivePlayerKey(sales', events')
    BY DEF PersistSaleProjection
  <2>2. CASE CancelRoom
    BY <1>3, <1>4, <2>1, <2>2, CancelKeepsSales DEF SalesInv
  <2>3. CASE LogSale
    <3>1. PICK sale \in SaleInputs :
            /\ ~Rostered(initialRosters, activeSales, sale.player)
            /\ Commit("live", [type |-> "sale_logged", sale |-> sale])
      BY <2>3 DEF LogSale, ValidSale
    <3>2. TableInv'
      BY <1>1, <3>1, LogSaleKeepsTable
    <3>3. [type |-> "sale_logged", sale |-> sale] \in Events
      BY DEF Events
    <3>4. UNCHANGED initialRosters
      BY <2>3 DEF LogSale
    <3>5. KeepersApart'
      BY <1>1, <3>1, <3>3, <3>4, SaleKeepsApart
    <3> QED
      BY <1>3, <1>4, <2>1, <3>2, <3>5 DEF SalesInv
  <2>4. CASE CorrectSale
    <3>1. PICK k \in ActiveIndices(activeSales), sale \in SaleInputs :
            /\ ~Rostered(initialRosters, WithoutEntry(activeSales, k), sale.player)
            /\ Commit("live", [type |-> "sale_corrected", corrected |-> activeSales[k].source,
                               previous |-> activeSales[k].sale, sale |-> sale])
      BY <2>4 DEF CorrectSale, ValidSale
    <3>2. TableInv'
      BY <1>1, <3>1, CorrectSaleKeepsTable
    <3>3. [type |-> "sale_corrected", corrected |-> activeSales[k].source,
           previous |-> activeSales[k].sale, sale |-> sale] \in Events
      BY <1>1, <3>1, CorrectedCommit DEF RoomInv
    <3>4. UNCHANGED initialRosters
      BY <2>4 DEF CorrectSale
    <3>5. KeepersApart'
      BY <1>1, <3>1, <3>3, <3>4, SaleKeepsApart
    <3> QED
      BY <1>3, <1>4, <2>1, <3>2, <3>5 DEF SalesInv
  <2>5. CASE UndoLastSale
    <3>1. PICK n \in 0..Len(activeSales) : ActiveIndices(activeSales) = 1..n
      BY <1>1 DEF RoomInv, BoardInv, ActiveRun
    <3>2. n # 0 /\ activeSales \in Seq(Entries)
      BY <1>1, <2>5, <3>1 DEF UndoLastSale, RoomInv, BoardInv, TypeOK
    <3>3. n \in ActiveIndices(activeSales)
          /\ Commit("live", [type |-> "sale_undone", undone |-> activeSales[n].source])
      BY <2>5, <3>1, <3>2, RunBounds DEF UndoLastSale
    <3>4. TableInv'
      BY <1>1, <3>3, UndoKeepsTable
    <3>5. [type |-> "sale_undone", undone |-> activeSales[n].source] \in Events
      BY <1>1, <3>3, UndoneCommit DEF RoomInv
    <3>6. initialRosters' = initialRosters /\ "live" \notin NotStarted \cup {"none"}
          /\ "sale_undone" \notin SaleTypes
      BY <2>5 DEF UndoLastSale, NotStarted, SaleTypes
    <3>7. KeepersApart'
      BY <1>1, <3>3, <3>5, <3>6, QuietKeepsApart
    <3> QED
      BY <1>3, <1>4, <2>1, <3>4, <3>7 DEF SalesInv
  <2>6. CASE ~CancelRoom /\ ~LogSale /\ ~CorrectSale /\ ~UndoLastSale
    <3>1. PICK newStatus \in Statuses, event \in Events :
            /\ Commit(newStatus, event) /\ event.type \notin SaleEvents
            /\ \/ initialRosters' = initialRosters /\ newStatus \notin NotStarted \cup {"none"}
               \/ status \in NotStarted \cup {"none"}
      BY <1>1, <2>6, StepsCommit
    <3>2. TableInv'
      BY <1>1, <3>1, QuietKeepsTable
    <3>3. event.type \notin SaleTypes
      BY <3>1 DEF SaleEvents, SaleTypes
    <3>4. KeepersApart'
      BY <1>1, <3>1, <3>3, QuietKeepsApart
    <3> QED
      BY <1>3, <1>4, <2>1, <3>2, <3>4 DEF SalesInv
  <2> QED
    BY <2>2, <2>3, <2>4, <2>5, <2>6
<1>6. CASE UNCHANGED salesVars
  <2> USE <1>6 DEF salesVars, vars
  <2>1. TableInv'
    BY <1>1 DEF TableInv, RowsTyped, CorrectionsLookBack, ActiveRowsAreSources, CorrectedRows,
                Corrects, ActiveIndices
  <2>2. KeepersApart' /\ ActivePlayerKey(sales', events')
    BY <1>1 DEF KeepersApart, SalesInv
  <2> QED
    BY <1>3, <1>4, <2>1, <2>2 DEF SalesInv
<1> QED
  BY <1>5, <1>6

-----------------------------------------------------------------------------
(* Theorems.                                                               *)

\* The room with its sales table takes only steps of the room: the table and its
\* index refuse events but invent none.
THEOREM TableImplementsRoom == SalesSpec => Spec
<1>1. SalesInit => Init
  BY DEF SalesInit
<1>2. [SalesNext]_salesVars => [Next]_vars
  BY DEF SalesNext, salesVars
<1> QED
  BY <1>1, <1>2, PTL DEF SalesSpec, Spec

\* The invariant the next theorems are read off from.
THEOREM SalesInvariant == SalesSpec => []SalesInv
  BY InitSales, NextKeepsSales, PTL DEF SalesSpec

\* SalesTableMatchesBoard: through corrections of corrections and their undoing the
\* rows of the sales table tell the board that the log tells.
THEOREM TableMatchesBoard == SalesSpec => []SalesTableMatchesBoard
<1>1. SalesInv => SalesTableMatchesBoard
  <2> SUFFICES ASSUME SalesInv PROVE SalesTableMatchesBoard
    OBVIOUS
  <2>1. RowsTyped /\ ActiveRowsAreSources /\ CorrectedRows /\ TypeOK
    BY DEF SalesInv, TableInv, RoomInv, BoardInv
  <2>2. Len(sales) = revision /\ DOMAIN sales = DOMAIN events
    BY <2>1 DEF RowsTyped, TypeOK
  <2>3. ActiveRows(sales) = {activeSales[k].source : k \in ActiveIndices(activeSales)}
    BY <2>1, <2>2 DEF ActiveRows, ActiveRowsAreSources
  <2>4. \A e \in DOMAIN sales :
            sales[e] = "corrected" <=>
                \E c \in DOMAIN sales :
                    /\ events[c].type = "sale_corrected" /\ events[c].corrected = e
                    /\ sales[c] \in {"active", "corrected"}
    BY <2>1, <2>2 DEF CorrectedRows, Corrects
  <2> QED
    BY <2>2, <2>3, <2>4 DEF SalesTableMatchesBoard
<1> QED
  BY <1>1, SalesInvariant, PTL

\* NobodyIsDraftedTwice: with the unique index of the table no player is on two
\* rosters or twice on one, the undoing of corrections included.
THEOREM NobodyTwice == SalesSpec => []NobodyIsDraftedTwice
<1>1. SalesInv => NobodyIsDraftedTwice
  <2> SUFFICES ASSUME SalesInv PROVE EachPlayerOnce
    BY DEF NobodyIsDraftedTwice
  <2>1. /\ RoomInv /\ RowsTyped /\ ActiveRowsAreSources /\ KeepersApart /\ KeepersDistinct
        /\ ActivePlayerKey(sales, events)
    BY DEF SalesInv, TableInv, PlayersInv
  <2>2. ASSUME NEW k \in ActiveIndices(activeSales)
        PROVE  /\ activeSales[k].source \in ActiveRows(sales)
               /\ activeSales[k].source \in DOMAIN events
               /\ events[activeSales[k].source].type \in SaleTypes
               /\ activeSales[k].sale = events[activeSales[k].source].sale
    BY <2>1 DEF ActiveRows, ActiveRowsAreSources, RowsTyped
  <2>3. ASSUME NEW k \in ActiveIndices(activeSales), NEW j \in ActiveIndices(activeSales),
               activeSales[j].sale.player = activeSales[k].sale.player
        PROVE  j = k
    <3>1. activeSales[j].source = activeSales[k].source
      BY <2>1, <2>2, <2>3 DEF ActivePlayerKey
    <3> QED
      BY <2>1, <3>1, OneSalePerSource
  <2>4. ASSUME NEW k \in ActiveIndices(activeSales), NEW i \in DOMAIN initialRosters
        PROVE  initialRosters[i].player # activeSales[k].sale.player
    BY <2>1, <2>2 DEF KeepersApart
  <2>5. SalesDistinct
    BY <2>3, <2>4 DEF SalesDistinct
  <2> QED
    BY <2>1, <2>5, DistinctRosters
<1> QED
  BY <1>1, SalesInvariant, PTL
=============================================================================
