------------------------ MODULE LiveDraftRoom_proofs ------------------------
(***************************************************************************)
(* Proofs about LiveDraftRoom, for every season, every set of sales and    *)
(* every length of the event log.                                          *)
(***************************************************************************)
EXTENDS LiveDraftRoom, SequenceTheorems, FiniteSetTheorems, TLAPS

\* The active sales hold an initial run of the sequence indices.
ActiveRun == \E n \in 0..Len(activeSales) : ActiveIndices(activeSales) = 1..n

\* Every active sale, correction and undo names an event of the log.
SourcesLogged ==
    /\ \A k \in ActiveIndices(activeSales) : activeSales[k].source \in DOMAIN events
    /\ \A i \in DOMAIN events :
        /\ events[i].type = "sale_corrected" => events[i].corrected \in DOMAIN events
        /\ events[i].type = "sale_undone" => events[i].undone \in DOMAIN events

\* Every event keeps to one sequence index: a correction to that of the sale it
\* corrects.  Hence no two active sales have the same source.
OneIndexPerSource ==
    \E at \in [DOMAIN events -> Nat] :
        /\ \A k \in ActiveIndices(activeSales) : at[activeSales[k].source] = k
        /\ \A i \in DOMAIN events :
            events[i].type = "sale_corrected" => at[events[i].corrected] = at[i]

\* In a live room the last lifecycle event of the log is a start or a resume.
LiveByLog ==
    status = "live" =>
        \E j \in DOMAIN events :
            /\ events[j].type \in {"room_started", "room_resumed"}
            /\ \A n \in (j + 1)..Len(events) : events[n].type \notin LifecycleEvents

BoardInv == TypeOK /\ ActiveRun /\ SourcesLogged /\ OneIndexPerSource

RoomInv == BoardInv /\ LiveByLog /\ SalesOnlyWhileLive

-----------------------------------------------------------------------------
(* What the two updates of the active sales return.                        *)

\* Writing an entry at an index, or just past the end, keeps a sequence of entries.
LEMMA WithEntryType ==
    ASSUME NEW active \in Seq(Entries), NEW k \in 1..(Len(active) + 1),
           NEW source \in Nat, NEW sale \in SaleInputs
    PROVE  /\ WithEntry(active, k, source, sale) \in Seq(Entries)
           /\ ActiveIndices(WithEntry(active, k, source, sale)) = ActiveIndices(active) \cup {k}
           /\ WithEntry(active, k, source, sale)[k] = [source |-> source, sale |-> sale]
           /\ \A j \in ActiveIndices(active) \ {k} :
                WithEntry(active, k, source, sale)[j] = active[j]
           /\ Len(active) <= Len(WithEntry(active, k, source, sale))
<1> DEFINE w == WithEntry(active, k, source, sale)
           m == IF k = Len(active) + 1 THEN k ELSE Len(active)
<1>1. DOMAIN active \cup {k} = 1..m /\ m \in Nat /\ Len(active) <= m
  OBVIOUS
<1>2. [source |-> source, sale |-> sale] \in Entries \ {NoSale}
  BY InputsTyped DEF Entries
<1>3. \A j \in 1..m : w[j] \in Entries
  BY <1>1, <1>2 DEF WithEntry
<1>4. w = [j \in 1..m |-> w[j]]
  BY <1>1 DEF WithEntry
<1>5. w \in Seq(Entries) /\ DOMAIN w = 1..m /\ Len(w) = m
  <2>1. w \in [1..m -> Entries]
    BY <1>3, <1>4
  <2> HIDE DEF w, m
  <2>2. w \in Seq(Entries)
    BY <1>1, <2>1, SeqDef
  <2> QED
    BY <1>1, <2>1, <2>2, LenProperties
<1>6. ActiveIndices(w) = ActiveIndices(active) \cup {k}
  BY <1>1, <1>2, <1>5 DEF ActiveIndices, WithEntry
<1> QED
  BY <1>1, <1>5, <1>6 DEF ActiveIndices, WithEntry

LEMMA WithoutEntryType ==
    ASSUME NEW active \in Seq(Entries), NEW k \in DOMAIN active
    PROVE  /\ WithoutEntry(active, k) \in Seq(Entries)
           /\ ActiveIndices(WithoutEntry(active, k)) = ActiveIndices(active) \ {k}
           /\ \A j \in ActiveIndices(active) \ {k} : WithoutEntry(active, k)[j] = active[j]
           /\ Len(WithoutEntry(active, k)) = Len(active)
<1>1. WithoutEntry(active, k) \in Seq(Entries) /\ Len(WithoutEntry(active, k)) = Len(active)
  BY DEF WithoutEntry, Entries
<1> QED
  BY <1>1 DEF WithoutEntry, ActiveIndices

\* An initial run of indices has its end as maximum and the next index as first open one.
LEMMA RunBounds ==
    ASSUME NEW active \in Seq(Entries), NEW n \in 0..Len(active), ActiveIndices(active) = 1..n
    PROVE  /\ FirstOpenIndex(active) = n + 1
           /\ n # 0 => Max(ActiveIndices(active)) = n
<1>1. n + 1 \in (1..(Len(active) + 1)) \ ActiveIndices(active)
  OBVIOUS
<1>2. \A y \in (1..(Len(active) + 1)) \ ActiveIndices(active) : n + 1 <= y
  OBVIOUS
<1>3. FirstOpenIndex(active) = n + 1
  BY <1>1, <1>2 DEF FirstOpenIndex, Min
<1>4. ASSUME n # 0 PROVE Max(1..n) = n
  BY <1>4 DEF Max
<1> QED
  BY <1>3, <1>4

-----------------------------------------------------------------------------
(* What a committed event does to the log and to the active sales.         *)

\* Appending keeps the earlier events and puts the new one at the new revision.
LEMMA CommitLog ==
    ASSUME TypeOK, NEW newStatus, NEW event \in Events, Commit(newStatus, event)
    PROVE  /\ status' = newStatus
           /\ revision' = revision + 1
           /\ events' \in Seq(Events)
           /\ Len(events') = revision'
           /\ DOMAIN events' = DOMAIN events \cup {revision'}
           /\ revision' = Len(events) + 1
           /\ revision' \in Nat
           /\ revision' \notin DOMAIN events
           /\ events'[revision'] = event
           /\ \A i \in DOMAIN events : events'[i] = events[i]
           /\ activeSales' = AfterEvent(activeSales, events', revision')
  BY DEF TypeOK, Commit

\* An event that is no sale event leaves the active sales alone.
LEMMA QuietCommit ==
    ASSUME TypeOK, NEW newStatus, NEW event \in Events, Commit(newStatus, event),
           event.type \notin SaleEvents
    PROVE  activeSales' = activeSales
<1>1. events'[revision'].type \notin SaleEvents
  BY CommitLog
<1> QED
  BY <1>1, CommitLog DEF AfterEvent, SaleEvents

\* A logged sale takes the index after the run of active sales.
LEMMA LoggedCommit ==
    ASSUME BoardInv, NEW sale \in SaleInputs,
           Commit("live", [type |-> "sale_logged", sale |-> sale])
    PROVE  \E n \in 0..Len(activeSales) :
            /\ ActiveIndices(activeSales) = 1..n
            /\ activeSales' = WithEntry(activeSales, n + 1, revision', sale)
<1> DEFINE event == [type |-> "sale_logged", sale |-> sale]
<1>1. event \in Events
  BY DEF Events
<1>2. events'[revision'] = event /\ activeSales' = AfterEvent(activeSales, events', revision')
  BY <1>1, CommitLog DEF BoardInv
<1>3. activeSales' = WithEntry(activeSales, FirstOpenIndex(activeSales), revision', sale)
  BY <1>2 DEF AfterEvent
<1> QED
  BY <1>3, RunBounds DEF BoardInv, ActiveRun, TypeOK

\* An active sale is found at its own index by the id of its source.
LEMMA SourceIndex ==
    ASSUME BoardInv, NEW k \in ActiveIndices(activeSales)
    PROVE  /\ IndicesOfSource(activeSales, activeSales[k].source) = {k}
           /\ IndexOfSource(activeSales, activeSales[k].source) = k
<1>1. \A j \in ActiveIndices(activeSales) :
        activeSales[j].source = activeSales[k].source => j = k
  BY DEF BoardInv, OneIndexPerSource
<1> QED
  BY <1>1 DEF IndicesOfSource, IndexOfSource

\* An active sale has a sale and a source.
LEMMA ActiveEntry ==
    ASSUME TypeOK, NEW k \in ActiveIndices(activeSales)
    PROVE  /\ k \in 1..Len(activeSales)
           /\ activeSales[k] \in [source : Nat, sale : SaleInputs]
  BY DEF TypeOK, ActiveIndices, Entries

\* A correction replaces the sale at the index it was found.
LEMMA CorrectedCommit ==
    ASSUME BoardInv, NEW k \in ActiveIndices(activeSales), NEW sale \in SaleInputs,
           Commit("live", [type |-> "sale_corrected",
                           corrected |-> activeSales[k].source,
                           previous |-> activeSales[k].sale,
                           sale |-> sale])
    PROVE  /\ [type |-> "sale_corrected", corrected |-> activeSales[k].source,
               previous |-> activeSales[k].sale, sale |-> sale] \in Events
           /\ activeSales' = WithEntry(activeSales, k, revision', sale)
<1> DEFINE event == [type |-> "sale_corrected", corrected |-> activeSales[k].source,
                     previous |-> activeSales[k].sale, sale |-> sale]
<1>1. event \in Events
  BY ActiveEntry DEF BoardInv, Events
<1>2. events'[revision'] = event /\ activeSales' = AfterEvent(activeSales, events', revision')
  BY <1>1, CommitLog DEF BoardInv
<1>3. activeSales' = WithEntry(activeSales, IndexOfSource(activeSales, event.corrected),
                               revision', sale)
  BY <1>2, SourceIndex DEF AfterEvent
<1> QED
  BY <1>1, <1>3, SourceIndex

\* An undo of the last active sale restores what a correction had replaced there,
\* or frees the index.
LEMMA UndoneCommit ==
    ASSUME BoardInv, NEW n \in ActiveIndices(activeSales),
           Commit("live", [type |-> "sale_undone", undone |-> activeSales[n].source])
    PROVE  LET undone == events[activeSales[n].source]
           IN  /\ activeSales[n].source \in DOMAIN events
               /\ [type |-> "sale_undone", undone |-> activeSales[n].source] \in Events
               /\ undone.type = "sale_corrected" =>
                    /\ undone.corrected \in Nat /\ undone.previous \in SaleInputs
                    /\ activeSales' = WithEntry(activeSales, n, undone.corrected, undone.previous)
               /\ undone.type # "sale_corrected" => activeSales' = WithoutEntry(activeSales, n)
<1> DEFINE event == [type |-> "sale_undone", undone |-> activeSales[n].source]
           undone == events[activeSales[n].source]
<1>1. event \in Events /\ activeSales[n].source \in DOMAIN events
  BY ActiveEntry DEF BoardInv, Events, SourcesLogged
<1>2. /\ events'[revision'] = event
      /\ activeSales' = AfterEvent(activeSales, events', revision')
      /\ events'[event.undone] = undone
  BY <1>1, CommitLog DEF BoardInv
<1>3. activeSales' = IF undone.type = "sale_corrected"
                     THEN WithEntry(activeSales, n, undone.corrected, undone.previous)
                     ELSE WithoutEntry(activeSales, n)
  BY <1>2, SourceIndex DEF AfterEvent
<1>4. undone \in Events
  BY <1>1 DEF BoardInv, TypeOK
<1>5. undone.type = "sale_corrected" => undone.corrected \in Nat /\ undone.previous \in SaleInputs
  BY <1>4 DEF Events
<1> QED
  BY <1>1, <1>3, <1>5
-----------------------------------------------------------------------------
(* BoardInv is inductive: one lemma per way the active sales change.       *)

\* The parts of TypeOK that a commit settles whatever the event is.
LEMMA CommitType ==
    ASSUME TypeOK, NEW newStatus \in Statuses \ {"none"}, NEW event \in Events,
           Commit(newStatus, event),
           initialRosters' \in RosterInputs \cup {<< >>},
           activeSales' \in Seq(Entries)
    PROVE  TypeOK'
  BY CommitLog DEF TypeOK

LEMMA QuietKeepsBoard ==
    ASSUME BoardInv, NEW newStatus \in Statuses \ {"none"}, NEW event \in Events,
           Commit(newStatus, event), event.type \notin SaleEvents,
           initialRosters' \in RosterInputs \cup {<< >>}
    PROVE  BoardInv'
<1>1. activeSales' = activeSales
  BY QuietCommit DEF BoardInv
<1>2. TypeOK'
  BY <1>1, CommitType DEF BoardInv, TypeOK
<1>3. ActiveRun'
  BY <1>1 DEF BoardInv, ActiveRun
<1>4. events'[revision'].type \notin SaleEvents /\ DOMAIN events' = DOMAIN events \cup {revision'}
      /\ \A i \in DOMAIN events : events'[i] = events[i]
  BY CommitLog DEF BoardInv
<1>5. SourcesLogged'
  BY <1>1, <1>4 DEF BoardInv, SourcesLogged, SaleEvents
<1>6. OneIndexPerSource'
  <2>1. PICK at \in [DOMAIN events -> Nat] :
            /\ \A k \in ActiveIndices(activeSales) : at[activeSales[k].source] = k
            /\ \A i \in DOMAIN events :
                events[i].type = "sale_corrected" => at[events[i].corrected] = at[i]
    BY DEF BoardInv, OneIndexPerSource
  <2> DEFINE next == [i \in DOMAIN events' |-> IF i \in DOMAIN events THEN at[i] ELSE 0]
  <2>2. next \in [DOMAIN events' -> Nat]
    OBVIOUS
  <2>3. \A k \in ActiveIndices(activeSales') : next[activeSales'[k].source] = k
    BY <1>1, <1>4, <2>1 DEF BoardInv, SourcesLogged
  <2>4. \A i \in DOMAIN events' :
            events'[i].type = "sale_corrected" => next[events'[i].corrected] = next[i]
    BY <1>4, <2>1 DEF BoardInv, SourcesLogged, SaleEvents
  <2> QED
    BY <2>2, <2>3, <2>4 DEF OneIndexPerSource
<1> QED
  BY <1>2, <1>3, <1>5, <1>6 DEF BoardInv

LEMMA LogSaleKeepsBoard ==
    ASSUME BoardInv, LogSale
    PROVE  BoardInv'
<1>1. PICK sale \in SaleInputs : Commit("live", [type |-> "sale_logged", sale |-> sale])
  BY DEF LogSale
<1> DEFINE event == [type |-> "sale_logged", sale |-> sale]
<1>2. PICK n \in 0..Len(activeSales) :
        /\ ActiveIndices(activeSales) = 1..n
        /\ activeSales' = WithEntry(activeSales, n + 1, revision', sale)
  BY <1>1, LoggedCommit
<1>3. event \in Events /\ activeSales \in Seq(Entries)
  BY DEF Events, BoardInv, TypeOK
<1>4. /\ revision' \in Nat /\ events'[revision'] = event
      /\ DOMAIN events' = DOMAIN events \cup {revision'} /\ revision' \notin DOMAIN events
      /\ \A i \in DOMAIN events : events'[i] = events[i]
  BY <1>1, <1>3, CommitLog DEF BoardInv
<1>5. n + 1 \in 1..(Len(activeSales) + 1)
  BY <1>3
<1>6. /\ activeSales' \in Seq(Entries)
      /\ ActiveIndices(activeSales') = 1..(n + 1)
      /\ activeSales'[n + 1] = [source |-> revision', sale |-> sale]
      /\ \A j \in 1..n : activeSales'[j] = activeSales[j]
  <2>1. \A j \in 1..n : j \in ActiveIndices(activeSales) \ {n + 1}
    BY <1>2
  <2>2. ActiveIndices(activeSales) \cup {n + 1} = 1..(n + 1)
    BY <1>2
  <2> QED
    <3> DEFINE k == n + 1
    <3>1. k \in 1..(Len(activeSales) + 1) /\ revision' \in Nat
      BY <1>4, <1>5
    <3> HIDE DEF k
    <3>2. /\ WithEntry(activeSales, k, revision', sale) \in Seq(Entries)
          /\ ActiveIndices(WithEntry(activeSales, k, revision', sale))
                = ActiveIndices(activeSales) \cup {k}
          /\ WithEntry(activeSales, k, revision', sale)[k] = [source |-> revision', sale |-> sale]
          /\ \A j \in ActiveIndices(activeSales) \ {k} :
                WithEntry(activeSales, k, revision', sale)[j] = activeSales[j]
      BY <1>3, <3>1, WithEntryType
    <3>3. activeSales' = WithEntry(activeSales, k, revision', sale)
      BY <1>2 DEF k
    <3>4. /\ activeSales' \in Seq(Entries)
          /\ ActiveIndices(activeSales') = ActiveIndices(activeSales) \cup {k}
          /\ activeSales'[k] = [source |-> revision', sale |-> sale]
          /\ \A j \in ActiveIndices(activeSales) \ {k} : activeSales'[j] = activeSales[j]
      BY <3>2, <3>3
    <3>5. k = n + 1
      BY DEF k
    <3>6. ActiveIndices(activeSales') = 1..(n + 1)
      BY <2>2, <1>2, <3>4, <3>5
    <3>7. \A j \in 1..n : activeSales'[j] = activeSales[j]
      BY <2>1, <3>4, <3>5
    <3> QED
      BY <3>4, <3>5, <3>6, <3>7
<1>7. TypeOK'
  BY <1>1, <1>3, <1>6, CommitType DEF BoardInv, TypeOK, LogSale, Statuses
<1>8. ActiveRun'
  <2>1. n + 1 <= Len(activeSales')
    BY <1>6 DEF ActiveIndices
  <2> QED
    BY <1>6, <2>1 DEF ActiveRun
<1>9. SourcesLogged'
  <2>1. \A k \in ActiveIndices(activeSales') : k = n + 1 \/ k \in ActiveIndices(activeSales)
    BY <1>2, <1>6
  <2>2. \A k \in ActiveIndices(activeSales') : activeSales'[k].source \in DOMAIN events'
    BY <1>2, <1>4, <1>6, <2>1 DEF BoardInv, SourcesLogged
  <2>3. \A i \in DOMAIN events' :
            /\ events'[i].type = "sale_corrected" => events'[i].corrected \in DOMAIN events'
            /\ events'[i].type = "sale_undone" => events'[i].undone \in DOMAIN events'
    BY <1>4 DEF BoardInv, SourcesLogged
  <2> QED
    BY <2>2, <2>3 DEF SourcesLogged
<1>10. OneIndexPerSource'
  <2>1. PICK at \in [DOMAIN events -> Nat] :
            /\ \A k \in ActiveIndices(activeSales) : at[activeSales[k].source] = k
            /\ \A i \in DOMAIN events :
                events[i].type = "sale_corrected" => at[events[i].corrected] = at[i]
    BY DEF BoardInv, OneIndexPerSource
  <2> DEFINE next == [i \in DOMAIN events' |-> IF i \in DOMAIN events THEN at[i] ELSE n + 1]
  <2>2. next \in [DOMAIN events' -> Nat]
    OBVIOUS
  <2>3. \A k \in ActiveIndices(activeSales') : next[activeSales'[k].source] = k
    <3>1. \A k \in 1..n : next[activeSales'[k].source] = k
      <4> TAKE k \in 1..n
      <4>1. k \in ActiveIndices(activeSales) /\ activeSales'[k] = activeSales[k]
        BY <1>2, <1>6
      <4>2. activeSales[k].source \in DOMAIN events
        BY <4>1 DEF BoardInv, SourcesLogged
      <4> QED
        BY <1>4, <2>1, <4>1, <4>2
    <3>2. next[activeSales'[n + 1].source] = n + 1
      BY <1>4, <1>6
    <3> QED
      BY <1>6, <3>1, <3>2
  <2>4. \A i \in DOMAIN events' :
            events'[i].type = "sale_corrected" => next[events'[i].corrected] = next[i]
    BY <1>4, <2>1 DEF BoardInv, SourcesLogged
  <2> QED
    BY <2>2, <2>3, <2>4 DEF OneIndexPerSource
<1> QED
  BY <1>7, <1>8, <1>9, <1>10 DEF BoardInv
LEMMA CorrectSaleKeepsBoard ==
    ASSUME BoardInv, CorrectSale
    PROVE  BoardInv'
<1>1. PICK k \in ActiveIndices(activeSales), sale \in SaleInputs :
        Commit("live", [type |-> "sale_corrected",
                        corrected |-> activeSales[k].source,
                        previous |-> activeSales[k].sale,
                        sale |-> sale])
  BY DEF CorrectSale
<1> DEFINE event == [type |-> "sale_corrected", corrected |-> activeSales[k].source,
                     previous |-> activeSales[k].sale, sale |-> sale]
<1>2. event \in Events /\ activeSales' = WithEntry(activeSales, k, revision', sale)
  BY <1>1, CorrectedCommit
<1>3. activeSales \in Seq(Entries) /\ k \in 1..Len(activeSales)
  BY ActiveEntry DEF BoardInv, TypeOK
<1>4. /\ revision' \in Nat /\ events'[revision'] = event
      /\ DOMAIN events' = DOMAIN events \cup {revision'} /\ revision' \notin DOMAIN events
      /\ \A i \in DOMAIN events : events'[i] = events[i]
  BY <1>1, <1>2, CommitLog DEF BoardInv
<1>5. /\ activeSales' \in Seq(Entries)
      /\ ActiveIndices(activeSales') = ActiveIndices(activeSales)
      /\ activeSales'[k] = [source |-> revision', sale |-> sale]
      /\ \A j \in ActiveIndices(activeSales) \ {k} : activeSales'[j] = activeSales[j]
      /\ Len(activeSales) <= Len(activeSales')
  <2>1. k \in 1..(Len(activeSales) + 1)
    BY <1>3
  <2>2. /\ activeSales' \in Seq(Entries)
        /\ ActiveIndices(activeSales') = ActiveIndices(activeSales) \cup {k}
        /\ activeSales'[k] = [source |-> revision', sale |-> sale]
        /\ \A j \in ActiveIndices(activeSales) \ {k} : activeSales'[j] = activeSales[j]
        /\ Len(activeSales) <= Len(activeSales')
    BY <1>2, <1>3, <1>4, <2>1, WithEntryType
  <2>3. ActiveIndices(activeSales) \cup {k} = ActiveIndices(activeSales)
    OBVIOUS
  <2> QED
    BY <2>2, <2>3
<1>6. TypeOK'
  BY <1>1, <1>2, <1>5, CommitType DEF BoardInv, TypeOK, CorrectSale, Statuses
<1>7. ActiveRun'
  BY <1>3, <1>5 DEF BoardInv, ActiveRun
<1>8. activeSales[k].source \in DOMAIN events
  BY DEF BoardInv, SourcesLogged
<1>9. SourcesLogged'
  <2>1. \A j \in ActiveIndices(activeSales') : activeSales'[j].source \in DOMAIN events'
    BY <1>4, <1>5 DEF BoardInv, SourcesLogged
  <2>2. \A i \in DOMAIN events :
            /\ events'[i].type = "sale_corrected" => events'[i].corrected \in DOMAIN events'
            /\ events'[i].type = "sale_undone" => events'[i].undone \in DOMAIN events'
    BY <1>4 DEF BoardInv, SourcesLogged
  <2>3. event.type # "sale_undone" /\ event.corrected \in DOMAIN events'
    BY <1>4, <1>8
  <2> QED
    BY <1>4, <2>1, <2>2, <2>3 DEF SourcesLogged
<1>10. OneIndexPerSource'
  <2>1. PICK at \in [DOMAIN events -> Nat] :
            /\ \A j \in ActiveIndices(activeSales) : at[activeSales[j].source] = j
            /\ \A i \in DOMAIN events :
                events[i].type = "sale_corrected" => at[events[i].corrected] = at[i]
    BY DEF BoardInv, OneIndexPerSource
  <2> DEFINE next == [i \in DOMAIN events' |-> IF i \in DOMAIN events THEN at[i] ELSE k]
  <2>2. next \in [DOMAIN events' -> Nat]
    BY <1>3
  <2>3. \A j \in ActiveIndices(activeSales') : next[activeSales'[j].source] = j
    <3> TAKE j \in ActiveIndices(activeSales')
    <3>1. CASE j = k
      BY <1>4, <1>5, <3>1
    <3>2. CASE j # k
      <4>1. j \in ActiveIndices(activeSales) /\ activeSales'[j] = activeSales[j]
        BY <1>5, <3>2
      <4>2. activeSales[j].source \in DOMAIN events
        BY <4>1 DEF BoardInv, SourcesLogged
      <4> QED
        BY <1>4, <2>1, <4>1, <4>2
    <3> QED
      BY <3>1, <3>2
  <2>4. \A i \in DOMAIN events' :
            events'[i].type = "sale_corrected" => next[events'[i].corrected] = next[i]
    <3> TAKE i \in DOMAIN events'
    <3>1. CASE i \in DOMAIN events
      BY <1>4, <2>1, <3>1 DEF BoardInv, SourcesLogged
    <3>2. CASE i = revision'
      BY <1>4, <1>8, <2>1, <3>2
    <3> QED
      BY <1>4, <3>1, <3>2
  <2> QED
    BY <2>2, <2>3, <2>4 DEF OneIndexPerSource
<1> QED
  BY <1>6, <1>7, <1>9, <1>10 DEF BoardInv

LEMMA UndoLastSaleKeepsBoard ==
    ASSUME BoardInv, UndoLastSale
    PROVE  BoardInv'
<1>1. PICK n \in 0..Len(activeSales) : ActiveIndices(activeSales) = 1..n
  BY DEF BoardInv, ActiveRun
<1>2. activeSales \in Seq(Entries) /\ n # 0
  BY <1>1 DEF BoardInv, TypeOK, UndoLastSale
<1>3. Max(ActiveIndices(activeSales)) = n /\ n \in ActiveIndices(activeSales)
      /\ n \in 1..Len(activeSales)
  BY <1>1, <1>2, RunBounds
<1> DEFINE source == activeSales[n].source
           event == [type |-> "sale_undone", undone |-> source]
           undone == events[source]
<1>4. Commit("live", event)
  BY <1>3 DEF UndoLastSale
<1>5. /\ source \in DOMAIN events /\ event \in Events
      /\ undone.type = "sale_corrected" =>
            /\ undone.corrected \in Nat /\ undone.previous \in SaleInputs
            /\ activeSales' = WithEntry(activeSales, n, undone.corrected, undone.previous)
      /\ undone.type # "sale_corrected" => activeSales' = WithoutEntry(activeSales, n)
  BY <1>3, <1>4, UndoneCommit
<1>6. /\ revision' \in Nat /\ events'[revision'] = event
      /\ DOMAIN events' = DOMAIN events \cup {revision'} /\ revision' \notin DOMAIN events
      /\ \A i \in DOMAIN events : events'[i] = events[i]
  BY <1>4, <1>5, CommitLog DEF BoardInv
<1>7. ASSUME undone.type = "sale_corrected"
      PROVE  /\ activeSales' \in Seq(Entries)
             /\ ActiveIndices(activeSales') = 1..n
             /\ activeSales'[n] = [source |-> undone.corrected, sale |-> undone.previous]
             /\ \A j \in 1..(n - 1) : activeSales'[j] = activeSales[j]
             /\ Len(activeSales) <= Len(activeSales')
             /\ undone.corrected \in DOMAIN events
  <2>1. n \in 1..(Len(activeSales) + 1)
    BY <1>2, <1>3
  <2>2. /\ activeSales' \in Seq(Entries)
        /\ ActiveIndices(activeSales') = ActiveIndices(activeSales) \cup {n}
        /\ activeSales'[n] = [source |-> undone.corrected, sale |-> undone.previous]
        /\ \A j \in ActiveIndices(activeSales) \ {n} : activeSales'[j] = activeSales[j]
        /\ Len(activeSales) <= Len(activeSales')
    BY <1>2, <1>5, <1>7, <2>1, WithEntryType
  <2>3. undone.corrected \in DOMAIN events
    BY <1>5, <1>7 DEF BoardInv, SourcesLogged
  <2>4. \A j \in 1..(n - 1) : j \in ActiveIndices(activeSales) \ {n}
    BY <1>1
  <2> QED
    BY <1>1, <1>3, <2>2, <2>3, <2>4
<1>8. ASSUME undone.type # "sale_corrected"
      PROVE  /\ activeSales' \in Seq(Entries)
             /\ ActiveIndices(activeSales') = 1..(n - 1)
             /\ \A j \in 1..(n - 1) : activeSales'[j] = activeSales[j]
             /\ Len(activeSales) = Len(activeSales')
  <2>1. n \in DOMAIN activeSales
    BY <1>3 DEF ActiveIndices
  <2>2. /\ activeSales' \in Seq(Entries)
        /\ ActiveIndices(activeSales') = ActiveIndices(activeSales) \ {n}
        /\ \A j \in ActiveIndices(activeSales) \ {n} : activeSales'[j] = activeSales[j]
        /\ Len(activeSales) = Len(activeSales')
    BY <1>2, <1>5, <1>8, <2>1, WithoutEntryType
  <2>3. ActiveIndices(activeSales) \ {n} = 1..(n - 1)
    BY <1>1
  <2> QED
    BY <2>2, <2>3
<1>9. TypeOK'
  BY <1>4, <1>5, <1>7, <1>8, CommitType DEF BoardInv, TypeOK, UndoLastSale, Statuses
<1>10. ActiveRun'
  <2>1. CASE undone.type = "sale_corrected"
    BY <1>2, <1>7, <2>1 DEF ActiveRun
  <2>2. CASE undone.type # "sale_corrected"
    <3>1. n - 1 \in 0..Len(activeSales')
      BY <1>2, <1>8, <2>2
    <3> QED
      BY <1>8, <2>2, <3>1 DEF ActiveRun
  <2> QED
    BY <2>1, <2>2
<1>11. \A j \in 1..(n - 1) : activeSales[j].source \in DOMAIN events
  BY <1>1 DEF BoardInv, SourcesLogged
<1>12. SourcesLogged'
  <2>1. \A j \in ActiveIndices(activeSales') : activeSales'[j].source \in DOMAIN events'
    <3>1. CASE undone.type = "sale_corrected"
      <4>1. 1..n = 1..(n - 1) \cup {n}
        BY <1>2
      <4> QED
        BY <1>6, <1>7, <1>11, <3>1, <4>1
    <3>2. CASE undone.type # "sale_corrected"
      BY <1>6, <1>8, <1>11, <3>2
    <3> QED
      BY <3>1, <3>2
  <2> QED
    BY <1>5, <1>6, <2>1 DEF BoardInv, SourcesLogged
<1>13. OneIndexPerSource'
  <2>1. PICK at \in [DOMAIN events -> Nat] :
            /\ \A j \in ActiveIndices(activeSales) : at[activeSales[j].source] = j
            /\ \A i \in DOMAIN events :
                events[i].type = "sale_corrected" => at[events[i].corrected] = at[i]
    BY DEF BoardInv, OneIndexPerSource
  <2> DEFINE next == [i \in DOMAIN events' |-> IF i \in DOMAIN events THEN at[i] ELSE 0]
  <2>2. next \in [DOMAIN events' -> Nat]
    OBVIOUS
  <2>3. \A j \in 1..(n - 1) : next[activeSales[j].source] = j
    BY <1>1, <1>6, <1>11, <2>1
  <2>4. \A j \in ActiveIndices(activeSales') : next[activeSales'[j].source] = j
    <3>1. CASE undone.type = "sale_corrected"
      <4>1. at[undone.corrected] = at[source] /\ at[source] = n
        BY <1>3, <1>5, <2>1, <3>1
      <4>2. next[undone.corrected] = n
        BY <1>6, <1>7, <3>1, <4>1
      <4>3. 1..n = 1..(n - 1) \cup {n}
        BY <1>2
      <4> HIDE DEF next
      <4> QED
        BY <1>7, <2>3, <3>1, <4>2, <4>3
    <3>2. CASE undone.type # "sale_corrected"
      <4> HIDE DEF next
      <4> QED
        BY <1>8, <2>3, <3>2
    <3> QED
      BY <3>1, <3>2
  <2>5. \A i \in DOMAIN events' :
            events'[i].type = "sale_corrected" => next[events'[i].corrected] = next[i]
    BY <1>6, <2>1 DEF BoardInv, SourcesLogged
  <2> QED
    BY <2>2, <2>4, <2>5 DEF OneIndexPerSource
<1> QED
  BY <1>9, <1>10, <1>12, <1>13 DEF BoardInv
LEMMA InitBoard == Init => RoomInv
<1> SUFFICES ASSUME Init PROVE RoomInv
  OBVIOUS
<1>1. TypeOK
  BY DEF Init, TypeOK, Statuses
<1>2. ActiveIndices(activeSales) = {} /\ DOMAIN events = {} /\ Len(activeSales) = 0
  BY DEF Init, ActiveIndices
<1>3. ActiveRun /\ SourcesLogged /\ LiveByLog /\ SalesOnlyWhileLive
  <2>1. ActiveRun
    BY <1>2 DEF ActiveRun
  <2>2. SourcesLogged
    BY <1>2 DEF SourcesLogged
  <2>3. LiveByLog
    BY DEF LiveByLog, Init
  <2>4. SalesOnlyWhileLive
    BY <1>2 DEF SalesOnlyWhileLive
  <2> QED
    BY <2>1, <2>2, <2>3, <2>4
<1>4. OneIndexPerSource
  <2>1. [i \in DOMAIN events |-> 0] \in [DOMAIN events -> Nat]
    OBVIOUS
  <2> QED
    BY <1>2, <2>1 DEF OneIndexPerSource
<1> QED
  BY <1>1, <1>3, <1>4 DEF RoomInv, BoardInv

LEMMA CancelRoomKeepsInv ==
    ASSUME CancelRoom PROVE RoomInv'
<1>1. TypeOK'
  BY DEF CancelRoom, TypeOK, Statuses
<1>2. ActiveIndices(activeSales') = {} /\ DOMAIN events' = {} /\ Len(activeSales') = 0
  BY DEF CancelRoom, ActiveIndices
<1>3. ActiveRun' /\ SourcesLogged' /\ LiveByLog' /\ SalesOnlyWhileLive'
  <2>1. ActiveRun'
    BY <1>2 DEF ActiveRun
  <2>2. SourcesLogged'
    BY <1>2 DEF SourcesLogged
  <2>3. LiveByLog'
    BY DEF LiveByLog, CancelRoom
  <2>4. SalesOnlyWhileLive'
    BY <1>2 DEF SalesOnlyWhileLive
  <2> QED
    BY <2>1, <2>2, <2>3, <2>4
<1>4. OneIndexPerSource'
  <2>1. [i \in DOMAIN events' |-> 0] \in [DOMAIN events' -> Nat]
    OBVIOUS
  <2> QED
    BY <1>2, <2>1 DEF OneIndexPerSource
<1> QED
  BY <1>1, <1>3, <1>4 DEF RoomInv, BoardInv

\* A commit keeps the log's account of when the room is live: a lifecycle event
\* agrees with the new status, any other event leaves the status as it was.
LEMMA CommitKeepsLog ==
    ASSUME TypeOK, LiveByLog, SalesOnlyWhileLive,
           NEW newStatus, NEW event \in Events, Commit(newStatus, event),
           \/ /\ event.type \in LifecycleEvents
              /\ newStatus = "live" => event.type \in {"room_started", "room_resumed"}
           \/ /\ event.type \notin LifecycleEvents
              /\ newStatus = "live" => status = "live"
              /\ event.type \in SaleEvents => status = "live"
    PROVE  LiveByLog' /\ SalesOnlyWhileLive'
<1>1. /\ status' = newStatus /\ events'[revision'] = event
      /\ DOMAIN events' = DOMAIN events \cup {revision'}
      /\ Len(events') = revision' /\ revision' = Len(events) + 1 /\ revision' \in Nat
      /\ \A i \in DOMAIN events : events'[i] = events[i]
      /\ DOMAIN events = 1..Len(events) /\ Len(events) \in Nat
  BY CommitLog, LenProperties DEF TypeOK
<1>2. LiveByLog'
  <2>1. CASE event.type \in LifecycleEvents
    BY <1>1, <2>1 DEF LiveByLog, LifecycleEvents
  <2>2. CASE event.type \notin LifecycleEvents
    <3> SUFFICES ASSUME status' = "live"
                 PROVE  \E j \in DOMAIN events' :
                            /\ events'[j].type \in {"room_started", "room_resumed"}
                            /\ \A n \in (j + 1)..Len(events') :
                                    events'[n].type \notin LifecycleEvents
      BY DEF LiveByLog
    <3>1. PICK j \in DOMAIN events :
            /\ events[j].type \in {"room_started", "room_resumed"}
            /\ \A n \in (j + 1)..Len(events) : events[n].type \notin LifecycleEvents
      BY <1>1, <2>2 DEF LiveByLog
    <3>2. \A n \in (j + 1)..Len(events') : n = revision' \/ n \in (j + 1)..Len(events)
      BY <1>1
    <3>3. \A n \in (j + 1)..Len(events) : n \in DOMAIN events
      BY <1>1
    <3> QED
      BY <1>1, <2>2, <3>1, <3>2, <3>3
  <2> QED
    BY <2>1, <2>2
<1>3. SalesOnlyWhileLive'
  <2> SUFFICES ASSUME NEW i \in DOMAIN events', events'[i].type \in SaleEvents
               PROVE  \E j \in 1..(i - 1) :
                        /\ events'[j].type \in {"room_started", "room_resumed"}
                        /\ \A n \in (j + 1)..(i - 1) : events'[n].type \notin LifecycleEvents
    BY DEF SalesOnlyWhileLive
  <2>1. CASE i \in DOMAIN events
    <3>1. PICK j \in 1..(i - 1) :
            /\ events[j].type \in {"room_started", "room_resumed"}
            /\ \A n \in (j + 1)..(i - 1) : events[n].type \notin LifecycleEvents
      BY <1>1, <2>1 DEF SalesOnlyWhileLive
    <3>2. j \in DOMAIN events /\ \A n \in (j + 1)..(i - 1) : n \in DOMAIN events
      BY <1>1, <2>1
    <3> QED
      BY <1>1, <3>1, <3>2
  <2>2. CASE i = revision'
    <3>1. status = "live"
      BY <1>1, <2>2 DEF SaleEvents, LifecycleEvents
    <3>2. PICK j \in DOMAIN events :
            /\ events[j].type \in {"room_started", "room_resumed"}
            /\ \A n \in (j + 1)..Len(events) : events[n].type \notin LifecycleEvents
      BY <3>1 DEF LiveByLog
    <3>3. i - 1 = Len(events) /\ j \in 1..(i - 1)
      BY <1>1, <2>2
    <3>4. \A n \in (j + 1)..(i - 1) : n \in DOMAIN events
      BY <1>1, <3>3
    <3> QED
      BY <1>1, <3>2, <3>3, <3>4
  <2> QED
    BY <1>1, <2>1, <2>2
<1> QED
  BY <1>2, <1>3

\* A lifecycle command or a synchronisation keeps the invariant.
LEMMA QuietKeepsInv ==
    ASSUME RoomInv, NEW newStatus \in Statuses \ {"none"}, NEW event \in Events,
           Commit(newStatus, event), event.type \notin SaleEvents,
           initialRosters' \in RosterInputs \cup {<< >>},
           \/ /\ event.type \in LifecycleEvents
              /\ newStatus = "live" => event.type \in {"room_started", "room_resumed"}
           \/ event.type \notin LifecycleEvents /\ newStatus # "live"
    PROVE  RoomInv'
<1>1. BoardInv'
  BY QuietKeepsBoard DEF RoomInv
<1>2. LiveByLog' /\ SalesOnlyWhileLive'
  BY CommitKeepsLog DEF RoomInv, BoardInv
<1> QED
  BY <1>1, <1>2 DEF RoomInv

LEMMA SaleKeepsInv ==
    ASSUME RoomInv, status = "live", NEW event \in Events, event.type \in SaleEvents,
           Commit("live", event), BoardInv'
    PROVE  RoomInv'
<1>1. event.type \notin LifecycleEvents
  BY DEF SaleEvents, LifecycleEvents
<1>2. LiveByLog' /\ SalesOnlyWhileLive'
  BY <1>1, CommitKeepsLog DEF RoomInv, BoardInv
<1> QED
  BY <1>2 DEF RoomInv

LEMMA NextKeepsInv == RoomInv /\ [Next]_vars => RoomInv'
<1> SUFFICES ASSUME RoomInv, [Next]_vars PROVE RoomInv'
  OBVIOUS
<1> USE DEF Statuses, NotStarted, SaleEvents, LifecycleEvents
<1>1. initialRosters \in RosterInputs \cup {<< >>} /\ status \in Statuses
  BY DEF RoomInv, BoardInv, TypeOK
<1>2. CASE CreateRoom
  <2>1. PICK newStatus \in NotStarted, rosters \in RosterInputs :
            Commit(newStatus, [type |-> "room_created"]) /\ initialRosters' = rosters
    BY <1>2 DEF CreateRoom
  <2>2. [type |-> "room_created"] \in Events
    BY DEF Events
  <2> QED
    BY <2>1, <2>2, QuietKeepsInv
<1>3. CASE CancelRoom
  BY <1>3, CancelRoomKeepsInv
<1>4. CASE SynchronizeInitialRosters
  <2>1. PICK rosters \in RosterInputs :
            /\ Commit(status, [type |-> "initial_rosters_synchronized"])
            /\ initialRosters' = rosters
    BY <1>4 DEF SynchronizeInitialRosters
  <2>2. [type |-> "initial_rosters_synchronized"] \in Events
    BY DEF Events
  <2>3. status \in Statuses \ {"none"} /\ status # "live"
    BY <1>4 DEF SynchronizeInitialRosters
  <2> QED
    BY <2>1, <2>2, <2>3, QuietKeepsInv
<1>5. CASE StartRoom
  <2>1. [type |-> "room_started"] \in Events
    BY DEF Events
  <2> QED
    BY <1>1, <1>5, <2>1, QuietKeepsInv DEF StartRoom
<1>6. CASE PauseRoom
  <2>1. [type |-> "room_paused"] \in Events
    BY DEF Events
  <2> QED
    BY <1>1, <1>6, <2>1, QuietKeepsInv DEF PauseRoom
<1>7. CASE ResumeRoom
  <2>1. [type |-> "room_resumed"] \in Events
    BY DEF Events
  <2> QED
    BY <1>1, <1>7, <2>1, QuietKeepsInv DEF ResumeRoom
<1>8. CASE EndRoom
  <2> DEFINE incomplete == AnyOpenRosterSlot(initialRosters, activeSales)
  <2>1. [type |-> "room_ended", incomplete |-> incomplete] \in Events
    BY DEF Events, AnyOpenRosterSlot
  <2>2. Commit("ended", [type |-> "room_ended", incomplete |-> incomplete])
        /\ initialRosters' = initialRosters
    BY <1>8 DEF EndRoom
  <2> QED
    BY <1>1, <2>1, <2>2, QuietKeepsInv
<1>9. CASE ReopenRoom
  <2>1. [type |-> "room_reopened"] \in Events
    BY DEF Events
  <2> QED
    BY <1>1, <1>9, <2>1, QuietKeepsInv DEF ReopenRoom
<1>10. CASE LogSale
  <2>1. PICK sale \in SaleInputs : Commit("live", [type |-> "sale_logged", sale |-> sale])
    BY <1>10 DEF LogSale
  <2>2. [type |-> "sale_logged", sale |-> sale] \in Events
    BY DEF Events
  <2> QED
    BY <1>10, <2>1, <2>2, LogSaleKeepsBoard, SaleKeepsInv DEF LogSale, RoomInv
<1>11. CASE CorrectSale
  <2>1. PICK k \in ActiveIndices(activeSales), sale \in SaleInputs :
            Commit("live", [type |-> "sale_corrected", corrected |-> activeSales[k].source,
                            previous |-> activeSales[k].sale, sale |-> sale])
    BY <1>11 DEF CorrectSale
  <2>2. [type |-> "sale_corrected", corrected |-> activeSales[k].source,
         previous |-> activeSales[k].sale, sale |-> sale] \in Events
    BY <2>1, CorrectedCommit DEF RoomInv
  <2> QED
    BY <1>11, <2>1, <2>2, CorrectSaleKeepsBoard, SaleKeepsInv DEF CorrectSale, RoomInv
<1>12. CASE UndoLastSale
  <2>1. PICK n \in ActiveIndices(activeSales) :
            Commit("live", [type |-> "sale_undone", undone |-> activeSales[n].source])
    <3>1. PICK n \in 0..Len(activeSales) : ActiveIndices(activeSales) = 1..n
      BY DEF RoomInv, BoardInv, ActiveRun
    <3>2. n # 0 /\ activeSales \in Seq(Entries)
      BY <1>12, <3>1 DEF UndoLastSale, RoomInv, BoardInv, TypeOK
    <3>3. Max(ActiveIndices(activeSales)) \in ActiveIndices(activeSales)
      BY <3>1, <3>2, RunBounds
    <3> QED
      BY <1>12, <3>3 DEF UndoLastSale
  <2>2. [type |-> "sale_undone", undone |-> activeSales[n].source] \in Events
    BY <2>1, UndoneCommit DEF RoomInv
  <2> QED
    BY <1>12, <2>1, <2>2, UndoLastSaleKeepsBoard, SaleKeepsInv DEF UndoLastSale, RoomInv
<1>13. CASE UNCHANGED vars
  <2> USE <1>13 DEF vars
  <2>1. TypeOK' /\ ActiveRun'
    BY DEF RoomInv, BoardInv, TypeOK, ActiveRun, ActiveIndices
  <2>2. SourcesLogged' /\ OneIndexPerSource'
    BY DEF RoomInv, BoardInv, SourcesLogged, OneIndexPerSource, ActiveIndices
  <2>3. LiveByLog' /\ SalesOnlyWhileLive'
    BY DEF RoomInv, LiveByLog, SalesOnlyWhileLive
  <2> QED
    BY <2>1, <2>2, <2>3 DEF RoomInv, BoardInv
<1> QED
  BY <1>2, <1>3, <1>4, <1>5, <1>6, <1>7, <1>8, <1>9, <1>10, <1>11, <1>12, <1>13 DEF Next

\* The invariant every theorem below is read off from.
THEOREM RoomInvariant == Spec => []RoomInv
  BY InitBoard, NextKeepsInv, PTL DEF Spec

\* TypeOK: the room's fields keep their types and its revision counts its log,
\* whatever commands it is given.
THEOREM TypeCorrect == Spec => []TypeOK
<1>1. RoomInv => TypeOK
  BY DEF RoomInv, BoardInv
<1> QED
  BY <1>1, RoomInvariant, PTL

\* SalesOnlyWhileLive: the log of a room never holds a sale, a correction or an
\* undo that was recorded before a start, in a pause or after an end.
THEOREM SalesAreRecordedLive == Spec => []SalesOnlyWhileLive
<1>1. RoomInv => SalesOnlyWhileLive
  BY DEF RoomInv
<1> QED
  BY <1>1, RoomInvariant, PTL

\* HolesOnlyAtTail: corrections and undos never leave a gap among the sequence
\* indices, which is why a new sale may take the first open index as its pick.
THEOREM IndicesHaveNoGap == Spec => []HolesOnlyAtTail
<1>1. RoomInv => HolesOnlyAtTail
  <2> SUFFICES ASSUME RoomInv, NEW j \in DOMAIN activeSales, NEW k \in DOMAIN activeSales,
                      j < k, activeSales[k] # NoSale
               PROVE  activeSales[j] # NoSale
    BY DEF HolesOnlyAtTail
  <2>1. PICK n \in 0..Len(activeSales) : ActiveIndices(activeSales) = 1..n
    BY DEF RoomInv, BoardInv, ActiveRun
  <2>2. k \in 1..n /\ DOMAIN activeSales = 1..Len(activeSales)
    BY <2>1, LenProperties DEF ActiveIndices, RoomInv, BoardInv, TypeOK
  <2>3. j \in 1..n
    BY <2>2
  <2> QED
    BY <2>1, <2>3 DEF ActiveIndices
<1> QED
  BY <1>1, RoomInvariant, PTL

\* FrozenOnceUnderway: no command deletes a room or replaces its keepers once it
\* has left setup and countdown.
THEOREM UnderwayIsFrozen == Spec => FrozenOnceUnderway
<1> DEFINE Underway == status \in {"live", "paused", "ended"}
<1>1. ASSUME [Next]_vars
      PROVE  [Underway => Underway' /\ initialRosters' = initialRosters]_vars
  <2>1. CASE CreateRoom \/ CancelRoom \/ SynchronizeInitialRosters
    BY <2>1 DEF CreateRoom, CancelRoom, SynchronizeInitialRosters, NotStarted
  <2>2. CASE StartRoom \/ PauseRoom \/ ResumeRoom \/ EndRoom \/ ReopenRoom
    BY <2>2 DEF StartRoom, PauseRoom, ResumeRoom, EndRoom, ReopenRoom, Commit
  <2>3. CASE LogSale \/ CorrectSale \/ UndoLastSale
    BY <2>3 DEF LogSale, CorrectSale, UndoLastSale, Commit
  <2>4. CASE UNCHANGED vars
    BY <2>4
  <2> QED
    BY <1>1, <2>1, <2>2, <2>3, <2>4 DEF Next
<1>2. [Next]_vars => [(status \in {"live", "paused", "ended"}) =>
                        /\ status' \in {"live", "paused", "ended"}
                        /\ initialRosters' = initialRosters]_vars
  BY <1>1
<1> QED
  BY <1>2, PTL DEF Spec, FrozenOnceUnderway
-----------------------------------------------------------------------------
(* No player is kept or sold twice until a correction is undone.           *)

KeepersDistinct ==
    /\ \A i \in DOMAIN initialRosters : initialRosters[i].team \in Teams
    /\ \A i, j \in DOMAIN initialRosters :
        initialRosters[i].player = initialRosters[j].player => i = j

SalesDistinct ==
    \A k \in ActiveIndices(activeSales) :
        /\ \A j \in ActiveIndices(activeSales) :
            activeSales[j].sale.player = activeSales[k].sale.player => j = k
        /\ \A i \in DOMAIN initialRosters :
            initialRosters[i].player # activeSales[k].sale.player

NoSaleBeforeStart == status \in NotStarted \cup {"none"} => ActiveIndices(activeSales) = {}

PlayersInv ==
    /\ KeepersDistinct
    /\ NoSaleBeforeStart
    /\ ~CorrectionUndone => SalesDistinct

\* Keepers and active sales of known teams are rostered.
LEMMA RosteredPlayers ==
    ASSUME NEW keepers, NEW active
    PROVE  /\ \A i \in DOMAIN keepers :
                keepers[i].team \in Teams => Rostered(keepers, active, keepers[i].player)
           /\ \A k \in ActiveIndices(active) :
                active[k].sale.team \in Teams => Rostered(keepers, active, active[k].sale.player)
<1>1. ASSUME NEW i \in DOMAIN keepers, keepers[i].team \in Teams
      PROVE  Rostered(keepers, active, keepers[i].player)
  <2> DEFINE member == [from |-> <<"keeper", i>>, player |-> keepers[i].player,
                        price |-> keepers[i].price]
  <2>1. member \in Roster(keepers, active, keepers[i].team)
    BY DEF Roster, KeepersOf
  <2>2. member.player = keepers[i].player
    OBVIOUS
  <2> QED
    BY <1>1, <2>1, <2>2 DEF Rostered
<1>2. ASSUME NEW k \in ActiveIndices(active), active[k].sale.team \in Teams
      PROVE  Rostered(keepers, active, active[k].sale.player)
  <2> DEFINE member == [from |-> <<"sale", k>>, player |-> active[k].sale.player,
                        price |-> active[k].sale.price]
  <2>1. member \in Roster(keepers, active, active[k].sale.team)
    BY DEF Roster, SalesOf
  <2>2. member.player = active[k].sale.player
    OBVIOUS
  <2> QED
    BY <1>2, <2>1, <2>2 DEF Rostered
<1> QED
  BY <1>1, <1>2

\* Initial rosters that pass the check name each player once.
LEMMA ValidRostersDistinct ==
    ASSUME NEW keepers \in RosterInputs, ValidInitialRosters(keepers)
    PROVE  /\ \A i \in DOMAIN keepers : keepers[i].team \in Teams
           /\ \A i, j \in DOMAIN keepers : keepers[i].player = keepers[j].player => i = j
<1>1. keepers \in Seq(Range(keepers))
  BY InputsTyped
<1>2. \A i \in DOMAIN keepers : keepers[i].team \in Teams
  BY DEF ValidInitialRosters
<1>3. ASSUME NEW i \in DOMAIN keepers, NEW j \in DOMAIN keepers, j < i
      PROVE  keepers[j].player # keepers[i].player
  <2> DEFINE before == SubSeq(keepers, 1, i - 1)
  <2>1. ~Rostered(before, << >>, keepers[i].player)
    BY DEF ValidInitialRosters
  <2>2. j \in DOMAIN before /\ before[j] = keepers[j]
    BY <1>1, <1>3
  <2> HIDE DEF before
  <2> QED
    BY <1>2, <2>1, <2>2, RosteredPlayers
<1>4. \A i \in DOMAIN keepers : i \in Int
  BY <1>1, LenProperties
<1>5. ASSUME NEW i \in DOMAIN keepers, NEW j \in DOMAIN keepers, i # j
      PROVE  keepers[j].player # keepers[i].player
  BY <1>3, <1>4, <1>5
<1> QED
  BY <1>2, <1>5

\* An undone correction stays in the log.
LEMMA CorrectionUndoneStays ==
    ASSUME BoardInv, NEW newStatus, NEW event \in Events, Commit(newStatus, event),
           CorrectionUndone
    PROVE  CorrectionUndone'
<1>1. DOMAIN events \subseteq DOMAIN events' /\ \A i \in DOMAIN events : events'[i] = events[i]
  BY CommitLog DEF BoardInv
<1>2. PICK i \in DOMAIN events :
        events[i].type = "sale_undone" /\ events[events[i].undone].type = "sale_corrected"
  BY DEF CorrectionUndone
<1>3. events[i].undone \in DOMAIN events
  BY <1>2 DEF BoardInv, SourcesLogged
<1> QED
  BY <1>1, <1>2, <1>3 DEF CorrectionUndone

\* A sale of a player not rostered on a board that is distinct keeps it distinct.
LEMMA NewSaleDistinct ==
    ASSUME TypeOK, KeepersDistinct, UNCHANGED initialRosters, activeSales' \in Seq(Entries),
           NEW others \in SUBSET ActiveIndices(activeSales), NEW k, k \notin others,
           ActiveIndices(activeSales') = others \cup {k},
           \A j \in others : activeSales'[j] = activeSales[j],
           NEW board, ActiveIndices(board) = others,
           \A j \in others : board[j] = activeSales[j],
           ~Rostered(initialRosters, board, activeSales'[k].sale.player),
           SalesDistinct
    PROVE  SalesDistinct'
<1>1. ASSUME NEW j \in others PROVE activeSales[j].sale.team \in Teams
  <2>1. activeSales[j] \in [source : Nat, sale : SaleInputs]
    BY ActiveEntry
  <2>2. activeSales[j].sale \in SaleInputs
    BY <2>1
  <2> QED
    BY <2>2, InputsTyped
<1>2. \A j \in others : activeSales[j].sale.player # activeSales'[k].sale.player
  <2> SUFFICES ASSUME NEW j \in others
               PROVE  activeSales[j].sale.player # activeSales'[k].sale.player
    OBVIOUS
  <2>1. board[j].sale.team \in Teams /\ j \in ActiveIndices(board)
    BY <1>1
  <2>2. Rostered(initialRosters, board, board[j].sale.player)
    BY <2>1, RosteredPlayers
  <2> QED
    BY <2>2
<1>3. \A i \in DOMAIN initialRosters : initialRosters[i].player # activeSales'[k].sale.player
  BY RosteredPlayers DEF KeepersDistinct
<1>4. ASSUME NEW j \in ActiveIndices(activeSales')
      PROVE  /\ \A i \in ActiveIndices(activeSales') :
                activeSales'[i].sale.player = activeSales'[j].sale.player => i = j
             /\ \A i \in DOMAIN initialRosters :
                initialRosters[i].player # activeSales'[j].sale.player
  <2>1. CASE j = k
    BY <1>2, <1>3, <2>1
  <2>2. CASE j \in others
    BY <1>2, <2>2 DEF SalesDistinct
  <2> QED
    BY <2>1, <2>2
<1> QED
  BY <1>4 DEF SalesDistinct
LEMMA LogSaleKeepsPlayers ==
    ASSUME BoardInv, BoardInv', PlayersInv, LogSale
    PROVE  PlayersInv'
<1>1. PICK sale \in SaleInputs :
        /\ ~Rostered(initialRosters, activeSales, sale.player)
        /\ Commit("live", [type |-> "sale_logged", sale |-> sale])
  BY DEF LogSale, ValidSale
<1>2. PICK n \in 0..Len(activeSales) :
        /\ ActiveIndices(activeSales) = 1..n
        /\ activeSales' = WithEntry(activeSales, n + 1, revision', sale)
  BY <1>1, LoggedCommit
<1>3. [type |-> "sale_logged", sale |-> sale] \in Events /\ UNCHANGED initialRosters
  BY DEF Events, LogSale
<1>4. ~CorrectionUndone' => ~CorrectionUndone
  BY <1>1, <1>3, CorrectionUndoneStays
<1>5. ASSUME SalesDistinct PROVE SalesDistinct'
  <2> DEFINE k == n + 1
  <2>1. /\ activeSales \in Seq(Entries) /\ activeSales' \in Seq(Entries)
        /\ revision' \in Nat /\ k \in 1..(Len(activeSales) + 1) /\ k \notin 1..n
        /\ activeSales' = WithEntry(activeSales, k, revision', sale)
    BY <1>2 DEF BoardInv, TypeOK
  <2> HIDE DEF k
  <2>2. /\ ActiveIndices(activeSales') = ActiveIndices(activeSales) \cup {k}
        /\ activeSales'[k] = [source |-> revision', sale |-> sale]
        /\ \A j \in ActiveIndices(activeSales) \ {k} : activeSales'[j] = activeSales[j]
    BY <2>1, WithEntryType
  <2>3. activeSales'[k].sale = sale
    BY <2>2
  <2> QED
    BY <1>1, <1>2, <1>3, <1>5, <2>1, <2>2, <2>3, NewSaleDistinct DEF PlayersInv, BoardInv
<1> QED
  BY <1>1, <1>3, <1>4, <1>5 DEF PlayersInv, KeepersDistinct, NoSaleBeforeStart, NotStarted, Commit

LEMMA CorrectSaleKeepsPlayers ==
    ASSUME BoardInv, BoardInv', PlayersInv, CorrectSale
    PROVE  PlayersInv'
<1>1. PICK k \in ActiveIndices(activeSales), sale \in SaleInputs :
        /\ ~Rostered(initialRosters, WithoutEntry(activeSales, k), sale.player)
        /\ Commit("live", [type |-> "sale_corrected", corrected |-> activeSales[k].source,
                           previous |-> activeSales[k].sale, sale |-> sale])
  BY DEF CorrectSale, ValidSale
<1>2. /\ [type |-> "sale_corrected", corrected |-> activeSales[k].source,
          previous |-> activeSales[k].sale, sale |-> sale] \in Events
      /\ activeSales' = WithEntry(activeSales, k, revision', sale)
  BY <1>1, CorrectedCommit
<1>3. UNCHANGED initialRosters
  BY DEF CorrectSale
<1>4. ~CorrectionUndone' => ~CorrectionUndone
  BY <1>1, <1>2, CorrectionUndoneStays
<1>5. ASSUME SalesDistinct PROVE SalesDistinct'
  <2> DEFINE board == WithoutEntry(activeSales, k)
             others == ActiveIndices(activeSales) \ {k}
  <2>1. /\ activeSales \in Seq(Entries) /\ activeSales' \in Seq(Entries)
        /\ revision' \in Nat /\ k \in DOMAIN activeSales /\ k \in 1..Len(activeSales)
    BY ActiveEntry DEF BoardInv, TypeOK, ActiveIndices
  <2>2. ActiveIndices(board) = others /\ \A j \in others : board[j] = activeSales[j]
    BY <2>1, WithoutEntryType
  <2>3. k \in 1..(Len(activeSales) + 1)
    BY <2>1
  <2>4. /\ ActiveIndices(activeSales') = ActiveIndices(activeSales) \cup {k}
        /\ activeSales'[k] = [source |-> revision', sale |-> sale]
        /\ \A j \in others : activeSales'[j] = activeSales[j]
    BY <1>2, <2>1, <2>3, WithEntryType
  <2>5. activeSales'[k].sale = sale /\ ActiveIndices(activeSales') = others \cup {k}
    BY <2>4
  <2>6. ~Rostered(initialRosters, board, activeSales'[k].sale.player)
    BY <1>1, <2>5
  <2>7. others \in SUBSET ActiveIndices(activeSales) /\ k \notin others
    OBVIOUS
  <2> HIDE DEF board, others
  <2> QED
    BY <1>3, <1>5, <2>1, <2>2, <2>4, <2>5, <2>6, <2>7, NewSaleDistinct DEF PlayersInv, BoardInv
<1> QED
  BY <1>1, <1>3, <1>4, <1>5 DEF PlayersInv, KeepersDistinct, NoSaleBeforeStart, NotStarted, Commit

LEMMA UndoLastSaleKeepsPlayers ==
    ASSUME BoardInv, BoardInv', PlayersInv, UndoLastSale
    PROVE  PlayersInv'
<1>1. PICK n \in ActiveIndices(activeSales) :
        Commit("live", [type |-> "sale_undone", undone |-> activeSales[n].source])
  <2>1. PICK n \in 0..Len(activeSales) : ActiveIndices(activeSales) = 1..n
    BY DEF BoardInv, ActiveRun
  <2>2. n # 0 /\ activeSales \in Seq(Entries)
    BY <2>1 DEF UndoLastSale, BoardInv, TypeOK
  <2>3. Max(ActiveIndices(activeSales)) \in ActiveIndices(activeSales)
    BY <2>1, <2>2, RunBounds
  <2> QED
    BY <2>3 DEF UndoLastSale
<1> DEFINE source == activeSales[n].source
           event == [type |-> "sale_undone", undone |-> source]
<1>2. /\ event \in Events /\ source \in DOMAIN events
      /\ events[source].type # "sale_corrected" => activeSales' = WithoutEntry(activeSales, n)
  BY <1>1, UndoneCommit
<1>3. /\ events'[revision'] = event /\ revision' \in DOMAIN events'
      /\ events'[source] = events[source]
  BY <1>1, <1>2, CommitLog DEF BoardInv
<1>4. ~CorrectionUndone' => events[source].type # "sale_corrected" /\ ~CorrectionUndone
  BY <1>1, <1>2, <1>3, CorrectionUndoneStays DEF CorrectionUndone
<1>5. UNCHANGED initialRosters
  BY DEF UndoLastSale
<1>6. ASSUME ~CorrectionUndone' PROVE SalesDistinct'
  <2>1. activeSales \in Seq(Entries) /\ n \in DOMAIN activeSales
    BY DEF BoardInv, TypeOK, ActiveIndices
  <2>2. /\ ActiveIndices(activeSales') = ActiveIndices(activeSales) \ {n}
        /\ \A j \in ActiveIndices(activeSales) \ {n} : activeSales'[j] = activeSales[j]
    BY <1>2, <1>4, <1>6, <2>1, WithoutEntryType
  <2> QED
    BY <1>4, <1>5, <1>6, <2>2 DEF SalesDistinct, PlayersInv
<1> QED
  BY <1>1, <1>5, <1>6 DEF PlayersInv, KeepersDistinct, NoSaleBeforeStart, NotStarted, Commit

\* A step that changes neither the sales nor any keeper list that matters.
LEMMA QuietKeepsPlayers ==
    ASSUME BoardInv, NEW newStatus, NEW event \in Events, Commit(newStatus, event),
           event.type \notin SaleEvents,
           KeepersDistinct',
           \/ initialRosters' = initialRosters /\ newStatus \notin NotStarted \cup {"none"}
           \/ status \in NotStarted \cup {"none"},
           PlayersInv
    PROVE  PlayersInv'
<1>1. activeSales' = activeSales
  BY QuietCommit DEF BoardInv
<1>2. ~CorrectionUndone' => ~CorrectionUndone
  BY CorrectionUndoneStays
<1>3. SalesDistinct => SalesDistinct'
  BY <1>1 DEF SalesDistinct, PlayersInv, NoSaleBeforeStart
<1>4. NoSaleBeforeStart'
  BY <1>1 DEF PlayersInv, NoSaleBeforeStart, Commit
<1> QED
  BY <1>2, <1>3, <1>4 DEF PlayersInv
LEMMA NextKeepsPlayers ==
    RoomInv /\ RoomInv' /\ PlayersInv /\ [Next]_vars => PlayersInv'
<1> SUFFICES ASSUME RoomInv, RoomInv', PlayersInv, [Next]_vars PROVE PlayersInv'
  OBVIOUS
<1>1. BoardInv /\ BoardInv'
  BY DEF RoomInv
<1>2. CASE CreateRoom
  <2>1. PICK newStatus \in NotStarted, rosters \in RosterInputs :
            /\ ValidInitialRosters(rosters)
            /\ Commit(newStatus, [type |-> "room_created"])
            /\ initialRosters' = rosters
    BY <1>2 DEF CreateRoom
  <2>2. [type |-> "room_created"] \in Events /\ "room_created" \notin SaleEvents
    BY DEF Events, SaleEvents
  <2>3. KeepersDistinct'
    BY <2>1, ValidRostersDistinct DEF KeepersDistinct
  <2> QED
    BY <1>1, <1>2, <2>1, <2>2, <2>3, QuietKeepsPlayers DEF CreateRoom
<1>3. CASE CancelRoom
  <2>1. DOMAIN initialRosters' = {} /\ ActiveIndices(activeSales') = {}
    BY <1>3 DEF CancelRoom, ActiveIndices
  <2> QED
    BY <2>1 DEF PlayersInv, KeepersDistinct, NoSaleBeforeStart, SalesDistinct
<1>4. CASE SynchronizeInitialRosters
  <2>1. PICK rosters \in RosterInputs :
            /\ ValidInitialRosters(rosters)
            /\ Commit(status, [type |-> "initial_rosters_synchronized"])
            /\ initialRosters' = rosters
    BY <1>4 DEF SynchronizeInitialRosters
  <2>2. [type |-> "initial_rosters_synchronized"] \in Events
        /\ "initial_rosters_synchronized" \notin SaleEvents
    BY DEF Events, SaleEvents
  <2>3. KeepersDistinct'
    BY <2>1, ValidRostersDistinct DEF KeepersDistinct
  <2> QED
    BY <1>1, <1>4, <2>1, <2>2, <2>3, QuietKeepsPlayers DEF SynchronizeInitialRosters
<1>5. CASE StartRoom \/ PauseRoom \/ ResumeRoom \/ EndRoom \/ ReopenRoom
  <2>1. PICK newStatus \in {"live", "paused", "ended"}, event \in Events :
            Commit(newStatus, event) /\ event.type \notin SaleEvents
    <3>1. \A t \in {"room_started", "room_paused", "room_resumed", "room_reopened"} :
            [type |-> t] \in Events /\ t \notin SaleEvents
      BY DEF Events, SaleEvents
    <3>2. CASE StartRoom
      BY <3>1, <3>2 DEF StartRoom
    <3>3. CASE PauseRoom
      BY <3>1, <3>3 DEF PauseRoom
    <3>4. CASE ResumeRoom
      BY <3>1, <3>4 DEF ResumeRoom
    <3>5. CASE ReopenRoom
      BY <3>1, <3>5 DEF ReopenRoom
    <3>6. CASE EndRoom
      <4> DEFINE incomplete == AnyOpenRosterSlot(initialRosters, activeSales)
      <4>1. [type |-> "room_ended", incomplete |-> incomplete] \in Events
        BY DEF Events, AnyOpenRosterSlot
      <4>2. Commit("ended", [type |-> "room_ended", incomplete |-> incomplete])
        BY <3>6 DEF EndRoom
      <4> QED
        BY <4>1, <4>2 DEF SaleEvents
    <3> QED
      BY <1>5, <3>2, <3>3, <3>4, <3>5, <3>6
  <2>2. initialRosters' = initialRosters
    BY <1>5 DEF StartRoom, PauseRoom, ResumeRoom, EndRoom, ReopenRoom
  <2>3. KeepersDistinct'
    BY <2>2 DEF PlayersInv, KeepersDistinct
  <2> QED
    BY <1>1, <2>1, <2>2, <2>3, QuietKeepsPlayers DEF NotStarted
<1>6. CASE LogSale
  BY <1>1, <1>6, LogSaleKeepsPlayers
<1>7. CASE CorrectSale
  BY <1>1, <1>7, CorrectSaleKeepsPlayers
<1>8. CASE UndoLastSale
  BY <1>1, <1>8, UndoLastSaleKeepsPlayers
<1>9. CASE UNCHANGED vars
  <2> USE <1>9 DEF vars
  <2>1. KeepersDistinct' /\ NoSaleBeforeStart'
    BY DEF PlayersInv, KeepersDistinct, NoSaleBeforeStart, ActiveIndices
  <2>2. CorrectionUndone' = CorrectionUndone /\ SalesDistinct' = SalesDistinct
    BY DEF CorrectionUndone, SalesDistinct, ActiveIndices
  <2> QED
    BY <2>1, <2>2 DEF PlayersInv
<1> QED
  BY <1>2, <1>3, <1>4, <1>5, <1>6, <1>7, <1>8, <1>9 DEF Next

\* Distinct keepers and distinct sales make distinct members of the rosters.
LEMMA DistinctRosters ==
    ASSUME KeepersDistinct, SalesDistinct
    PROVE  EachPlayerOnce
<1> SUFFICES ASSUME NEW s \in Teams, NEW t \in Teams,
                    NEW a \in Roster(initialRosters, activeSales, s),
                    NEW b \in Roster(initialRosters, activeSales, t),
                    a.player = b.player
             PROVE  s = t /\ a = b
  BY DEF EachPlayerOnce
<1>1. CASE a \in KeepersOf(initialRosters, s) /\ b \in KeepersOf(initialRosters, t)
  BY <1>1 DEF KeepersOf, KeepersDistinct
<1>2. CASE a \in SalesOf(activeSales, s) /\ b \in SalesOf(activeSales, t)
  BY <1>2 DEF SalesOf, SalesDistinct
<1>3. CASE a \in KeepersOf(initialRosters, s) /\ b \in SalesOf(activeSales, t)
  BY <1>3 DEF KeepersOf, SalesOf, SalesDistinct
<1>4. CASE a \in SalesOf(activeSales, s) /\ b \in KeepersOf(initialRosters, t)
  BY <1>4 DEF KeepersOf, SalesOf, SalesDistinct
<1> QED
  BY <1>1, <1>2, <1>3, <1>4 DEF Roster

\* PlayersOnceUntilCorrectionUndone: however logs, corrections, undos, pauses,
\* ends and reopenings follow each other, a player is kept or sold at most once,
\* unless a correction has been undone.
THEOREM PlayersAreDraftedOnce == Spec => []PlayersOnceUntilCorrectionUndone
<1>1. Init => PlayersInv
  <2> SUFFICES ASSUME Init PROVE PlayersInv
    OBVIOUS
  <2>1. DOMAIN initialRosters = {} /\ ActiveIndices(activeSales) = {}
    BY DEF Init, ActiveIndices
  <2> QED
    BY <2>1 DEF PlayersInv, KeepersDistinct, NoSaleBeforeStart, SalesDistinct
<1>2. PlayersInv => PlayersOnceUntilCorrectionUndone
  BY DistinctRosters DEF PlayersInv, PlayersOnceUntilCorrectionUndone
<1> QED
  BY <1>1, <1>2, RoomInvariant, NextKeepsPlayers, PTL DEF Spec

-----------------------------------------------------------------------------
(* Induction over the naturals, for a set instead of a predicate: the      *)
(* library's theorem takes an operator, this one follows from the finite   *)
(* sets being well-founded.                                                *)

\* Every set of naturals has a least member.
LEMMA LeastNat ==
  ASSUME NEW T, T \subseteq Nat, T # {}
  PROVE  \E m \in T : \A k \in T : m <= k
<1> DEFINE F == {0..k : k \in T}
           R == StrictSubsetOrdering(Nat)
           S == FiniteSubsetsOf(Nat)
<1>1. F \subseteq S
  <2> SUFFICES ASSUME NEW k \in T PROVE 0..k \in S
    OBVIOUS
  <2>1. IsFiniteSet(0..k)
    BY FS_Interval
  <2> QED
    BY <2>1 DEF FiniteSubsetsOf
<1>2. F # {}
  OBVIOUS
<1>3. IsWellFoundedOn(R, S)
  BY FS_StrictSubsetOrderingWellFounded
<1>4. ASSUME NEW x \in Nat, NEW y \in Nat, y < x
      PROVE  <<0..y, 0..x>> \in R
  <2>1. x \in 0..x /\ x \notin 0..y /\ 0..y \subseteq 0..x
    BY <1>4
  <2> QED
    BY <2>1 DEF StrictSubsetOrdering
<1>5. \E f \in F : \A g \in F : ~ (<<g, f>> \in R)
  <2> HIDE DEF F, R, S
  <2> QED
    BY <1>1, <1>2, <1>3, WFMin
<1>6. PICK m \in T : \A g \in F : ~ (<<g, 0..m>> \in R)
  BY <1>5
<1>7. ASSUME NEW k \in T PROVE m <= k
  <2>1. ~ (<<0..k, 0..m>> \in R)
    BY <1>6
  <2> HIDE DEF R
  <2> QED
    BY <2>1, <1>4
<1> QED
  BY <1>7

\* A set that holds zero and each next number holds every number.
LEMMA InductiveSet ==
  ASSUME NEW S, 0 \in S, \A n \in Nat : n \in S => n + 1 \in S
  PROVE  Nat \subseteq S
<1> SUFFICES ASSUME Nat \ S # {} PROVE FALSE
  OBVIOUS
<1>1. PICK m \in Nat \ S : \A k \in Nat \ S : m <= k
  BY LeastNat
<1>2. m - 1 \in Nat /\ m - 1 \in S
  BY <1>1
<1> QED
  BY <1>2

-----------------------------------------------------------------------------
(* A draft that is complete.                                               *)

\* CompletedDraftIsFinal: of an ended draft only the reopening is accepted, and
\* that asks for an end that was incomplete or for an open slot.
THEOREM CompletedDraftsStay == Spec => CompletedDraftIsFinal
<1>1. ASSUME Next, status = "ended", ~LastEnded.incomplete,
             \A team \in Teams : RosterSlotsRemaining(Roster(initialRosters, activeSales, team)) = 0
      PROVE  FALSE
  <2>1. ReopenRoom
    BY <1>1 DEF Next, CreateRoom, CancelRoom, SynchronizeInitialRosters, StartRoom, PauseRoom,
                ResumeRoom, EndRoom, LogSale, CorrectSale, UndoLastSale, NotStarted
  <2>2. PICK team \in Teams : RosterSlotsRemaining(Roster(initialRosters, activeSales, team)) > 0
    BY <1>1, <2>1 DEF ReopenRoom, AnyOpenRosterSlot
  <2> QED
    BY <1>1, <2>2
<1>2. [Next]_vars =>
        [~(/\ status = "ended"
           /\ ~LastEnded.incomplete
           /\ \A team \in Teams :
                RosterSlotsRemaining(Roster(initialRosters, activeSales, team)) = 0)]_vars
  BY <1>1
<1> QED
  BY <1>2, PTL DEF Spec, CompletedDraftIsFinal

-----------------------------------------------------------------------------
(* What a log replays to.                                                  *)

\* f is the replay of the first n events of a log, board after board.
Replays(f, log, n) ==
    f = [i \in 0..n |-> IF i = 0 THEN << >> ELSE AfterEvent(f[i - 1], log, i)]

\* The board after n events: ActiveAfter, with the log as a parameter.
ReplayOf(log, n) ==
    LET after[i \in 0..n] == IF i = 0 THEN << >> ELSE AfterEvent(after[i - 1], log, i)
    IN  after[n]

\* Every log has a replay: boards are functions of the boards before them.
LEMMA ReplaysExist ==
    ASSUME NEW log, NEW n \in Nat
    PROVE  \E f : Replays(f, log, n)
<1> DEFINE S == {k \in Nat : \E f : Replays(f, log, k)}
<1>1. 0 \in S
  <2>1. Replays([i \in 0..0 |-> << >>], log, 0)
    BY DEF Replays
  <2> QED
    BY <2>1
<1>2. ASSUME NEW k \in Nat, k \in S PROVE k + 1 \in S
  <2>1. PICK f : Replays(f, log, k)
    BY <1>2
  <2> DEFINE g == [i \in 0..(k + 1) |-> IF i = 0 THEN << >> ELSE AfterEvent(f[i - 1], log, i)]
  <2>2. ASSUME NEW i \in 0..k PROVE g[i] = f[i]
    BY <2>1 DEF Replays
  <2>3. ASSUME NEW i \in 0..(k + 1), i # 0 PROVE g[i - 1] = f[i - 1]
    <3>1. i - 1 \in 0..k
      BY <2>3
    <3> HIDE DEF g
    <3> QED
      BY <2>2, <3>1
  <2>4. Replays(g, log, k + 1)
    BY <2>3 DEF Replays
  <2> QED
    BY <2>4
<1> HIDE DEF S
<1>3. Nat \subseteq S
  BY <1>1, <1>2, InductiveSet
<1> QED
  BY <1>3 DEF S

\* Two logs whose first events do the same to every board.
SameTurns(one, other, n) ==
    \A i \in 1..n : \A active : AfterEvent(active, one, i) = AfterEvent(active, other, i)

\* Logs that do the same to every board replay to the same boards.
LEMMA ReplaysAgree ==
    ASSUME NEW one, NEW m \in Nat, NEW f, Replays(f, one, m),
           NEW other, NEW n \in Nat, NEW g, Replays(g, other, n),
           NEW k \in Nat, k <= m, k <= n, SameTurns(one, other, k)
    PROVE  \A i \in 0..k : f[i] = g[i]
<1> DEFINE S == {i \in Nat : i \in 0..k => f[i] = g[i]}
<1>1. 0 \in S
  BY DEF Replays
<1>2. ASSUME NEW i \in Nat, i \in S PROVE i + 1 \in S
  <2> SUFFICES ASSUME i + 1 \in 0..k PROVE f[i + 1] = g[i + 1]
    OBVIOUS
  <2>1. f[i] = g[i]
    BY <1>2
  <2>2. f[i + 1] = AfterEvent(f[i], one, i + 1)
    BY DEF Replays
  <2>3. g[i + 1] = AfterEvent(g[i], other, i + 1)
    BY DEF Replays
  <2>4. i + 1 \in 1..k
    OBVIOUS
  <2> QED
    BY <2>1, <2>2, <2>3, <2>4 DEF SameTurns
<1> HIDE DEF S
<1>3. Nat \subseteq S
  BY <1>1, <1>2, InductiveSet
<1> QED
  BY <1>3 DEF S

\* The recursive definition of ActiveAfter is a replay.
LEMMA ReplayIsReplay ==
    ASSUME NEW log, NEW n \in Nat
    PROVE  \E f : Replays(f, log, n) /\ ReplayOf(log, n) = f[n]
<1> DEFINE F == CHOOSE f : Replays(f, log, n)
<1>1. Replays(F, log, n)
  BY ReplaysExist
<1>2. ReplayOf(log, n) = F[n]
  BY DEF ReplayOf, Replays
<1> QED
  BY <1>1, <1>2

\* A replay goes one event further by one turn of the loop.
LEMMA ReplayStep ==
    ASSUME NEW log, NEW n \in Nat
    PROVE  /\ ReplayOf(log, 0) = << >>
           /\ ReplayOf(log, n + 1) = AfterEvent(ReplayOf(log, n), log, n + 1)
<1>1. PICK z : Replays(z, log, 0) /\ ReplayOf(log, 0) = z[0]
  BY ReplayIsReplay
<1>2. PICK f : Replays(f, log, n) /\ ReplayOf(log, n) = f[n]
  BY ReplayIsReplay
<1>3. PICK g : Replays(g, log, n + 1) /\ ReplayOf(log, n + 1) = g[n + 1]
  BY ReplayIsReplay
<1>4. f[n] = g[n]
  <2>1. n + 1 \in Nat /\ n <= n + 1 /\ n <= n /\ n \in 0..n
    OBVIOUS
  <2>2. SameTurns(log, log, n)
    BY DEF SameTurns
  <2>3. \A i \in 0..n : f[i] = g[i]
    BY <1>2, <1>3, <2>1, <2>2, ReplaysAgree
  <2> QED
    BY <2>1, <2>3
<1>5. g[n + 1] = AfterEvent(g[n], log, n + 1)
  BY <1>3 DEF Replays
<1> QED
  BY <1>1, <1>2, <1>3, <1>4, <1>5 DEF Replays

\* Logs that agree on the first events replay to the same board.
LEMMA SameReplay ==
    ASSUME NEW one, NEW other, NEW n \in Nat, SameTurns(one, other, n)
    PROVE  ReplayOf(one, n) = ReplayOf(other, n)
<1>1. PICK f : Replays(f, one, n) /\ ReplayOf(one, n) = f[n]
  BY ReplayIsReplay
<1>2. PICK g : Replays(g, other, n) /\ ReplayOf(other, n) = g[n]
  BY ReplayIsReplay
<1> QED
  BY <1>1, <1>2, ReplaysAgree

\* A commit replays to the board it stores, and leaves every earlier replay alone.
LEMMA CommitReplay ==
    ASSUME BoardInv, NEW newStatus, NEW event \in Events, Commit(newStatus, event)
    PROVE  /\ \A n \in 0..revision : ActiveAfter(n)' = ActiveAfter(n)
           /\ activeSales = ActiveAfter(revision) => activeSales' = ActiveAfter(revision)'
<1>1. /\ revision \in Nat /\ DOMAIN events = 1..revision /\ revision' = revision + 1
      /\ \A i \in DOMAIN events : events'[i] = events[i]
      /\ activeSales' = AfterEvent(activeSales, events', revision')
  BY CommitLog, LenProperties DEF BoardInv, TypeOK
<1>2. ASSUME NEW i \in 1..revision, NEW active
      PROVE  AfterEvent(active, events, i) = AfterEvent(active, events', i)
  <2>1. events'[i] = events[i]
    BY <1>1
  <2>2. events[i].type = "sale_undone" => events'[events[i].undone] = events[events[i].undone]
    BY <1>1 DEF BoardInv, SourcesLogged
  <2> QED
    BY <2>1, <2>2 DEF AfterEvent
<1>3. ASSUME NEW n \in 0..revision PROVE ReplayOf(events', n) = ReplayOf(events, n)
  <2>1. n \in Nat /\ 1..n \subseteq 1..revision
    BY <1>1
  <2> QED
    BY <1>2, <2>1, SameReplay DEF SameTurns
<1>4. ReplayOf(events', revision + 1) = AfterEvent(ReplayOf(events', revision), events', revision + 1)
  BY <1>1, ReplayStep
<1>5. ReplayOf(events', revision) = ReplayOf(events, revision)
  BY <1>1, <1>3
<1>6. \A n : ActiveAfter(n) = ReplayOf(events, n)
  BY DEF ActiveAfter, ReplayOf
<1>7. \A n : ActiveAfter(n)' = ReplayOf(events', n)
  BY DEF ActiveAfter, ReplayOf
<1>8. ActiveAfter(revision)' = ReplayOf(events', revision')
  BY DEF ActiveAfter, ReplayOf
<1> QED
  BY <1>1, <1>3, <1>4, <1>5, <1>6, <1>7, <1>8

-----------------------------------------------------------------------------
(* Undoing steps back.                                                     *)

\* The board before a sale or correction, seen from the board after it: without
\* the sale's entry, or with the entry the correction replaced.
StepsBack(before, id, event, after) ==
    /\ event.type = "sale_logged" =>
        \E k \in ActiveIndices(after) :
            /\ after[k].source = id
            /\ SameBoard(WithoutEntry(after, k), before)
    /\ event.type = "sale_corrected" =>
        \E k \in ActiveIndices(after) :
            /\ after[k].source = id
            /\ SameBoard(WithEntry(after, k, event.corrected, event.previous), before)

\* Every sale and correction of the log can be stepped back from.
SalesStepBack == \A i \in DOMAIN events : StepsBack(ActiveAfter(i - 1), i, events[i], ActiveAfter(i))

\* What is active, or was corrected, was recorded by a sale or a correction.
SourcesAreSales ==
    /\ \A k \in ActiveIndices(activeSales) :
        events[activeSales[k].source].type \in {"sale_logged", "sale_corrected"}
    /\ \A i \in DOMAIN events : events[i].type = "sale_corrected" =>
        events[events[i].corrected].type \in {"sale_logged", "sale_corrected"}

\* The inductive invariant behind UndoStepsBack, beside the room's own.
ReplayInv == SalesStepBack /\ SourcesAreSales /\ UndoStepsBack

\* The commits that are no sale, correction or undo.
LEMMA QuietMoves ==
    ASSUME TypeOK, \/ CreateRoom \/ SynchronizeInitialRosters \/ StartRoom
                   \/ PauseRoom \/ ResumeRoom \/ EndRoom \/ ReopenRoom
    PROVE  \E newStatus \in Statuses \ {"none"}, event \in Events :
                Commit(newStatus, event) /\ event.type \notin SaleEvents
<1>1. \A t \in {"room_created", "initial_rosters_synchronized", "room_started",
                "room_paused", "room_resumed", "room_reopened"} :
        [type |-> t] \in Events /\ t \notin SaleEvents
  BY DEF Events, SaleEvents
<1> USE DEF Statuses, NotStarted
<1>2. CASE CreateRoom
  BY <1>1, <1>2 DEF CreateRoom
<1>3. CASE SynchronizeInitialRosters
  BY <1>1, <1>3 DEF SynchronizeInitialRosters
<1>4. CASE StartRoom
  BY <1>1, <1>4 DEF StartRoom
<1>5. CASE PauseRoom
  BY <1>1, <1>5 DEF PauseRoom
<1>6. CASE ResumeRoom
  BY <1>1, <1>6 DEF ResumeRoom
<1>7. CASE ReopenRoom
  BY <1>1, <1>7 DEF ReopenRoom
<1>8. CASE EndRoom
  <2> DEFINE incomplete == AnyOpenRosterSlot(initialRosters, activeSales)
  <2>1. [type |-> "room_ended", incomplete |-> incomplete] \in Events
    BY DEF Events, AnyOpenRosterSlot
  <2>2. Commit("ended", [type |-> "room_ended", incomplete |-> incomplete])
    BY <1>8 DEF EndRoom
  <2> QED
    BY <2>1, <2>2 DEF SaleEvents
<1> QED
  BY <1>2, <1>3, <1>4, <1>5, <1>6, <1>7, <1>8

\* What a commit adds to the history, given what it adds itself.
LEMMA CommitKeepsHistory ==
    ASSUME BoardInv, ReplayInv, NEW newStatus, NEW event \in Events, Commit(newStatus, event),
           StepsBack(activeSales, revision', event, activeSales'),
           event.type = "sale_undone" =>
                /\ event.undone \in DOMAIN events
                /\ event.undone = revision => SameBoard(activeSales', ActiveAfter(revision - 1))
    PROVE  SalesStepBack' /\ UndoStepsBack'
<1>1. /\ revision \in Nat /\ DOMAIN events = 1..revision /\ revision' = revision + 1
      /\ DOMAIN events' = 1..(revision + 1)
      /\ \A i \in DOMAIN events : events'[i] = events[i]
      /\ events'[revision + 1] = event
  BY CommitLog, LenProperties DEF BoardInv, TypeOK
<1>2. /\ \A n \in 0..revision : ActiveAfter(n)' = ActiveAfter(n)
      /\ activeSales' = ActiveAfter(revision)'
      /\ activeSales = ActiveAfter(revision)
  BY CommitReplay DEF ReplayInv, UndoStepsBack
<1>3. \A n : ActiveAfter(n)' = ReplayOf(events', n)
  BY DEF ActiveAfter, ReplayOf
<1>4. \A n \in 0..revision : ReplayOf(events', n) = ActiveAfter(n)
  BY <1>2, <1>3
<1>5. ReplayOf(events', revision + 1) = activeSales'
  <2>1. ActiveAfter(revision)' = ReplayOf(events', revision')
    BY DEF ActiveAfter, ReplayOf
  <2> QED
    BY <1>1, <1>2, <2>1
<1>6. SalesStepBack'
  <2> SUFFICES ASSUME NEW i \in DOMAIN events'
               PROVE  StepsBack(ReplayOf(events', i - 1), i, events'[i], ReplayOf(events', i))
    BY DEF SalesStepBack, ActiveAfter, ReplayOf
  <2>1. CASE i \in DOMAIN events
    <3>1. StepsBack(ActiveAfter(i - 1), i, events[i], ActiveAfter(i))
      BY <2>1 DEF ReplayInv, SalesStepBack
    <3>2. i \in 0..revision /\ i - 1 \in 0..revision /\ events'[i] = events[i]
      BY <1>1, <2>1
    <3> QED
      BY <1>4, <3>1, <3>2
  <2>2. CASE i = revision + 1
    <3>1. i - 1 = revision /\ revision \in 0..revision
      BY <1>1, <2>2
    <3> QED
      BY <1>1, <1>2, <1>4, <1>5, <2>2, <3>1
  <2> QED
    BY <1>1, <2>1, <2>2
<1>7. UndoStepsBack'
  <2>1. \A n \in DOMAIN events' : events'[n].type = "sale_undone" /\ events'[n].undone = n - 1
            => SameBoard(ReplayOf(events', n), ReplayOf(events', n - 2))
    <3> SUFFICES ASSUME NEW n \in DOMAIN events', events'[n].type = "sale_undone",
                        events'[n].undone = n - 1
                 PROVE  SameBoard(ReplayOf(events', n), ReplayOf(events', n - 2))
      OBVIOUS
    <3>1. CASE n \in DOMAIN events
      <4>1. events[n] = events'[n]
        BY <1>1, <3>1
      <4>2. SameBoard(ActiveAfter(n), ActiveAfter(n - 2))
        BY <3>1, <4>1 DEF ReplayInv, UndoStepsBack
      <4>3. n - 1 \in DOMAIN events
        BY <3>1, <4>1 DEF BoardInv, SourcesLogged
      <4>4. n \in 0..revision /\ n - 2 \in 0..revision
        BY <1>1, <3>1, <4>3
      <4> QED
        BY <1>4, <4>2, <4>4
    <3>2. CASE n = revision + 1
      <4>1. event.undone = revision /\ event.type = "sale_undone"
        BY <1>1, <3>2
      <4>2. n - 2 = revision - 1 /\ revision - 1 \in 0..revision
        BY <1>1, <3>2, <4>1
      <4> QED
        BY <1>4, <1>5, <3>2, <4>1, <4>2
    <3> QED
      BY <1>1, <3>1, <3>2
  <2>2. activeSales' = ReplayOf(events', revision')
    BY <1>1, <1>5
  <2> QED
    BY <2>1, <2>2 DEF UndoStepsBack, ActiveAfter, ReplayOf
<1> QED
  BY <1>6, <1>7

\* A sale's entry is the one its undo takes away.
LEMMA LogSaleStepsBack ==
    ASSUME BoardInv, ReplayInv, LogSale
    PROVE  ReplayInv'
<1>1. PICK sale \in SaleInputs : Commit("live", [type |-> "sale_logged", sale |-> sale])
  BY DEF LogSale
<1> DEFINE event == [type |-> "sale_logged", sale |-> sale]
<1>2. event \in Events
  BY DEF Events
<1>3. PICK n \in 0..Len(activeSales) :
        /\ ActiveIndices(activeSales) = 1..n
        /\ activeSales' = WithEntry(activeSales, n + 1, revision', sale)
  BY <1>1, LoggedCommit
<1>4. /\ revision' \in Nat /\ events'[revision'] = event /\ revision' \notin DOMAIN events
      /\ DOMAIN events' = DOMAIN events \cup {revision'}
      /\ \A i \in DOMAIN events : events'[i] = events[i]
      /\ activeSales \in Seq(Entries)
  BY <1>1, <1>2, CommitLog DEF BoardInv, TypeOK
<1> DEFINE k == n + 1
<1>5. k \in 1..(Len(activeSales) + 1) /\ k \notin ActiveIndices(activeSales)
  BY <1>3, <1>4
<1>6. activeSales' = WithEntry(activeSales, k, revision', sale)
  BY <1>3
<1> HIDE DEF k
<1>7. /\ activeSales' \in Seq(Entries)
      /\ ActiveIndices(activeSales') = ActiveIndices(activeSales) \cup {k}
      /\ activeSales'[k] = [source |-> revision', sale |-> sale]
      /\ \A j \in ActiveIndices(activeSales) \ {k} : activeSales'[j] = activeSales[j]
  BY <1>4, <1>5, <1>6, WithEntryType
<1>8. SameBoard(WithoutEntry(activeSales', k), activeSales)
  <2>1. k \in DOMAIN activeSales'
    BY <1>7 DEF ActiveIndices
  <2>2. /\ ActiveIndices(WithoutEntry(activeSales', k)) = ActiveIndices(activeSales') \ {k}
        /\ \A j \in ActiveIndices(activeSales') \ {k} :
                WithoutEntry(activeSales', k)[j] = activeSales'[j]
    BY <1>7, <2>1, WithoutEntryType
  <2> QED
    BY <1>5, <1>7, <2>2 DEF SameBoard
<1>9. StepsBack(activeSales, revision', event, activeSales')
  BY <1>7, <1>8 DEF StepsBack
<1>10. SalesStepBack' /\ UndoStepsBack'
  BY <1>1, <1>2, <1>9, CommitKeepsHistory
<1>11. SourcesAreSales'
  <2>1. ASSUME NEW j \in ActiveIndices(activeSales')
        PROVE  events'[activeSales'[j].source].type \in {"sale_logged", "sale_corrected"}
    <3>1. CASE j = k
      BY <1>4, <1>7, <3>1
    <3>2. CASE j \in ActiveIndices(activeSales)
      <4>1. activeSales'[j] = activeSales[j] /\ activeSales[j].source \in DOMAIN events
        BY <1>5, <1>7, <3>2 DEF BoardInv, SourcesLogged
      <4> QED
        BY <1>4, <3>2, <4>1 DEF ReplayInv, SourcesAreSales
    <3> QED
      BY <1>7, <3>1, <3>2
  <2>2. ASSUME NEW i \in DOMAIN events', events'[i].type = "sale_corrected"
        PROVE  events'[events'[i].corrected].type \in {"sale_logged", "sale_corrected"}
    <3>1. i \in DOMAIN events
      BY <1>4, <2>2
    <3> QED
      BY <1>4, <2>2, <3>1 DEF ReplayInv, SourcesAreSales, BoardInv, SourcesLogged
  <2> QED
    BY <2>1, <2>2 DEF SourcesAreSales
<1> QED
  BY <1>10, <1>11 DEF ReplayInv

\* A correction's entry is the one its undo replaces by the corrected sale.
LEMMA CorrectSaleStepsBack ==
    ASSUME BoardInv, ReplayInv, CorrectSale
    PROVE  ReplayInv'
<1>1. PICK k \in ActiveIndices(activeSales), sale \in SaleInputs :
        Commit("live", [type |-> "sale_corrected",
                        corrected |-> activeSales[k].source,
                        previous |-> activeSales[k].sale,
                        sale |-> sale])
  BY DEF CorrectSale
<1> DEFINE event == [type |-> "sale_corrected", corrected |-> activeSales[k].source,
                     previous |-> activeSales[k].sale, sale |-> sale]
<1>2. event \in Events /\ activeSales' = WithEntry(activeSales, k, revision', sale)
  BY <1>1, CorrectedCommit
<1>3. /\ revision' \in Nat /\ events'[revision'] = event /\ revision' \notin DOMAIN events
      /\ DOMAIN events' = DOMAIN events \cup {revision'}
      /\ \A i \in DOMAIN events : events'[i] = events[i]
      /\ activeSales \in Seq(Entries) /\ k \in 1..Len(activeSales)
      /\ activeSales[k] \in [source : Nat, sale : SaleInputs]
  BY <1>1, <1>2, CommitLog, ActiveEntry DEF BoardInv, TypeOK
<1>4. /\ activeSales' \in Seq(Entries)
      /\ ActiveIndices(activeSales') = ActiveIndices(activeSales)
      /\ activeSales'[k] = [source |-> revision', sale |-> sale]
      /\ \A j \in ActiveIndices(activeSales) \ {k} : activeSales'[j] = activeSales[j]
      /\ Len(activeSales) <= Len(activeSales')
  <2>1. k \in 1..(Len(activeSales) + 1)
    BY <1>3
  <2>2. /\ activeSales' \in Seq(Entries)
        /\ ActiveIndices(activeSales') = ActiveIndices(activeSales) \cup {k}
        /\ activeSales'[k] = [source |-> revision', sale |-> sale]
        /\ \A j \in ActiveIndices(activeSales) \ {k} : activeSales'[j] = activeSales[j]
        /\ Len(activeSales) <= Len(activeSales')
    BY <1>2, <1>3, <2>1, WithEntryType
  <2> QED
    BY <2>2
<1>5. SameBoard(WithEntry(activeSales', k, event.corrected, event.previous), activeSales)
  <2>1. /\ k \in 1..(Len(activeSales') + 1)
        /\ event.corrected \in Nat /\ event.previous \in SaleInputs
        /\ [source |-> event.corrected, sale |-> event.previous] = activeSales[k]
    BY <1>3, <1>4
  <2> HIDE DEF event
  <2>2. LET undone == WithEntry(activeSales', k, event.corrected, event.previous)
        IN  /\ ActiveIndices(undone) = ActiveIndices(activeSales') \cup {k}
            /\ undone[k] = activeSales[k]
            /\ \A j \in ActiveIndices(activeSales') \ {k} : undone[j] = activeSales'[j]
    BY <1>4, <2>1, WithEntryType
  <2> QED
    BY <1>4, <2>2 DEF SameBoard
<1>6. StepsBack(activeSales, revision', event, activeSales')
  <2>1. event.type = "sale_corrected" /\ activeSales'[k].source = revision'
        /\ k \in ActiveIndices(activeSales')
    BY <1>4
  <2> HIDE DEF event
  <2> QED
    BY <1>5, <2>1 DEF StepsBack
<1>7. SalesStepBack' /\ UndoStepsBack'
  BY <1>1, <1>2, <1>6, CommitKeepsHistory
<1>8. SourcesAreSales'
  <2>1. ASSUME NEW j \in ActiveIndices(activeSales')
        PROVE  events'[activeSales'[j].source].type \in {"sale_logged", "sale_corrected"}
    <3>1. CASE j = k
      BY <1>3, <1>4, <3>1
    <3>2. CASE j # k
      <4>1. activeSales'[j] = activeSales[j] /\ activeSales[j].source \in DOMAIN events
            /\ j \in ActiveIndices(activeSales)
        BY <1>4, <3>2 DEF BoardInv, SourcesLogged
      <4> QED
        BY <1>3, <4>1 DEF ReplayInv, SourcesAreSales
    <3> QED
      BY <3>1, <3>2
  <2>2. ASSUME NEW i \in DOMAIN events', events'[i].type = "sale_corrected"
        PROVE  events'[events'[i].corrected].type \in {"sale_logged", "sale_corrected"}
    <3>1. CASE i \in DOMAIN events
      BY <1>3, <2>2, <3>1 DEF ReplayInv, SourcesAreSales, BoardInv, SourcesLogged
    <3>2. CASE i = revision'
      <4>1. activeSales[k].source \in DOMAIN events
        BY DEF BoardInv, SourcesLogged
      <4>2. events[activeSales[k].source].type \in {"sale_logged", "sale_corrected"}
        BY DEF ReplayInv, SourcesAreSales
      <4> QED
        BY <1>3, <3>2, <4>1, <4>2
    <3> QED
      BY <1>3, <3>1, <3>2
  <2> QED
    BY <2>1, <2>2 DEF SourcesAreSales
<1> QED
  BY <1>7, <1>8 DEF ReplayInv

\* The undo of the newest event finds its sale where that event put it.
LEMMA UndoOfNewest ==
    ASSUME BoardInv, ReplayInv, NEW n \in ActiveIndices(activeSales),
           activeSales[n].source = revision,
           Commit("live", [type |-> "sale_undone", undone |-> activeSales[n].source])
    PROVE  SameBoard(activeSales', ActiveAfter(revision - 1))
<1> DEFINE event == events[revision]
<1>1. /\ revision \in DOMAIN events
      /\ event.type = "sale_corrected" =>
            activeSales' = WithEntry(activeSales, n, event.corrected, event.previous)
      /\ event.type # "sale_corrected" => activeSales' = WithoutEntry(activeSales, n)
  BY UndoneCommit
<1>2. event.type \in {"sale_logged", "sale_corrected"}
  BY DEF ReplayInv, SourcesAreSales
<1>3. StepsBack(ActiveAfter(revision - 1), revision, event, activeSales)
  BY <1>1 DEF ReplayInv, SalesStepBack, UndoStepsBack
<1>4. \A k \in ActiveIndices(activeSales) : activeSales[k].source = revision => k = n
  BY SourceIndex DEF IndicesOfSource
<1> HIDE DEF event
<1>5. CASE event.type = "sale_logged"
  BY <1>1, <1>3, <1>4, <1>5 DEF StepsBack
<1>6. CASE event.type = "sale_corrected"
  BY <1>1, <1>3, <1>4, <1>6 DEF StepsBack
<1> QED
  BY <1>2, <1>5, <1>6

\* An undo of the event just recorded restores the board before that event.
LEMMA UndoLastSaleStepsBack ==
    ASSUME BoardInv, ReplayInv, UndoLastSale
    PROVE  ReplayInv'
<1>1. PICK n \in ActiveIndices(activeSales) :
        Commit("live", [type |-> "sale_undone", undone |-> activeSales[n].source])
  <2>1. PICK n \in 0..Len(activeSales) : ActiveIndices(activeSales) = 1..n
    BY DEF BoardInv, ActiveRun
  <2>2. n # 0 /\ activeSales \in Seq(Entries)
    BY <2>1 DEF UndoLastSale, BoardInv, TypeOK
  <2>3. Max(ActiveIndices(activeSales)) \in ActiveIndices(activeSales)
    BY <2>1, <2>2, RunBounds
  <2> QED
    BY <2>3 DEF UndoLastSale
<1> DEFINE source == activeSales[n].source
           event == [type |-> "sale_undone", undone |-> source]
           undone == events[source]
<1>2. /\ event \in Events /\ source \in DOMAIN events
      /\ undone.type = "sale_corrected" =>
            /\ undone.corrected \in Nat /\ undone.previous \in SaleInputs
            /\ activeSales' = WithEntry(activeSales, n, undone.corrected, undone.previous)
      /\ undone.type # "sale_corrected" => activeSales' = WithoutEntry(activeSales, n)
  BY <1>1, UndoneCommit
<1>3. /\ events'[revision'] = event /\ revision' \notin DOMAIN events
      /\ DOMAIN events' = DOMAIN events \cup {revision'}
      /\ \A i \in DOMAIN events : events'[i] = events[i]
      /\ activeSales \in Seq(Entries) /\ n \in 1..Len(activeSales) /\ n \in DOMAIN activeSales
  BY <1>1, <1>2, CommitLog, ActiveEntry DEF BoardInv, TypeOK, ActiveIndices
<1>4. StepsBack(activeSales, revision', event, activeSales')
  BY DEF StepsBack
<1>5. SalesStepBack' /\ UndoStepsBack'
  <2>1. event.undone = revision => SameBoard(activeSales', ActiveAfter(revision - 1))
    BY <1>1, UndoOfNewest
  <2> QED
    BY <1>1, <1>2, <1>4, <2>1, CommitKeepsHistory
<1>6. ASSUME NEW j \in ActiveIndices(activeSales')
      PROVE  events'[activeSales'[j].source].type \in {"sale_logged", "sale_corrected"}
  <2>1. ASSUME j \in ActiveIndices(activeSales), activeSales'[j] = activeSales[j]
        PROVE  events'[activeSales'[j].source].type \in {"sale_logged", "sale_corrected"}
    <3>1. activeSales[j].source \in DOMAIN events
      BY <2>1 DEF BoardInv, SourcesLogged
    <3> QED
      BY <1>3, <2>1, <3>1 DEF ReplayInv, SourcesAreSales
  <2>2. CASE undone.type = "sale_corrected"
    <3>1. n \in 1..(Len(activeSales) + 1)
      BY <1>3
    <3>2. /\ ActiveIndices(activeSales') = ActiveIndices(activeSales) \cup {n}
          /\ activeSales'[n] = [source |-> undone.corrected, sale |-> undone.previous]
          /\ \A i \in ActiveIndices(activeSales) \ {n} : activeSales'[i] = activeSales[i]
      BY <1>2, <1>3, <2>2, <3>1, WithEntryType
    <3>3. CASE j = n
      <4>1. /\ activeSales'[j].source = undone.corrected
            /\ undone.corrected \in DOMAIN events
            /\ events[undone.corrected].type \in {"sale_logged", "sale_corrected"}
        BY <1>2, <2>2, <3>2, <3>3 DEF BoardInv, SourcesLogged, ReplayInv, SourcesAreSales
      <4> HIDE DEF undone
      <4> QED
        BY <1>3, <4>1
    <3>4. CASE j # n
      <4> HIDE DEF undone
      <4> QED
        BY <2>1, <3>2, <3>4
    <3> QED
      BY <3>3, <3>4
  <2>3. CASE undone.type # "sale_corrected"
    <3>1. /\ ActiveIndices(activeSales') = ActiveIndices(activeSales) \ {n}
          /\ \A i \in ActiveIndices(activeSales) \ {n} : activeSales'[i] = activeSales[i]
      BY <1>2, <1>3, <2>3, WithoutEntryType
    <3> QED
      BY <2>1, <3>1
  <2> QED
    BY <2>2, <2>3
<1>7. ASSUME NEW i \in DOMAIN events', events'[i].type = "sale_corrected"
      PROVE  events'[events'[i].corrected].type \in {"sale_logged", "sale_corrected"}
  <2>1. i \in DOMAIN events
    BY <1>3, <1>7
  <2> QED
    BY <1>3, <1>7, <2>1 DEF ReplayInv, SourcesAreSales, BoardInv, SourcesLogged
<1> QED
  BY <1>5, <1>6, <1>7 DEF ReplayInv, SourcesAreSales

\* Every command of the room keeps ReplayInv.
LEMMA NextStepsBack ==
    RoomInv /\ ReplayInv /\ [Next]_vars => ReplayInv'
<1> SUFFICES ASSUME RoomInv, ReplayInv, [Next]_vars PROVE ReplayInv'
  OBVIOUS
<1>1. BoardInv
  BY DEF RoomInv
<1>2. CASE CreateRoom \/ SynchronizeInitialRosters \/ StartRoom
           \/ PauseRoom \/ ResumeRoom \/ EndRoom \/ ReopenRoom
  <2>1. PICK newStatus \in Statuses \ {"none"}, event \in Events :
            Commit(newStatus, event) /\ event.type \notin SaleEvents
    BY <1>1, <1>2, QuietMoves DEF BoardInv
  <2>2. activeSales' = activeSales
    BY <1>1, <2>1, QuietCommit DEF BoardInv
  <2>3. SalesStepBack' /\ UndoStepsBack'
    <3>1. StepsBack(activeSales, revision', event, activeSales')
      BY <2>1 DEF StepsBack, SaleEvents
    <3>2. event.type # "sale_undone"
      BY <2>1 DEF SaleEvents
    <3> QED
      BY <1>1, <2>1, <3>1, <3>2, CommitKeepsHistory
  <2>4. SourcesAreSales'
    <3>1. /\ DOMAIN events' = DOMAIN events \cup {revision'}
          /\ events'[revision'].type \notin SaleEvents
          /\ \A i \in DOMAIN events : events'[i] = events[i]
      BY <1>1, <2>1, CommitLog DEF BoardInv
    <3>2. ASSUME NEW k \in ActiveIndices(activeSales)
          PROVE  events'[activeSales[k].source].type \in {"sale_logged", "sale_corrected"}
      BY <1>1, <3>1 DEF BoardInv, SourcesLogged, ReplayInv, SourcesAreSales
    <3>3. ASSUME NEW i \in DOMAIN events', events'[i].type = "sale_corrected"
          PROVE  events'[events'[i].corrected].type \in {"sale_logged", "sale_corrected"}
      <4>1. i \in DOMAIN events
        BY <3>1, <3>3 DEF SaleEvents
      <4> QED
        BY <1>1, <3>1, <3>3, <4>1 DEF BoardInv, SourcesLogged, ReplayInv, SourcesAreSales
    <3> QED
      BY <2>2, <3>2, <3>3 DEF SourcesAreSales
  <2> QED
    BY <2>3, <2>4 DEF ReplayInv
<1>3. CASE CancelRoom
  <2>1. /\ DOMAIN events' = {} /\ ActiveIndices(activeSales') = {}
        /\ revision' = 0 /\ activeSales' = << >>
    BY <1>3 DEF CancelRoom, ActiveIndices
  <2>2. ReplayOf(events', 0) = << >>
    BY ReplayStep
  <2>3. activeSales' = ReplayOf(events', revision')
    BY <2>1, <2>2
  <2>4. UndoStepsBack'
    BY <2>1, <2>3 DEF UndoStepsBack, ActiveAfter, ReplayOf
  <2>5. SalesStepBack' /\ SourcesAreSales'
    BY <2>1 DEF SalesStepBack, SourcesAreSales
  <2> QED
    BY <2>4, <2>5 DEF ReplayInv
<1>4. CASE LogSale
  BY <1>1, <1>4, LogSaleStepsBack
<1>5. CASE CorrectSale
  BY <1>1, <1>5, CorrectSaleStepsBack
<1>6. CASE UndoLastSale
  BY <1>1, <1>6, UndoLastSaleStepsBack
<1>7. CASE UNCHANGED vars
  <2> USE <1>7 DEF vars
  <2>1. UndoStepsBack'
    <3>1. activeSales = ReplayOf(events, revision)
      BY DEF ReplayInv, UndoStepsBack, ActiveAfter, ReplayOf
    <3>2. \A n \in DOMAIN events : events[n].type = "sale_undone" /\ events[n].undone = n - 1
            => SameBoard(ReplayOf(events, n), ReplayOf(events, n - 2))
      BY DEF ReplayInv, UndoStepsBack, ActiveAfter, ReplayOf
    <3> QED
      BY <3>1, <3>2 DEF UndoStepsBack, ActiveAfter, ReplayOf
  <2>2. SalesStepBack'
    <3>1. \A i \in DOMAIN events :
            StepsBack(ReplayOf(events, i - 1), i, events[i], ReplayOf(events, i))
      BY DEF ReplayInv, SalesStepBack, ActiveAfter, ReplayOf
    <3>2. \A i \in DOMAIN events' :
            StepsBack(ReplayOf(events', i - 1), i, events'[i], ReplayOf(events', i))
      BY <3>1
    <3> QED
      BY <3>2 DEF SalesStepBack, ActiveAfter, ReplayOf
  <2>3. SourcesAreSales'
    BY DEF ReplayInv, SourcesAreSales, ActiveIndices
  <2> QED
    BY <2>1, <2>2, <2>3 DEF ReplayInv
<1> QED
  BY <1>2, <1>3, <1>4, <1>5, <1>6, <1>7 DEF Next

\* UndoStepsBack: for every log, however long, the stored board is its replay, and
\* undoing the newest event brings back the board that event was applied to.
THEOREM UndoAlwaysStepsBack == Spec => []UndoStepsBack
<1>1. Init => ReplayInv
  <2> SUFFICES ASSUME Init PROVE ReplayInv
    OBVIOUS
  <2>1. /\ DOMAIN events = {} /\ ActiveIndices(activeSales) = {}
        /\ revision = 0 /\ activeSales = << >>
    BY DEF Init, ActiveIndices
  <2>2. ReplayOf(events, 0) = << >>
    BY ReplayStep
  <2>3. UndoStepsBack
    BY <2>1, <2>2 DEF UndoStepsBack, ActiveAfter, ReplayOf
  <2> QED
    BY <2>1, <2>3 DEF ReplayInv, SalesStepBack, SourcesAreSales
<1>2. ReplayInv => UndoStepsBack
  BY DEF ReplayInv
<1> QED
  BY <1>1, <1>2, RoomInvariant, NextStepsBack, PTL DEF Spec

-----------------------------------------------------------------------------
(* What a roster costs.                                                    *)

\* A finite set of members whose prices are whole dollars.
Priced(roster) == IsFiniteSet(roster) /\ \A member \in roster : member.price \in Int

\* The recursive function behind Spent, on a family of rosters.
Chosen(s) == CHOOSE x \in s : TRUE

\* f sums the prices of every roster of the family, member by chosen member.
Adds(f, family) ==
    f = [s \in family |-> IF s = {} THEN 0 ELSE Chosen(s).price + f[s \ {Chosen(s)}]]

\* The parts of a roster with at most n members.
AtMost(roster, n) == {s \in SUBSET roster : Cardinality(s) <= n}

\* An element taken away leaves one less.
LEMMA OneLess ==
    ASSUME NEW s, IsFiniteSet(s), NEW x \in s
    PROVE  /\ IsFiniteSet(s \ {x})
           /\ Cardinality(s) \in Nat
           /\ Cardinality(s \ {x}) \in Nat
           /\ Cardinality(s) = Cardinality(s \ {x}) + 1
<1>1. IsFiniteSet(s \ {x}) /\ Cardinality(s \ {x}) = Cardinality(s) - 1
  BY FS_RemoveElement
<1>2. Cardinality(s) \in Nat /\ Cardinality(s \ {x}) \in Nat
  BY <1>1, FS_CardinalityType
<1> QED
  BY <1>1, <1>2

\* The sum over the parts of a roster is well defined, however many members.
LEMMA AddsExists ==
    ASSUME NEW roster, IsFiniteSet(roster)
    PROVE  \E f : Adds(f, SUBSET roster)
<1> DEFINE S == {n \in Nat : \E f : Adds(f, AtMost(roster, n))}
<1>1. 0 \in S
  <2>1. \A s \in AtMost(roster, 0) : s = {}
    BY FS_Subset, FS_EmptySet, FS_CardinalityType DEF AtMost
  <2>2. Adds([s \in AtMost(roster, 0) |-> 0], AtMost(roster, 0))
    BY <2>1 DEF Adds
  <2> QED
    BY <2>2
<1>2. ASSUME NEW n \in Nat, n \in S PROVE n + 1 \in S
  <2>1. PICK f : Adds(f, AtMost(roster, n))
    BY <1>2
  <2> DEFINE F == AtMost(roster, n)
             G == AtMost(roster, n + 1)
             g == [s \in G |-> IF s = {} THEN 0 ELSE Chosen(s).price + f[s \ {Chosen(s)}]]
  <2>2. F \subseteq G
    BY FS_Subset, FS_CardinalityType DEF AtMost
  <2>3. \A s \in F : g[s] = f[s]
    BY <2>1, <2>2 DEF Adds
  <2>4. ASSUME NEW s \in G, NEW x \in s PROVE s \ {x} \in F
    <3>1. s \in SUBSET roster /\ Cardinality(s) <= n + 1
      BY DEF AtMost
    <3>2. IsFiniteSet(s)
      BY <3>1, FS_Subset
    <3> QED
      BY <3>1, <3>2, OneLess DEF AtMost
  <2>5. Adds(g, G)
    <3>1. ASSUME NEW s \in G, s # {}
          PROVE  g[s \ {Chosen(s)}] = f[s \ {Chosen(s)}]
      <4>1. Chosen(s) \in s
        BY <3>1 DEF Chosen
      <4>2. s \ {Chosen(s)} \in F
        BY <2>4, <4>1
      <4> QED
        BY <2>3, <4>2
    <3> QED
      BY <3>1 DEF Adds
  <2> QED
    BY <2>5
<1> HIDE DEF S
<1>3. Nat \subseteq S
  BY <1>1, <1>2, InductiveSet
<1>4. Cardinality(roster) \in S
  BY <1>3, FS_CardinalityType
<1>5. AtMost(roster, Cardinality(roster)) = SUBSET roster
  BY FS_Subset DEF AtMost
<1> QED
  BY <1>4, <1>5 DEF S

\* Two such sums agree wherever both are defined.
LEMMA AddsAgree ==
    ASSUME NEW roster, IsFiniteSet(roster), NEW part \in SUBSET roster,
           NEW f, Adds(f, SUBSET roster), NEW g, Adds(g, SUBSET part)
    PROVE  f[part] = g[part]
<1> DEFINE S == {n \in Nat : \A s \in AtMost(part, n) : f[s] = g[s]}
<1>1. 0 \in S
  <2>1. \A s \in AtMost(part, 0) : s = {}
    BY FS_Subset, FS_EmptySet, FS_CardinalityType DEF AtMost
  <2>2. f[{}] = 0 /\ g[{}] = 0
    BY DEF Adds
  <2> QED
    BY <2>1, <2>2
<1>2. ASSUME NEW n \in Nat, n \in S PROVE n + 1 \in S
  <2> SUFFICES ASSUME NEW s \in AtMost(part, n + 1) PROVE f[s] = g[s]
    OBVIOUS
  <2>1. s \in SUBSET part /\ s \in SUBSET roster /\ Cardinality(s) <= n + 1
    BY DEF AtMost
  <2>2. CASE s = {}
    BY <2>1, <2>2 DEF Adds
  <2>3. CASE s # {}
    <3> DEFINE x == Chosen(s)
    <3>1. x \in s
      BY <2>3 DEF Chosen
    <3>2. f[s] = x.price + f[s \ {x}] /\ g[s] = x.price + g[s \ {x}]
      BY <2>1, <2>3 DEF Adds
    <3> HIDE DEF x
    <3>3. s \ {x} \in AtMost(part, n)
      BY <2>1, <3>1, FS_Subset, OneLess DEF AtMost
    <3> QED
      BY <1>2, <3>2, <3>3
  <2> QED
    BY <2>2, <2>3
<1> HIDE DEF S
<1>3. Nat \subseteq S
  BY <1>1, <1>2, InductiveSet
<1>4. IsFiniteSet(part)
  BY FS_Subset
<1>5. Cardinality(part) \in S /\ part \in AtMost(part, Cardinality(part))
  BY <1>3, <1>4, FS_CardinalityType DEF AtMost
<1> QED
  BY <1>5 DEF S

\* Spent is such a sum.
LEMMA SpentAdds ==
    ASSUME NEW roster, IsFiniteSet(roster)
    PROVE  \E f : Adds(f, SUBSET roster) /\ Spent(roster) = f[roster]
<1> DEFINE F == CHOOSE f : Adds(f, SUBSET roster)
<1>1. Adds(F, SUBSET roster)
  BY AddsExists
<1>2. Spent(roster) = F[roster]
  BY DEF Spent, MapThenSumSet, MapThenFoldSet, Adds, Chosen
<1> QED
  BY <1>1, <1>2

\* Spent takes out the members one after the other, starting with the chosen one.
LEMMA SpentChosen ==
    ASSUME NEW roster, IsFiniteSet(roster), roster # {}
    PROVE  \E x \in roster : Spent(roster) = x.price + Spent(roster \ {x})
<1> DEFINE x == Chosen(roster)
<1>1. x \in roster
  BY DEF Chosen
<1>2. PICK f : Adds(f, SUBSET roster) /\ Spent(roster) = f[roster]
  BY SpentAdds
<1>3. f[roster] = x.price + f[roster \ {x}]
  BY <1>2 DEF Adds
<1> HIDE DEF x
<1>4. IsFiniteSet(roster \ {x}) /\ roster \ {x} \in SUBSET roster
  BY FS_Subset
<1>5. PICK g : Adds(g, SUBSET (roster \ {x})) /\ Spent(roster \ {x}) = g[roster \ {x}]
  BY <1>4, SpentAdds
<1>6. f[roster \ {x}] = g[roster \ {x}]
  BY <1>2, <1>4, <1>5, AddsAgree
<1> QED
  BY <1>1, <1>2, <1>3, <1>5, <1>6

\* An empty roster costs nothing.
LEMMA SpentNothing == Spent({}) = 0
<1>1. IsFiniteSet({})
  BY FS_EmptySet
<1>2. PICK f : Adds(f, SUBSET {}) /\ Spent({}) = f[{}]
  BY <1>1, SpentAdds
<1> QED
  BY <1>2 DEF Adds


\* What a roster costs is a whole number of dollars.
LEMMA SpentType ==
    ASSUME NEW roster, Priced(roster)
    PROVE  Spent(roster) \in Int
<1> DEFINE S == {n \in Nat : \A r : Priced(r) /\ Cardinality(r) = n => Spent(r) \in Int}
<1>1. 0 \in S
  BY FS_EmptySet, SpentNothing DEF Priced
<1>2. ASSUME NEW n \in Nat, n \in S PROVE n + 1 \in S
  <2> SUFFICES ASSUME NEW r, Priced(r), Cardinality(r) = n + 1 PROVE Spent(r) \in Int
    OBVIOUS
  <2>1. r # {}
    BY FS_EmptySet
  <2>2. PICK x \in r : Spent(r) = x.price + Spent(r \ {x})
    BY <2>1, SpentChosen DEF Priced
  <2>3. Priced(r \ {x}) /\ Cardinality(r \ {x}) = n
    <3>1. IsFiniteSet(r)
      BY DEF Priced
    <3>2. /\ IsFiniteSet(r \ {x}) /\ Cardinality(r \ {x}) \in Nat
          /\ Cardinality(r) = Cardinality(r \ {x}) + 1
      BY <3>1, OneLess
    <3> QED
      BY <3>2 DEF Priced
  <2>4. Spent(r \ {x}) \in Int /\ x.price \in Int
    BY <1>2, <2>3 DEF Priced
  <2> QED
    BY <2>2, <2>4
<1> HIDE DEF S
<1>3. Nat \subseteq S
  BY <1>1, <1>2, InductiveSet
<1>4. Cardinality(roster) \in Nat
  BY FS_CardinalityType DEF Priced
<1> QED
  BY <1>3, <1>4 DEF S

\* Any member may be taken out first.
Sums(roster) ==
    /\ Spent(roster) \in Int
    /\ \A x \in roster : Spent(roster) = x.price + Spent(roster \ {x})

\* The order of addition does not matter: induction on the size of the roster,
\* exchanging the member taken first with the chosen one.
LEMMA SpentOfMember ==
    ASSUME NEW roster, Priced(roster)
    PROVE  Sums(roster)
<1> DEFINE S == {n \in Nat : \A r : Priced(r) /\ Cardinality(r) = n => Sums(r)}
<1>1. 0 \in S
  <2>1. ASSUME NEW r, Priced(r), Cardinality(r) = 0 PROVE Sums(r)
    <3>1. r = {}
      BY <2>1, FS_EmptySet DEF Priced
    <3> QED
      BY <3>1, SpentNothing DEF Sums
  <2> QED
    BY <2>1
<1>2. ASSUME NEW n \in Nat, n \in S PROVE n + 1 \in S
  <2> SUFFICES ASSUME NEW r, Priced(r), Cardinality(r) = n + 1 PROVE Sums(r)
    OBVIOUS
  <2>1. ASSUME NEW z \in r
        PROVE  /\ Priced(r \ {z}) /\ Sums(r \ {z})
    <3>1. IsFiniteSet(r \ {z}) /\ Cardinality(r \ {z}) = n
      <4>1. IsFiniteSet(r)
        BY DEF Priced
      <4>2. /\ IsFiniteSet(r \ {z}) /\ Cardinality(r \ {z}) \in Nat
            /\ Cardinality(r) = Cardinality(r \ {z}) + 1
        BY <4>1, OneLess
      <4> QED
        BY <4>2
    <3>2. Priced(r \ {z})
      BY <3>1 DEF Priced
    <3> QED
      BY <1>2, <3>1, <3>2
  <2>2. r # {}
    BY FS_EmptySet
  <2>3. PICK y \in r : Spent(r) = y.price + Spent(r \ {y})
    BY <2>2, SpentChosen DEF Priced
  <2>4. y.price \in Int /\ Spent(r \ {y}) \in Int
    BY <2>1, <2>3 DEF Priced, Sums
  <2>5. ASSUME NEW x \in r, x # y PROVE Spent(r) = x.price + Spent(r \ {x})
    <3>1. x \in r \ {y} /\ y \in r \ {x}
      BY <2>5
    <3>2. Spent(r \ {y}) = x.price + Spent((r \ {y}) \ {x})
      BY <2>1, <3>1 DEF Sums
    <3>3. Spent(r \ {x}) = y.price + Spent((r \ {x}) \ {y})
      BY <2>1, <3>1 DEF Sums
    <3>4. (r \ {y}) \ {x} = (r \ {x}) \ {y}
      OBVIOUS
    <3> DEFINE rest == (r \ {y}) \ {x}
    <3>5. Spent(rest) \in Int
      <4>1. Priced(rest)
        BY <2>1, FS_RemoveElement DEF Priced
      <4> HIDE DEF rest
      <4> QED
        BY <4>1, SpentType
    <3>6. x.price \in Int
      BY DEF Priced
    <3>7. Spent(r \ {y}) = x.price + Spent(rest)
      BY <3>2
    <3>8. Spent(r \ {x}) = y.price + Spent(rest)
      BY <3>3, <3>4
    <3> HIDE DEF rest
    <3> QED
      BY <2>3, <2>4, <3>5, <3>6, <3>7, <3>8
  <2>6. Spent(r) \in Int
    BY <2>3, <2>4
  <2> QED
    BY <2>3, <2>5, <2>6 DEF Sums
<1> HIDE DEF S
<1>3. Nat \subseteq S
  BY <1>1, <1>2, InductiveSet
<1>4. Cardinality(roster) \in Nat
  BY FS_CardinalityType DEF Priced
<1> QED
  BY <1>3, <1>4 DEF S

-----------------------------------------------------------------------------
(* Legal rosters.                                                          *)

\* What RosterAccepts keeps true of one team, and what it needs to keep it so.
\* The reserve is only claimed for a one-dollar minimum, as in the property.
LegalRoster(roster) ==
    /\ Priced(roster)
    /\ \A member \in roster : member.from # <<"offered">>
    /\ ~Snake => \A member \in roster : member.price >= 1
    /\ Cardinality(roster) <= Cardinality(RosterSlots)
    /\ FitsDraftSlots(roster)
    /\ \A position \in Positions : PositionCount(roster, position) <= PositionMaximum(position)
    /\ ~Snake /\ MinBid = 1 =>
            BudgetRemaining(roster) >= MinBid * RosterSlotsRemaining(roster)

\* The lineup's slots can be counted, and the budget covers them all.
LEMMA SlotsAreFinite ==
    /\ IsFiniteSet(RosterSlots) /\ Cardinality(RosterSlots) \in Nat
    /\ Budget \in Nat /\ Budget >= MinBid * Cardinality(RosterSlots)
<1> DEFINE slots == Cardinality(RosterSlots)
<1>1. IsFiniteSet(RosterSlots) /\ slots \in Nat
  BY SeasonReady, FS_CardinalityType
<1>2. /\ RosterSize \in Nat /\ slots <= RosterSize
      /\ Budget \in Nat /\ MinBid \in Nat /\ Budget >= MinBid * RosterSize
  BY SeasonReady
<1> HIDE DEF slots
<1>3. MinBid * RosterSize = MinBid * slots + MinBid * (RosterSize - slots)
  BY <1>1, <1>2
<1>4. MinBid * (RosterSize - slots) \in Nat /\ MinBid * slots \in Nat
  <2>1. RosterSize - slots \in Nat
    BY <1>1, <1>2
  <2> QED
    BY <1>1, <1>2, <2>1
<1>5. Budget >= MinBid * slots
  BY <1>2, <1>3, <1>4
<1> QED
  BY <1>1, <1>2, <1>5 DEF slots

\* A position's maximum is a number of members.
LEMMA MaximumsAreCounts ==
    ASSUME NEW position \in Positions
    PROVE  PositionMaximum(position) \in Nat
<1> DEFINE accepting == {s \in RosterSlots : position \in Eligible[s]}
<1>1. Cardinality(accepting) \in Nat
  BY SlotsAreFinite, FS_Subset, FS_CardinalityType
<1>2. RosterMaximum[position] \in Nat
  BY SeasonReady
<1> HIDE DEF accepting
<1> QED
  BY <1>1, <1>2 DEF PositionMaximum, accepting

\* A team with nobody on its roster.
LEMMA NobodyIsLegal == LegalRoster({})
<1>1. Priced({}) /\ Cardinality({}) = 0
  BY FS_EmptySet DEF Priced
<1>2. FitsDraftSlots({})
  <2>1. [x \in {} |-> x] \in Injection({}, RosterSlots)
    BY DEF Injection, IsInjective
  <2> QED
    BY <2>1 DEF FitsDraftSlots
<1>3. \A position \in Positions : PositionCount({}, position) <= PositionMaximum(position)
  <2>1. \A position \in Positions : PositionCount({}, position) = 0
    BY FS_EmptySet DEF PositionCount
  <2> QED
    BY <2>1, MaximumsAreCounts
<1>4. BudgetRemaining({}) >= MinBid * RosterSlotsRemaining({})
  <2>1. RosterSlotsRemaining({}) = Cardinality(RosterSlots)
    BY <1>1, SlotsAreFinite DEF RosterSlotsRemaining, AtLeastZero
  <2>2. BudgetRemaining({}) = Budget
    BY SpentNothing, SlotsAreFinite DEF BudgetRemaining
  <2> QED
    BY <2>1, <2>2, SlotsAreFinite
<1> QED
  BY <1>1, <1>2, <1>3, <1>4, SlotsAreFinite DEF LegalRoster

\* A roster that loses a member stays legal: its money and its slots come back.
LEMMA SmallerIsLegal ==
    ASSUME NEW roster, LegalRoster(roster), NEW x \in roster
    PROVE  LegalRoster(roster \ {x})
<1> DEFINE rest == roster \ {x}
           slots == Cardinality(RosterSlots)
<1>1. IsFiniteSet(roster) /\ rest \in SUBSET roster /\ slots \in Nat /\ Budget \in Nat
  BY SlotsAreFinite DEF LegalRoster, Priced
<1>2. /\ IsFiniteSet(rest) /\ Cardinality(rest) \in Nat /\ Cardinality(roster) \in Nat
      /\ Cardinality(roster) = Cardinality(rest) + 1
  BY <1>1, OneLess
<1>3. Priced(rest)
  BY <1>2 DEF LegalRoster, Priced
<1>4. FitsDraftSlots(rest)
  <2>1. PICK slotOf \in Injection(roster, RosterSlots) :
            \A member \in roster : PositionOf[member.player] \in Eligible[slotOf[member]]
    BY DEF LegalRoster, FitsDraftSlots
  <2> DEFINE part == [member \in rest |-> slotOf[member]]
  <2>2. part \in Injection(rest, RosterSlots)
    BY <2>1 DEF Injection, IsInjective
  <2>3. \A member \in rest : PositionOf[member.player] \in Eligible[part[member]]
    BY <2>1
  <2> QED
    BY <2>2, <2>3 DEF FitsDraftSlots
<1>5. ASSUME NEW position \in Positions
      PROVE  PositionCount(rest, position) <= PositionMaximum(position)
  <2> DEFINE all == {member \in roster : PositionOf[member.player] = position}
             some == {member \in rest : PositionOf[member.player] = position}
  <2>1. some \in SUBSET all /\ all \in SUBSET roster
    OBVIOUS
  <2>2. IsFiniteSet(all) /\ Cardinality(some) <= Cardinality(all)
    BY <1>1, <2>1, FS_Subset
  <2>3. Cardinality(all) \in Nat /\ Cardinality(some) \in Nat
    BY <2>1, <2>2, FS_Subset, FS_CardinalityType
  <2>4. Cardinality(all) <= PositionMaximum(position) /\ PositionMaximum(position) \in Nat
    BY MaximumsAreCounts DEF LegalRoster, PositionCount
  <2>5. PositionCount(rest, position) = Cardinality(some)
    BY DEF PositionCount
  <2> HIDE DEF all, some, rest
  <2> QED
    BY <2>2, <2>3, <2>4, <2>5
<1>6. ASSUME ~Snake, MinBid = 1
      PROVE  BudgetRemaining(rest) >= MinBid * RosterSlotsRemaining(rest)
  <2>1. Spent(roster) = x.price + Spent(rest) /\ Spent(rest) \in Int
    BY <1>3, SpentOfMember, SpentType DEF LegalRoster, Sums
  <2>2. x.price \in Int /\ x.price >= 1
    BY <1>6 DEF LegalRoster, Priced
  <2>3. BudgetRemaining(roster) >= RosterSlotsRemaining(roster)
    <3>1. RosterSlotsRemaining(roster) \in Int
      BY <1>1, <1>2 DEF RosterSlotsRemaining, AtLeastZero
    <3>2. BudgetRemaining(roster) >= MinBid * RosterSlotsRemaining(roster)
      BY <1>6 DEF LegalRoster
    <3> QED
      BY <1>6, <3>1, <3>2
  <2>4. /\ RosterSlotsRemaining(roster) = slots - Cardinality(roster)
        /\ RosterSlotsRemaining(rest) = slots - Cardinality(rest)
    BY <1>1, <1>2 DEF LegalRoster, RosterSlotsRemaining, AtLeastZero
  <2>5. BudgetRemaining(rest) = BudgetRemaining(roster) + x.price
    BY <1>1, <2>1, <2>2 DEF BudgetRemaining
  <2>6. BudgetRemaining(roster) \in Int
    BY <1>1, <2>1, <2>2 DEF BudgetRemaining
  <2> HIDE DEF rest, slots
  <2>7. BudgetRemaining(rest) >= RosterSlotsRemaining(rest)
    BY <1>1, <1>2, <2>2, <2>3, <2>4, <2>5, <2>6
  <2>8. RosterSlotsRemaining(rest) \in Int
    BY <1>1, <1>2, <2>4
  <2> QED
    BY <1>6, <2>7, <2>8
<1>7. /\ \A member \in rest : member.from # <<"offered">>
      /\ ~Snake => \A member \in rest : member.price >= 1
      /\ Cardinality(rest) <= slots
  BY <1>1, <1>2 DEF LegalRoster
<1> QED
  BY <1>3, <1>4, <1>5, <1>6, <1>7 DEF LegalRoster

\* A roster that accepts a player is legal with him.
LEMMA AcceptedIsLegal ==
    ASSUME NEW roster, LegalRoster(roster), NEW player, NEW price \in Int, NEW from,
           PositivePrice(price), RosterAccepts(roster, player, price),
           from # <<"offered">>,
           [from |-> from, player |-> player, price |-> price] \notin roster
    PROVE  LegalRoster(roster \cup {[from |-> from, player |-> player, price |-> price]})
<1> DEFINE x == [from |-> from, player |-> player, price |-> price]
           offered == [from |-> <<"offered">>, player |-> player, price |-> price]
           more == roster \cup {x}
           slots == Cardinality(RosterSlots)
<1>1. /\ IsFiniteSet(roster) /\ slots \in Nat /\ Budget \in Nat
      /\ x.from = from /\ x.player = player /\ x.price = price /\ x \notin roster
  BY SlotsAreFinite DEF LegalRoster, Priced
<1>2. /\ IsFiniteSet(more) /\ Cardinality(roster) \in Nat
      /\ Cardinality(more) = Cardinality(roster) + 1
  BY <1>1, FS_AddElement, FS_CardinalityType
<1>3. Priced(more)
  BY <1>1, <1>2 DEF LegalRoster, Priced
<1>4. Cardinality(roster) < slots
  BY <1>1, <1>2 DEF RosterAccepts, RosterSlotsRemaining, AtLeastZero
<1>5. FitsDraftSlots(more)
  <2>1. PICK slotOf \in Injection(roster \cup {offered}, RosterSlots) :
            \A member \in roster \cup {offered} :
                PositionOf[member.player] \in Eligible[slotOf[member]]
    BY DEF RosterAccepts, FitsDraftSlots
  <2>2. offered \notin roster /\ offered.player = player
    BY DEF LegalRoster
  <2> DEFINE next == [member \in more |-> IF member = x THEN slotOf[offered] ELSE slotOf[member]]
  <2> HIDE DEF x, offered
  <2>3. next \in Injection(more, RosterSlots)
    BY <1>1, <2>1, <2>2 DEF Injection, IsInjective
  <2>4. \A member \in more : PositionOf[member.player] \in Eligible[next[member]]
    BY <1>1, <2>1, <2>2
  <2> QED
    BY <2>3, <2>4 DEF FitsDraftSlots
<1>6. ASSUME NEW position \in Positions
      PROVE  PositionCount(more, position) <= PositionMaximum(position)
  <2> DEFINE old == {member \in roster : PositionOf[member.player] = position}
             new == {member \in more : PositionOf[member.player] = position}
  <2>1. /\ IsFiniteSet(old) /\ Cardinality(old) \in Nat
        /\ PositionCount(roster, position) = Cardinality(old)
        /\ PositionCount(more, position) = Cardinality(new)
    BY <1>1, FS_Subset, FS_CardinalityType DEF PositionCount
  <2>2. Cardinality(old) <= PositionMaximum(position) /\ PositionMaximum(position) \in Nat
    BY <2>1, MaximumsAreCounts DEF LegalRoster
  <2>3. CASE PositionOf[player] = position
    <3>1. new = old \cup {x}
      BY <1>1, <2>3
    <3>2. Cardinality(new) <= Cardinality(old) + 1 /\ Cardinality(new) \in Nat
      <4> HIDE DEF old, new, x
      <4>1. Cardinality(old \cup {x}) = IF x \in old THEN Cardinality(old) ELSE Cardinality(old) + 1
        BY <2>1, FS_AddElement
      <4> QED
        BY <2>1, <3>1, <4>1
    <3>3. Cardinality(old) < PositionMaximum(position)
      BY <2>1, <2>3 DEF RosterAccepts
    <3> HIDE DEF old, new, more
    <3> QED
      BY <2>1, <2>2, <3>2, <3>3
  <2>4. CASE PositionOf[player] # position
    <3>1. new = old
      BY <1>1, <2>4
    <3> QED
      BY <2>1, <2>2, <3>1
  <2> QED
    BY <2>3, <2>4
<1>7. ASSUME ~Snake PROVE price >= 1
  BY <1>7 DEF PositivePrice
<1>8. ASSUME ~Snake, MinBid = 1
      PROVE  BudgetRemaining(more) >= MinBid * RosterSlotsRemaining(more)
  <2>1. Spent(more) = price + Spent(roster) /\ Spent(roster) \in Int
    <3>1. more \ {x} = roster /\ x \in more
      BY <1>1
    <3>2. Spent(more) = x.price + Spent(more \ {x})
      BY <1>3, <3>1, SpentOfMember DEF Sums
    <3> QED
      BY <1>1, <3>1, <3>2, SpentType DEF LegalRoster
  <2> DEFINE left == slots - Cardinality(roster)
             money == BudgetRemaining(roster)
  <2>2. left \in Nat /\ left > 0 /\ money \in Int
    BY <1>1, <1>2, <1>4, <2>1 DEF BudgetRemaining
  <2>3. RosterSlotsRemaining(roster) = left /\ RosterSlotsRemaining(more) = left - 1
    BY <1>1, <1>2, <1>4 DEF RosterSlotsRemaining, AtLeastZero
  <2>4. price <= MaxBid(money, left)
    BY <1>8, <2>3 DEF RosterAccepts
  <2>5. MaxBid(money, left) = AtLeastZero(money - (left - 1))
    <3> HIDE DEF left, money
    <3>1. AtLeastZero(left - 1) = left - 1
      BY <2>2 DEF AtLeastZero
    <3> QED
      BY <1>8, <2>2, <3>1 DEF MaxBid
  <2>6. BudgetRemaining(more) = money - price
    BY <1>1, <2>1 DEF BudgetRemaining
  <2> HIDE DEF left, money, more
  <2>7. money - price >= left - 1
    BY <1>7, <1>8, <2>2, <2>4, <2>5 DEF AtLeastZero
  <2> QED
    BY <1>8, <2>2, <2>3, <2>6, <2>7
<1>9. /\ \A member \in more : member.from # <<"offered">>
      /\ ~Snake => \A member \in more : member.price >= 1
      /\ Cardinality(more) <= slots
  BY <1>1, <1>2, <1>4, <1>7 DEF LegalRoster
<1> QED
  BY <1>3, <1>5, <1>6, <1>8, <1>9 DEF LegalRoster

-----------------------------------------------------------------------------
(* Rosters of a board that gains or loses a sale.                          *)

\* The roster member that the sale of sequence index k makes.
SaleMember(k, sale) == [from |-> <<"sale", k>>, player |-> sale.player, price |-> sale.price]

\* active is board with one more sale, at index k.
OneMore(board, active, k) ==
    /\ k \notin ActiveIndices(board)
    /\ ActiveIndices(active) = ActiveIndices(board) \cup {k}
    /\ \A j \in ActiveIndices(board) : active[j] = board[j]

\* Every team's roster on a board.
LegalBoard(keepers, active) == \A team \in Teams : LegalRoster(Roster(keepers, active, team))

\* larger is smaller with one more member.
Joined(smaller, larger, member) == member \notin smaller /\ larger = smaller \cup {member}

\* One more sale changes the roster of its own team, by one member.
LEMMA RosterWithOneMore ==
    ASSUME NEW keepers, NEW board, NEW active, NEW k, NEW team, OneMore(board, active, k)
    PROVE  IF team = active[k].sale.team
           THEN Joined(Roster(keepers, board, team), Roster(keepers, active, team),
                       SaleMember(k, active[k].sale))
           ELSE Roster(keepers, active, team) = Roster(keepers, board, team)
<1> DEFINE of(a) == {j \in ActiveIndices(a) : a[j].sale.team = team}
<1>1. \A a : SalesOf(a, team) = {SaleMember(j, a[j].sale) : j \in of(a)}
  BY DEF SalesOf, SaleMember
<1>2. {SaleMember(j, active[j].sale) : j \in of(board)}
        = {SaleMember(j, board[j].sale) : j \in of(board)}
  BY DEF OneMore
<1>3. ASSUME team # active[k].sale.team
      PROVE  Roster(keepers, active, team) = Roster(keepers, board, team)
  <2>1. of(active) = of(board)
    BY <1>3 DEF OneMore
  <2> HIDE DEF of
  <2> QED
    BY <1>1, <1>2, <2>1 DEF Roster
<1>4. ASSUME team = active[k].sale.team
      PROVE  /\ SaleMember(k, active[k].sale) \notin Roster(keepers, board, team)
             /\ Roster(keepers, active, team) =
                        Roster(keepers, board, team) \cup {SaleMember(k, active[k].sale)}
  <2>1. of(active) = of(board) \cup {k}
    BY <1>4 DEF OneMore
  <2>2. k \notin of(board)
    BY DEF OneMore
  <2>3. SaleMember(k, active[k].sale) \notin KeepersOf(keepers, team)
    BY DEF SaleMember, KeepersOf
  <2> HIDE DEF of
  <2>4. SaleMember(k, active[k].sale) \notin SalesOf(board, team)
    BY <1>1, <2>2 DEF SaleMember
  <2>5. SalesOf(active, team) = SalesOf(board, team) \cup {SaleMember(k, active[k].sale)}
    BY <1>1, <1>2, <2>1
  <2> QED
    BY <2>3, <2>4, <2>5 DEF Roster
<1> QED
  BY <1>3, <1>4 DEF Joined

\* A board stays legal when it loses a sale.
LEMMA LostSaleIsLegal ==
    ASSUME NEW keepers, NEW board, NEW active, NEW k, OneMore(board, active, k),
           LegalBoard(keepers, active)
    PROVE  LegalBoard(keepers, board)
<1> SUFFICES ASSUME NEW team \in Teams PROVE LegalRoster(Roster(keepers, board, team))
  BY DEF LegalBoard
<1> DEFINE x == SaleMember(k, active[k].sale)
           r == Roster(keepers, active, team)
           s == Roster(keepers, board, team)
<1>1. LegalRoster(r)
  BY DEF LegalBoard
<1>2. Joined(s, r, x) \/ r = s
  BY RosterWithOneMore
<1> HIDE DEF x, r, s
<1>3. LegalRoster(s)
  <2>1. CASE Joined(s, r, x)
    <3>1. x \in r /\ s = r \ {x}
      BY <2>1 DEF Joined
    <3> QED
      BY <1>1, <3>1, SmallerIsLegal
  <2> QED
    BY <1>1, <1>2, <2>1
<1> QED
  BY <1>3 DEF s

\* A board stays legal when it gains a sale that the room accepts.
LEMMA NewSaleIsLegal ==
    ASSUME NEW keepers, NEW board, NEW active, NEW k, OneMore(board, active, k),
           LegalBoard(keepers, board), active[k].sale \in SaleInputs,
           PositivePrice(active[k].sale.price), ValidSale(keepers, board, active[k].sale)
    PROVE  LegalBoard(keepers, active)
<1> SUFFICES ASSUME NEW team \in Teams PROVE LegalRoster(Roster(keepers, active, team))
  BY DEF LegalBoard
<1> DEFINE sale == active[k].sale
           r == Roster(keepers, active, team)
           s == Roster(keepers, board, team)
<1>1. LegalRoster(s)
  BY DEF LegalBoard
<1>2. CASE team # sale.team
  <2>1. r = s
    BY <1>2, RosterWithOneMore
  <2> HIDE DEF r, s
  <2> QED
    BY <1>1, <2>1 DEF r
<1>3. CASE team = sale.team
  <2>1. /\ SaleMember(k, sale) \notin s
        /\ r = s \cup {SaleMember(k, sale)}
    <3>1. Joined(s, r, SaleMember(k, sale))
      BY <1>3, RosterWithOneMore
    <3> QED
      BY <3>1 DEF Joined
  <2>2. RosterAccepts(s, sale.player, sale.price) /\ sale.price \in Int
    BY <1>3, InputsTyped DEF ValidSale
  <2>3. <<"sale", k>> # <<"offered">>
    OBVIOUS
  <2> HIDE DEF sale, r, s
  <2>4. LegalRoster(s \cup {SaleMember(k, sale)})
    BY <1>1, <2>1, <2>2, <2>3, AcceptedIsLegal DEF SaleMember, sale
  <2> QED
    BY <2>1, <2>4 DEF r
<1> QED
  BY <1>2, <1>3

\* Keepers checked one by one make legal rosters.
LEMMA ValidRostersAreLegal ==
    ASSUME NEW keepers \in RosterInputs, ValidInitialRosters(keepers), NEW team \in Teams
    PROVE  LegalRoster(KeepersOf(keepers, team))
<1> DEFINE n == Len(keepers)
           first(i) == SubSeq(keepers, 1, i)
           S == {i \in Nat : i <= n => LegalRoster(KeepersOf(first(i), team))}
           Member(i) == [from |-> <<"keeper", i>>, player |-> keepers[i].player,
                         price |-> keepers[i].price]
<1>1. keepers \in Seq(Range(keepers)) /\ n \in Nat /\ DOMAIN keepers = 1..n
      /\ \A i \in 1..n : keepers[i].price \in Int
  BY InputsTyped, LenProperties
<1>2. ASSUME NEW i \in 0..n
      PROVE  /\ DOMAIN first(i) = 1..i
             /\ \A j \in 1..i : first(i)[j] = keepers[j]
  BY <1>1
<1>3. ASSUME NEW i \in 0..n
      PROVE  KeepersOf(first(i), team) = {Member(j) : j \in {l \in 1..i : keepers[l].team = team}}
  <2> HIDE DEF first
  <2>1. {j \in DOMAIN first(i) : first(i)[j].team = team} = {l \in 1..i : keepers[l].team = team}
    BY <1>2
  <2> QED
    BY <1>2, <2>1 DEF KeepersOf
<1>4. 0 \in S
  <2>1. KeepersOf(first(0), team) = {}
    BY <1>1, <1>3
  <2> QED
    BY <2>1, NobodyIsLegal
<1>5. ASSUME NEW i \in Nat, i \in S PROVE i + 1 \in S
  <2> SUFFICES ASSUME i + 1 <= n PROVE LegalRoster(KeepersOf(first(i + 1), team))
    OBVIOUS
  <2> DEFINE k == i + 1
             r == KeepersOf(first(i), team)
  <2>1. i \in 0..n /\ k \in 0..n /\ k \in 1..n /\ k \in DOMAIN keepers /\ k - 1 = i
    BY <1>1
  <2>2. LegalRoster(r)
    BY <1>5, <2>1
  <2>3. CASE keepers[k].team # team
    <3>1. {l \in 1..k : keepers[l].team = team} = {l \in 1..i : keepers[l].team = team}
      BY <2>1, <2>3
    <3> HIDE DEF first, Member, k
    <3>2. KeepersOf(first(k), team) = r
      BY <1>3, <2>1, <3>1
    <3> QED
      BY <2>2, <3>2 DEF k
  <2>4. CASE keepers[k].team = team
    <3>1. {l \in 1..k : keepers[l].team = team} = {l \in 1..i : keepers[l].team = team} \cup {k}
      BY <2>1, <2>4
    <3>2. KeepersOf(first(k), team) = r \cup {Member(k)}
      <4> HIDE DEF first, Member, k
      <4> QED
        BY <1>3, <2>1, <3>1
    <3>3. Member(k) \notin r
      <4>1. \A j \in 1..i : j # k
        BY <2>1
      <4> HIDE DEF k, first
      <4> QED
        BY <1>3, <2>1, <4>1
    <3>4. /\ PositivePrice(keepers[k].price)
          /\ RosterAccepts(Roster(first(i), << >>, team), keepers[k].player, keepers[k].price)
      BY <2>1, <2>4 DEF ValidInitialRosters
    <3>5. Roster(first(i), << >>, team) = r
      BY DEF Roster, SalesOf, ActiveIndices
    <3>6. keepers[k].price \in Int /\ <<"keeper", k>> # <<"offered">>
      BY <1>1, <2>1
    <3> HIDE DEF r, k, first
    <3>7. LegalRoster(r \cup {Member(k)})
      BY <2>2, <3>3, <3>4, <3>5, <3>6, AcceptedIsLegal
    <3> QED
      BY <3>2, <3>7 DEF k
  <2> QED
    BY <2>3, <2>4
<1>6. n \in S
  <2> HIDE DEF S
  <2> QED
    BY <1>1, <1>4, <1>5, InductiveSet
<1>7. first(n) = keepers
  BY <1>1
<1>8. LegalRoster(KeepersOf(first(n), team))
  BY <1>1, <1>6
<1> HIDE DEF first, S
<1> QED
  BY <1>7, <1>8

-----------------------------------------------------------------------------
(* Teams stay legal until a correction is undone.                          *)

\* The inductive form of the property.
LegalUntilUndone == ~CorrectionUndone => LegalBoard(initialRosters, activeSales)

\* The board of a logged sale is the board before it with one more sale.
LEMMA LoggedOneMore ==
    ASSUME BoardInv, NEW sale \in SaleInputs,
           Commit("live", [type |-> "sale_logged", sale |-> sale])
    PROVE  \E k \in Nat : OneMore(activeSales, activeSales', k) /\ activeSales'[k].sale = sale
<1>1. PICK n \in 0..Len(activeSales) :
        /\ ActiveIndices(activeSales) = 1..n
        /\ activeSales' = WithEntry(activeSales, n + 1, revision', sale)
  BY LoggedCommit
<1>2. activeSales \in Seq(Entries) /\ revision' \in Nat
  BY DEF BoardInv, TypeOK, Commit
<1> DEFINE k == n + 1
<1>3. k \in 1..(Len(activeSales) + 1) /\ k \notin ActiveIndices(activeSales) /\ k \in Nat
  BY <1>1, <1>2
<1>4. activeSales' = WithEntry(activeSales, k, revision', sale)
  BY <1>1
<1> HIDE DEF k
<1>5. /\ ActiveIndices(activeSales') = ActiveIndices(activeSales) \cup {k}
      /\ activeSales'[k] = [source |-> revision', sale |-> sale]
      /\ \A j \in ActiveIndices(activeSales) \ {k} : activeSales'[j] = activeSales[j]
  BY <1>2, <1>3, <1>4, WithEntryType
<1> QED
  BY <1>3, <1>5 DEF OneMore

\* The boards before and after a correction are one board with one sale more.
LEMMA CorrectedOneMore ==
    ASSUME BoardInv, NEW k \in ActiveIndices(activeSales), NEW sale \in SaleInputs,
           Commit("live", [type |-> "sale_corrected",
                           corrected |-> activeSales[k].source,
                           previous |-> activeSales[k].sale,
                           sale |-> sale])
    PROVE  LET board == WithoutEntry(activeSales, k)
           IN  /\ OneMore(board, activeSales, k)
               /\ OneMore(board, activeSales', k)
               /\ activeSales'[k].sale = sale
<1> DEFINE board == WithoutEntry(activeSales, k)
<1>1. activeSales' = WithEntry(activeSales, k, revision', sale)
  BY CorrectedCommit
<1>2. /\ activeSales \in Seq(Entries) /\ revision' \in Nat
      /\ k \in DOMAIN activeSales /\ k \in 1..(Len(activeSales) + 1)
  BY ActiveEntry DEF BoardInv, TypeOK, Commit, ActiveIndices
<1>3. /\ ActiveIndices(board) = ActiveIndices(activeSales) \ {k}
      /\ \A j \in ActiveIndices(activeSales) \ {k} : board[j] = activeSales[j]
  BY <1>2, WithoutEntryType
<1>4. /\ ActiveIndices(activeSales') = ActiveIndices(activeSales) \cup {k}
      /\ activeSales'[k] = [source |-> revision', sale |-> sale]
      /\ \A j \in ActiveIndices(activeSales) \ {k} : activeSales'[j] = activeSales[j]
  BY <1>1, <1>2, WithEntryType
<1> HIDE DEF board
<1>5. OneMore(board, activeSales, k)
  BY <1>3 DEF OneMore
<1>6. OneMore(board, activeSales', k) /\ activeSales'[k].sale = sale
  BY <1>3, <1>4 DEF OneMore
<1> QED
  BY <1>5, <1>6 DEF board

\* An undo that restores nothing leaves the board with one sale less.
LEMMA UndoneOneMore ==
    ASSUME BoardInv, UndoLastSale, ~CorrectionUndone'
    PROVE  ~CorrectionUndone /\ \E n \in Nat : OneMore(activeSales', activeSales, n)
<1>1. PICK n \in ActiveIndices(activeSales) :
        Commit("live", [type |-> "sale_undone", undone |-> activeSales[n].source])
  <2>1. PICK n \in 0..Len(activeSales) : ActiveIndices(activeSales) = 1..n
    BY DEF BoardInv, ActiveRun
  <2>2. n # 0 /\ activeSales \in Seq(Entries)
    BY <2>1 DEF UndoLastSale, BoardInv, TypeOK
  <2>3. Max(ActiveIndices(activeSales)) \in ActiveIndices(activeSales)
    BY <2>1, <2>2, RunBounds
  <2> QED
    BY <2>3 DEF UndoLastSale
<1> DEFINE source == activeSales[n].source
           event == [type |-> "sale_undone", undone |-> source]
<1>2. /\ event \in Events /\ source \in DOMAIN events
      /\ events[source].type # "sale_corrected" => activeSales' = WithoutEntry(activeSales, n)
  BY <1>1, UndoneCommit
<1>3. /\ events'[revision'] = event /\ revision' \in DOMAIN events'
      /\ events'[source] = events[source]
  BY <1>1, <1>2, CommitLog DEF BoardInv
<1>4. events[source].type # "sale_corrected" /\ ~CorrectionUndone
  BY <1>1, <1>2, <1>3, CorrectionUndoneStays DEF CorrectionUndone
<1>5. activeSales \in Seq(Entries) /\ n \in DOMAIN activeSales /\ n \in Nat
  BY DEF BoardInv, TypeOK, ActiveIndices
<1>6. /\ ActiveIndices(activeSales') = ActiveIndices(activeSales) \ {n}
      /\ \A j \in ActiveIndices(activeSales) \ {n} : activeSales'[j] = activeSales[j]
  BY <1>2, <1>4, <1>5, WithoutEntryType
<1>7. OneMore(activeSales', activeSales, n)
  BY <1>6 DEF OneMore
<1> QED
  BY <1>4, <1>5, <1>7

\* A room whose initial rosters were just set.
LEMMA SetupIsLegal ==
    ASSUME PlayersInv, status \in NotStarted \cup {"none"},
           NEW rosters \in RosterInputs, ValidInitialRosters(rosters),
           initialRosters' = rosters, activeSales' = activeSales
    PROVE  LegalBoard(initialRosters', activeSales')
<1> SUFFICES ASSUME NEW team \in Teams PROVE LegalRoster(Roster(rosters, activeSales, team))
  BY DEF LegalBoard
<1>1. SalesOf(activeSales, team) = {}
  BY DEF PlayersInv, NoSaleBeforeStart, SalesOf
<1>2. Roster(rosters, activeSales, team) = KeepersOf(rosters, team)
  BY <1>1 DEF Roster
<1> QED
  BY <1>2, ValidRostersAreLegal

\* Every command of the room keeps LegalUntilUndone.
LEMMA NextKeepsLegal ==
    RoomInv /\ PlayersInv /\ LegalUntilUndone /\ [Next]_vars => LegalUntilUndone'
<1> SUFFICES ASSUME RoomInv, PlayersInv, LegalUntilUndone, [Next]_vars, ~CorrectionUndone'
             PROVE  LegalBoard(initialRosters', activeSales')
  BY DEF LegalUntilUndone
<1>1. BoardInv
  BY DEF RoomInv
<1>2. ASSUME NEW newStatus, NEW event \in Events, Commit(newStatus, event)
      PROVE  LegalBoard(initialRosters, activeSales)
  BY <1>1, <1>2, CorrectionUndoneStays DEF LegalUntilUndone
<1>3. CASE CreateRoom
  <2>1. PICK newStatus \in NotStarted, rosters \in RosterInputs :
            /\ ValidInitialRosters(rosters)
            /\ Commit(newStatus, [type |-> "room_created"])
            /\ initialRosters' = rosters
    BY <1>3 DEF CreateRoom
  <2>2. [type |-> "room_created"] \in Events /\ "room_created" \notin SaleEvents
    BY DEF Events, SaleEvents
  <2>3. activeSales' = activeSales
    BY <1>1, <2>1, <2>2, QuietCommit DEF BoardInv
  <2> QED
    BY <1>3, <2>1, <2>3, SetupIsLegal DEF CreateRoom
<1>4. CASE SynchronizeInitialRosters
  <2>1. PICK rosters \in RosterInputs :
            /\ ValidInitialRosters(rosters)
            /\ Commit(status, [type |-> "initial_rosters_synchronized"])
            /\ initialRosters' = rosters
    BY <1>4 DEF SynchronizeInitialRosters
  <2>2. [type |-> "initial_rosters_synchronized"] \in Events
        /\ "initial_rosters_synchronized" \notin SaleEvents
    BY DEF Events, SaleEvents
  <2>3. activeSales' = activeSales
    BY <1>1, <2>1, <2>2, QuietCommit DEF BoardInv
  <2> QED
    BY <1>4, <2>1, <2>3, SetupIsLegal DEF SynchronizeInitialRosters
<1>5. CASE StartRoom \/ PauseRoom \/ ResumeRoom \/ EndRoom \/ ReopenRoom
  <2>1. PICK newStatus \in Statuses \ {"none"}, event \in Events :
            Commit(newStatus, event) /\ event.type \notin SaleEvents
    BY <1>1, <1>5, QuietMoves DEF BoardInv
  <2>2. activeSales' = activeSales
    BY <1>1, <2>1, QuietCommit DEF BoardInv
  <2>3. initialRosters' = initialRosters
    BY <1>5 DEF StartRoom, PauseRoom, ResumeRoom, EndRoom, ReopenRoom
  <2> QED
    BY <1>2, <2>1, <2>2, <2>3
<1>6. CASE CancelRoom
  <2>1. \A team : Roster(initialRosters', activeSales', team) = {}
    BY <1>6 DEF CancelRoom, Roster, KeepersOf, SalesOf, ActiveIndices
  <2> QED
    BY <2>1, NobodyIsLegal DEF LegalBoard
<1>7. CASE LogSale
  <2>1. PICK sale \in SaleInputs :
            /\ PositivePrice(sale.price)
            /\ ValidSale(initialRosters, activeSales, sale)
            /\ Commit("live", [type |-> "sale_logged", sale |-> sale])
    BY <1>7 DEF LogSale
  <2>2. [type |-> "sale_logged", sale |-> sale] \in Events
    BY DEF Events
  <2>3. LegalBoard(initialRosters, activeSales) /\ initialRosters' = initialRosters
    BY <1>2, <1>7, <2>1, <2>2 DEF LogSale
  <2>4. PICK k : OneMore(activeSales, activeSales', k) /\ activeSales'[k].sale = sale
    BY <1>1, <2>1, LoggedOneMore
  <2> QED
    BY <2>1, <2>3, <2>4, NewSaleIsLegal
<1>8. CASE CorrectSale
  <2>1. PICK k \in ActiveIndices(activeSales), sale \in SaleInputs :
            /\ PositivePrice(sale.price)
            /\ ValidSale(initialRosters, WithoutEntry(activeSales, k), sale)
            /\ Commit("live", [type |-> "sale_corrected",
                               corrected |-> activeSales[k].source,
                               previous |-> activeSales[k].sale,
                               sale |-> sale])
    BY <1>8 DEF CorrectSale
  <2> DEFINE board == WithoutEntry(activeSales, k)
             event == [type |-> "sale_corrected", corrected |-> activeSales[k].source,
                       previous |-> activeSales[k].sale, sale |-> sale]
  <2>2. event \in Events
    BY <1>1, <2>1, CorrectedCommit
  <2>3. /\ OneMore(board, activeSales, k)
        /\ OneMore(board, activeSales', k)
        /\ activeSales'[k].sale = sale
    BY <1>1, <2>1, CorrectedOneMore
  <2>4. LegalBoard(initialRosters, activeSales) /\ initialRosters' = initialRosters
    BY <1>2, <1>8, <2>1, <2>2 DEF CorrectSale
  <2>5. ValidSale(initialRosters, board, sale) /\ PositivePrice(sale.price)
    BY <2>1
  <2> HIDE DEF board, event
  <2>6. LegalBoard(initialRosters, board)
    BY <2>3, <2>4, LostSaleIsLegal
  <2> QED
    BY <2>3, <2>4, <2>5, <2>6, NewSaleIsLegal
<1>9. CASE UndoLastSale
  <2>1. PICK n : ~CorrectionUndone /\ OneMore(activeSales', activeSales, n)
    BY <1>1, <1>9, UndoneOneMore
  <2>2. initialRosters' = initialRosters /\ LegalBoard(initialRosters, activeSales)
    BY <1>9, <2>1 DEF UndoLastSale, LegalUntilUndone
  <2> QED
    BY <2>1, <2>2, LostSaleIsLegal
<1>10. CASE UNCHANGED vars
  <2>1. CorrectionUndone' = CorrectionUndone
    BY <1>10 DEF vars, CorrectionUndone
  <2> QED
    BY <1>10, <2>1 DEF vars, LegalUntilUndone
<1> QED
  BY <1>3, <1>4, <1>5, <1>6, <1>7, <1>8, <1>9, <1>10 DEF Next

\* The inductive form implies the property.
LEMMA LegalBoardIsLegal ==
    LegalUntilUndone => TeamsLegalUntilCorrectionUndone
  BY DEF LegalUntilUndone, LegalBoard, LegalRoster, TeamsLegalUntilCorrectionUndone

\* TeamsLegalUntilCorrectionUndone: whatever is logged, corrected and undone, every
\* roster fits its slots and position maximums, and its team can pay the minimum
\* for the slots it has left, unless a correction has been undone.
THEOREM TeamsStayLegal == Spec => []TeamsLegalUntilCorrectionUndone
<1>1. Init => PlayersInv /\ LegalUntilUndone
  <2> SUFFICES ASSUME Init PROVE PlayersInv /\ LegalUntilUndone
    OBVIOUS
  <2>1. DOMAIN initialRosters = {} /\ ActiveIndices(activeSales) = {}
    BY DEF Init, ActiveIndices
  <2>2. \A team : Roster(initialRosters, activeSales, team) = {}
    BY <2>1 DEF Roster, KeepersOf, SalesOf
  <2>3. LegalBoard(initialRosters, activeSales)
    BY <2>2, NobodyIsLegal DEF LegalBoard
  <2> QED
    BY <2>1, <2>3 DEF PlayersInv, KeepersDistinct, NoSaleBeforeStart, SalesDistinct, LegalUntilUndone
<1> QED
  BY <1>1, RoomInvariant, NextKeepsPlayers, NextKeepsLegal, LegalBoardIsLegal, PTL DEF Spec

-----------------------------------------------------------------------------
(* The picks that keepers leave open.                                      *)

\* f collects the open picks, pick after pick, as OpenPicks does.
Opens(f, keepers, n) ==
    f = [pick \in 0..n |->
            IF pick = 0 THEN << >>
            ELSE IF KeeperPick(keepers, pick) THEN f[pick - 1]
            ELSE Append(f[pick - 1], pick)]

\* There is such a collection for any number of picks.
LEMMA OpensExist ==
    ASSUME NEW keepers, NEW n \in Nat
    PROVE  \E f : Opens(f, keepers, n)
<1> DEFINE S == {k \in Nat : \E f : Opens(f, keepers, k)}
<1>1. 0 \in S
  <2>1. Opens([pick \in 0..0 |-> << >>], keepers, 0)
    BY DEF Opens
  <2> QED
    BY <2>1
<1>2. ASSUME NEW k \in Nat, k \in S PROVE k + 1 \in S
  <2>1. PICK f : Opens(f, keepers, k)
    BY <1>2
  <2> DEFINE g == [pick \in 0..(k + 1) |->
                    IF pick = 0 THEN << >>
                    ELSE IF KeeperPick(keepers, pick) THEN f[pick - 1]
                    ELSE Append(f[pick - 1], pick)]
  <2>2. ASSUME NEW i \in 0..k PROVE g[i] = f[i]
    <3>1. f[i] = IF i = 0 THEN << >>
                 ELSE IF KeeperPick(keepers, i) THEN f[i - 1] ELSE Append(f[i - 1], i)
      BY <2>1, ZenonT(30) DEF Opens
    <3>2. i \in 0..(k + 1)
      OBVIOUS
    <3> QED
      BY <3>1, <3>2
  <2>3. ASSUME NEW i \in 0..(k + 1), i # 0 PROVE g[i - 1] = f[i - 1]
    <3>1. i - 1 \in 0..k
      BY <2>3
    <3> HIDE DEF g
    <3> QED
      BY <2>2, <3>1
  <2>4. Opens(g, keepers, k + 1)
    BY <2>3 DEF Opens
  <2> QED
    BY <2>4
<1> HIDE DEF S
<1>3. Nat \subseteq S
  BY <1>1, <1>2, InductiveSet
<1> QED
  BY <1>3 DEF S

\* A list of picks up to n, in draft order, none of them a keeper's.
InDraftOrder(picks, keepers, n) ==
    /\ picks \in Seq(1..n)
    /\ \A j, k \in DOMAIN picks : j < k => picks[j] < picks[k]
    /\ \A k \in DOMAIN picks : ~KeeperPick(keepers, picks[k])

\* The open picks are such a list.
LEMMA OpensInOrder ==
    ASSUME NEW keepers, NEW n \in Nat, NEW f, Opens(f, keepers, n)
    PROVE  InDraftOrder(f[n], keepers, n)
<1> DEFINE S == {k \in Nat : k <= n => InDraftOrder(f[k], keepers, k)}
<1>1. 0 \in S
  <2>1. f[0] = << >>
    BY DEF Opens
  <2>2. f[0] \in Seq(1..0) /\ DOMAIN f[0] = {}
    BY <2>1
  <2>3. InDraftOrder(f[0], keepers, 0)
    BY <2>2 DEF InDraftOrder
  <2> QED
    BY <2>3
<1>2. ASSUME NEW k \in Nat, k \in S PROVE k + 1 \in S
  <2> SUFFICES ASSUME k + 1 <= n PROVE InDraftOrder(f[k + 1], keepers, k + 1)
    OBVIOUS
  <2>1. InDraftOrder(f[k], keepers, k)
    BY <1>2
  <2>2. f[k + 1] = IF KeeperPick(keepers, k + 1) THEN f[k] ELSE Append(f[k], k + 1)
    <3>1. k + 1 \in 0..n /\ k + 1 # 0 /\ (k + 1) - 1 = k
      OBVIOUS
    <3> QED
      BY <3>1 DEF Opens
  <2> DEFINE picks == f[k]
             m == Len(picks)
  <2>3. /\ picks \in Seq(1..k) /\ picks \in Seq(1..(k + 1)) /\ m \in Nat /\ DOMAIN picks = 1..m
        /\ \A i \in DOMAIN picks : picks[i] \in 1..k
    BY <2>1 DEF InDraftOrder
  <2> HIDE DEF picks, m
  <2>4. CASE KeeperPick(keepers, k + 1)
    BY <2>1, <2>2, <2>3, <2>4 DEF InDraftOrder, picks
  <2>5. CASE ~KeeperPick(keepers, k + 1)
    <3> DEFINE longer == Append(picks, k + 1)
    <3>1. /\ longer \in Seq(1..(k + 1)) /\ DOMAIN longer = 1..(m + 1)
          /\ longer[m + 1] = k + 1 /\ \A i \in 1..m : longer[i] = picks[i]
      <4>1. k + 1 \in 1..(k + 1)
        OBVIOUS
      <4> QED
        BY <2>3, <4>1, AppendProperties DEF m
    <3>2. \A i \in DOMAIN longer : i \in 1..m \/ i = m + 1
      BY <2>3, <3>1
    <3> HIDE DEF longer
    <3>3. ASSUME NEW i \in DOMAIN longer, NEW j \in DOMAIN longer, i < j PROVE longer[i] < longer[j]
      <4>1. i \in 1..m
        BY <2>3, <3>1, <3>2, <3>3
      <4>2. CASE j \in 1..m
        BY <2>1, <2>3, <3>1, <3>3, <4>1, <4>2 DEF InDraftOrder, picks
      <4>3. CASE j = m + 1
        BY <2>3, <3>1, <4>1, <4>3
      <4> QED
        BY <3>2, <4>2, <4>3
    <3>4. ASSUME NEW i \in DOMAIN longer PROVE ~KeeperPick(keepers, longer[i])
      BY <2>1, <2>3, <2>5, <3>1, <3>2 DEF InDraftOrder, picks
    <3>5. f[k + 1] = longer
      BY <2>2, <2>5 DEF longer, picks
    <3> QED
      BY <3>1, <3>3, <3>4, <3>5 DEF InDraftOrder
  <2> QED
    BY <2>4, <2>5
<1> HIDE DEF S
<1>3. Nat \subseteq S
  BY <1>1, <1>2, InductiveSet
<1> QED
  BY <1>3 DEF S

\* OpenPicks lists picks of the draft, each once and in order, and no keeper's.
LEMMA OpenPicksInOrder ==
    ASSUME NEW keepers
    PROVE  /\ Rounds * TeamCount \in Nat
           /\ InDraftOrder(OpenPicks(keepers), keepers, Rounds * TeamCount)
<1> DEFINE n == Rounds * TeamCount
           F == CHOOSE f : Opens(f, keepers, n)
<1>1. n \in Nat
  <2>1. Rounds \in Nat /\ TeamCount \in Nat
    BY SeasonReady DEF TeamCount
  <2> QED
    BY <2>1
<1>2. Opens(F, keepers, n)
  <2> HIDE DEF n
  <2> QED
    BY <1>1, OpensExist
<1>3. OpenPicks(keepers) = F[n]
  BY DEF OpenPicks, Opens
<1> HIDE DEF n, F
<1>4. InDraftOrder(OpenPicks(keepers), keepers, n)
  BY <1>1, <1>2, <1>3, OpensInOrder
<1> QED
  BY <1>1, <1>4 DEF n

\* A team picks once a round, whichever way the round runs.
LEMMA OnePickARound ==
    ASSUME NEW p \in 1..(Rounds * TeamCount), NEW q \in 1..(Rounds * TeamCount),
           TeamOfPick(p) = TeamOfPick(q), RoundOf(p) = RoundOf(q)
    PROVE  p = q
<1> DEFINE n == TeamCount
<1>1. n \in Nat /\ Rounds \in Nat
  BY SeasonReady DEF TeamCount
<1>2. n # 0
  <2> SUFFICES ASSUME n = 0 PROVE FALSE
    OBVIOUS
  <2>1. Rounds * TeamCount = 0
    BY <1>1
  <2> QED
    BY <2>1
<1>3. p \in Nat /\ q \in Nat /\ p >= 1 /\ q >= 1
  BY <1>1
<1> DEFINE a == (p - 1) % n
           b == (q - 1) % n
<1>4. a \in 0..(n - 1) /\ b \in 0..(n - 1)
  <2>1. p - 1 \in Nat /\ q - 1 \in Nat /\ n \in Nat \ {0}
    BY <1>1, <1>2, <1>3
  <2> HIDE DEF n
  <2> QED
    BY <2>1
<1>5. (p - 1) \div n = (q - 1) \div n
  <2>1. (p - 1) \div n \in Int /\ (q - 1) \div n \in Int
    BY <1>1, <1>2, <1>3
  <2> QED
    BY <2>1 DEF RoundOf
<1> DEFINE x == IF RoundOf(p) % 2 = 1 THEN a + 1 ELSE n + 1 - (a + 1)
           y == IF RoundOf(p) % 2 = 1 THEN b + 1 ELSE n + 1 - (b + 1)
<1>6. x \in 1..n /\ y \in 1..n
  <2> HIDE DEF a, b, n
  <2> QED
    BY <1>1, <1>4
<1>7. TeamOfPick(p) = DraftOrder[x] /\ TeamOfPick(q) = DraftOrder[y]
  BY DEF TeamOfPick
<1>8. DOMAIN DraftOrder = 1..n
  BY SeasonReady, LenProperties DEF TeamCount
<1>9. x = y
  <2> HIDE DEF x, y, n
  <2> QED
    BY <1>6, <1>7, <1>8, SeasonReady
<1>10. a = b
  <2> HIDE DEF a, b, n
  <2> QED
    BY <1>1, <1>4, <1>9
<1>11. p - 1 = q - 1
  <2>1. p - 1 \in Nat /\ q - 1 \in Nat /\ n \in Nat \ {0}
    BY <1>1, <1>2, <1>3
  <2>2. (p - 1) % n = (q - 1) % n
    BY <1>10
  <2> HIDE DEF n, a, b
  <2> QED
    BY <1>5, <2>1, <2>2
<1> QED
  BY <1>3, <1>11

\* The picks of the draft belong to its rounds.
LEMMA RoundsOfPicks ==
    ASSUME NEW p \in 1..(Rounds * TeamCount)
    PROVE  RoundOf(p) \in 1..Rounds
<1> DEFINE n == TeamCount
<1>1. n \in Nat /\ Rounds \in Nat
  BY SeasonReady DEF TeamCount
<1>2. n # 0
  <2> SUFFICES ASSUME n = 0 PROVE FALSE
    OBVIOUS
  <2>1. Rounds * TeamCount = 0
    BY <1>1
  <2> QED
    BY <2>1
<1>3. p - 1 \in Nat /\ n \in Nat \ {0} /\ p - 1 < Rounds * n
  <2>1. Rounds * n \in Nat
    BY <1>1
  <2> QED
    BY <1>1, <1>2, <2>1
<1> HIDE DEF n
<1>4. (p - 1) \div n < Rounds /\ (p - 1) \div n \in Nat
  BY <1>1, <1>3
<1>5. RoundOf(p) = ((p - 1) \div n) + 1
  BY DEF RoundOf, n
<1> QED
  BY <1>1, <1>4, <1>5

\* Later picks are of later rounds.
LEMMA RoundsRise ==
    ASSUME NEW p \in 1..(Rounds * TeamCount), NEW q \in 1..(Rounds * TeamCount), p <= q
    PROVE  RoundOf(p) <= RoundOf(q)
<1> DEFINE n == TeamCount
<1>1. n \in Nat /\ Rounds \in Nat
  BY SeasonReady DEF TeamCount
<1>2. n # 0
  <2> SUFFICES ASSUME n = 0 PROVE FALSE
    OBVIOUS
  <2>1. Rounds * TeamCount = 0
    BY <1>1
  <2> QED
    BY <2>1
<1>3. p - 1 \in Nat /\ q - 1 \in Nat /\ n \in Nat \ {0} /\ p - 1 <= q - 1
  <2>1. Rounds * n \in Nat
    BY <1>1
  <2> QED
    BY <1>1, <1>2, <2>1
<1> HIDE DEF n
<1>4. (p - 1) \div n <= (q - 1) \div n /\ (p - 1) \div n \in Nat /\ (q - 1) \div n \in Nat
  BY <1>3
<1>5. RoundOf(p) = ((p - 1) \div n) + 1 /\ RoundOf(q) = ((q - 1) \div n) + 1
  BY DEF RoundOf, n
<1> QED
  BY <1>4, <1>5

-----------------------------------------------------------------------------
(* Snake drafts: sales in turn.                                            *)

\* What the log says of an active sale, and of the sale a correction replaced,
\* which in a snake draft was of the same team.
LoggedSales ==
    /\ \A k \in ActiveIndices(activeSales) :
        activeSales[k].sale = events[activeSales[k].source].sale
    /\ \A i \in DOMAIN events : events[i].type = "sale_corrected" =>
        /\ events[i].previous = events[events[i].corrected].sale
        /\ Snake => events[i].previous.team = events[i].sale.team

\* The inductive invariant behind PicksInTurn, beside the room's own.
TurnsInv == LoggedSales /\ PicksInTurn

\* When the first k - 1 sequence indices are taken and k is open, the team on
\* the clock is the team of the k-th open pick.
LEMMA ClockIsNext ==
    ASSUME NEW keepers, NEW board, NEW team, NEW k \in Nat \ {0},
           SnakeTurn(keepers, board, team),
           k \notin ActiveIndices(board), 1..(k - 1) \subseteq ActiveIndices(board)
    PROVE  k \in DOMAIN OpenPicks(keepers) /\ team = TeamOfPick(OpenPicks(keepers)[k])
<1> DEFINE free == FreeIndices(keepers, board)
           m == Len(OpenPicks(keepers))
<1>1. DOMAIN OpenPicks(keepers) = 1..m /\ m \in Nat
  BY OpenPicksInOrder DEF InDraftOrder
<1>2. free # {} /\ free = {j \in 1..m : j \notin ActiveIndices(board)}
  BY <1>1 DEF SnakeTurn, DraftComplete, FreeIndices
<1>3. team = TeamOfPick(OpenPicks(keepers)[Min(free)])
  BY DEF SnakeTurn, TeamOnTheClock
<1> HIDE DEF free, m
<1>4. \A j \in free : k <= j
  BY <1>1, <1>2
<1>5. k \in free
  BY <1>1, <1>2, <1>4
<1>6. Min(free) = k
  <2>1. \A x \in free : (\A y \in free : x <= y) => x = k
    <3>1. free \subseteq Int
      BY <1>1, <1>2
    <3> QED
      BY <1>4, <1>5, <3>1
  <2> QED
    BY <1>4, <1>5, <2>1 DEF Min
<1> QED
  BY <1>1, <1>2, <1>3, <1>5, <1>6

\* A commit keeps the log true of its corrections and of what is active, when it
\* is so itself.
LEMMA CorrectionsKept ==
    ASSUME BoardInv, LoggedSales, NEW newStatus, NEW event \in Events, Commit(newStatus, event),
           event.type = "sale_corrected" =>
                /\ event.corrected \in DOMAIN events
                /\ event.previous = events[event.corrected].sale
                /\ Snake => event.previous.team = event.sale.team,
           \A k \in ActiveIndices(activeSales') :
                \/ activeSales'[k] = [source |-> revision', sale |-> event.sale]
                \/ /\ activeSales'[k].source \in DOMAIN events
                   /\ activeSales'[k].sale = events[activeSales'[k].source].sale
    PROVE  LoggedSales'
<1>1. /\ DOMAIN events' = DOMAIN events \cup {revision'} /\ events'[revision'] = event
      /\ \A i \in DOMAIN events : events'[i] = events[i]
  BY CommitLog DEF BoardInv
<1>2. ASSUME NEW k \in ActiveIndices(activeSales')
      PROVE  activeSales'[k].sale = events'[activeSales'[k].source].sale
  BY <1>1
<1>3. ASSUME NEW i \in DOMAIN events', events'[i].type = "sale_corrected"
      PROVE  /\ events'[i].previous = events'[events'[i].corrected].sale
             /\ Snake => events'[i].previous.team = events'[i].sale.team
  <2>1. CASE i \in DOMAIN events
    <3>1. events[i].corrected \in DOMAIN events
      BY <1>1, <1>3, <2>1 DEF BoardInv, SourcesLogged
    <3> QED
      BY <1>1, <1>3, <2>1, <3>1 DEF LoggedSales
  <2>2. CASE i = revision'
    BY <1>1, <1>3, <2>2
  <2> QED
    BY <1>1, <2>1, <2>2
<1> QED
  BY <1>2, <1>3 DEF LoggedSales

\* What was active stays as it was logged.
LEMMA ActiveIsLogged ==
    ASSUME BoardInv, LoggedSales, NEW k \in ActiveIndices(activeSales)
    PROVE  /\ activeSales[k].source \in DOMAIN events
           /\ activeSales[k].sale = events[activeSales[k].source].sale
  BY DEF BoardInv, SourcesLogged, LoggedSales

\* Commits that are no sale, correction or undo; the initial rosters change
\* only while nothing is sold.
LEMMA QuietKeepsTurns ==
    ASSUME BoardInv, TurnsInv, NEW newStatus, NEW event \in Events, Commit(newStatus, event),
           event.type \notin SaleEvents,
           initialRosters' = initialRosters \/ ActiveIndices(activeSales) = {}
    PROVE  TurnsInv'
<1>1. activeSales' = activeSales
  BY QuietCommit DEF BoardInv
<1>2. LoggedSales'
  BY <1>1, CorrectionsKept, ActiveIsLogged DEF TurnsInv, SaleEvents
<1>3. PicksInTurn'
  <2>1. CASE initialRosters' = initialRosters
    BY <1>1, <2>1 DEF TurnsInv, PicksInTurn
  <2>2. CASE ActiveIndices(activeSales) = {}
    BY <1>1, <2>2 DEF PicksInTurn
  <2> QED
    BY <2>1, <2>2
<1> QED
  BY <1>2, <1>3 DEF TurnsInv

\* A sale takes the next pick, which is its team's.
LEMMA LogSaleKeepsTurns ==
    ASSUME BoardInv, TurnsInv, LogSale
    PROVE  TurnsInv'
<1>1. PICK sale \in SaleInputs :
        /\ ValidSale(initialRosters, activeSales, sale)
        /\ Commit("live", [type |-> "sale_logged", sale |-> sale])
  BY DEF LogSale
<1> DEFINE event == [type |-> "sale_logged", sale |-> sale]
<1>2. event \in Events
  BY DEF Events
<1>3. PICK n \in 0..Len(activeSales) :
        /\ ActiveIndices(activeSales) = 1..n
        /\ activeSales' = WithEntry(activeSales, n + 1, revision', sale)
  BY <1>1, LoggedCommit
<1> DEFINE k == n + 1
<1>4. /\ activeSales \in Seq(Entries) /\ revision' \in Nat
      /\ k \in 1..(Len(activeSales) + 1) /\ k \in Nat \ {0} /\ k - 1 = n
  <2>1. activeSales \in Seq(Entries) /\ revision' \in Nat
    BY <1>1 DEF BoardInv, TypeOK, Commit
  <2> QED
    BY <2>1
<1>5. /\ ActiveIndices(activeSales') = ActiveIndices(activeSales) \cup {k}
      /\ activeSales'[k] = [source |-> revision', sale |-> sale]
      /\ \A j \in ActiveIndices(activeSales) \ {k} : activeSales'[j] = activeSales[j]
  <2>1. activeSales' = WithEntry(activeSales, k, revision', sale)
    BY <1>3
  <2> HIDE DEF k
  <2> QED
    BY <1>4, <2>1, WithEntryType
<1>6. k \notin ActiveIndices(activeSales) /\ 1..(k - 1) \subseteq ActiveIndices(activeSales)
  BY <1>3, <1>4
<1> HIDE DEF k
<1>7. LoggedSales'
  <2>1. \A j \in ActiveIndices(activeSales) :
            /\ activeSales[j].source \in DOMAIN events
            /\ activeSales[j].sale = events[activeSales[j].source].sale
    BY ActiveIsLogged DEF TurnsInv
  <2>2. event.sale = sale /\ event.type = "sale_logged"
    OBVIOUS
  <2> HIDE DEF event
  <2>3. Commit("live", event)
    BY <1>1 DEF event
  <2>4. \A j \in ActiveIndices(activeSales') :
            \/ activeSales'[j] = [source |-> revision', sale |-> event.sale]
            \/ /\ activeSales'[j].source \in DOMAIN events
               /\ activeSales'[j].sale = events[activeSales'[j].source].sale
    BY <1>5, <1>6, <2>1, <2>2
  <2> QED
    BY <1>2, <2>2, <2>3, <2>4, CorrectionsKept DEF TurnsInv
<1>8. PicksInTurn'
  <2> SUFFICES ASSUME Snake, NEW j \in ActiveIndices(activeSales')
               PROVE  /\ j \in DOMAIN OpenPicks(initialRosters)
                      /\ activeSales'[j].sale.team = TeamOfPick(OpenPicks(initialRosters)[j])
    BY DEF PicksInTurn, LogSale
  <2>1. CASE j = k
    <3>1. SnakeTurn(initialRosters, activeSales, sale.team)
      BY <1>1 DEF ValidSale
    <3> QED
      BY <1>4, <1>5, <1>6, <2>1, <3>1, ClockIsNext
  <2>2. CASE j # k
    BY <1>5, <2>2 DEF TurnsInv, PicksInTurn
  <2> QED
    BY <2>1, <2>2
<1> QED
  BY <1>7, <1>8 DEF TurnsInv

\* On the board without a sale, the team on the clock is the team of that sale.
LEMMA CorrectSaleKeepsTurns ==
    ASSUME BoardInv, TurnsInv, CorrectSale
    PROVE  TurnsInv'
<1>1. PICK k \in ActiveIndices(activeSales), sale \in SaleInputs :
        /\ ValidSale(initialRosters, WithoutEntry(activeSales, k), sale)
        /\ Commit("live", [type |-> "sale_corrected",
                           corrected |-> activeSales[k].source,
                           previous |-> activeSales[k].sale,
                           sale |-> sale])
  BY DEF CorrectSale
<1> DEFINE event == [type |-> "sale_corrected", corrected |-> activeSales[k].source,
                     previous |-> activeSales[k].sale, sale |-> sale]
           board == WithoutEntry(activeSales, k)
<1>2. event \in Events /\ activeSales' = WithEntry(activeSales, k, revision', sale)
  BY <1>1, CorrectedCommit
<1>3. /\ activeSales \in Seq(Entries) /\ revision' \in Nat /\ k \in DOMAIN activeSales
      /\ k \in 1..(Len(activeSales) + 1)
  <2>1. activeSales \in Seq(Entries) /\ revision' \in Nat /\ k \in 1..Len(activeSales)
    BY <1>1, ActiveEntry DEF BoardInv, TypeOK, Commit
  <2> QED
    BY <2>1
<1>4. /\ ActiveIndices(activeSales') = ActiveIndices(activeSales) \cup {k}
      /\ activeSales'[k] = [source |-> revision', sale |-> sale]
      /\ \A j \in ActiveIndices(activeSales) \ {k} : activeSales'[j] = activeSales[j]
  BY <1>2, <1>3, WithEntryType
<1>5. ActiveIndices(board) = ActiveIndices(activeSales) \ {k}
  BY <1>3, WithoutEntryType
<1>6. PICK n \in 0..Len(activeSales) : ActiveIndices(activeSales) = 1..n
  BY DEF BoardInv, ActiveRun
<1>7. k \in Nat \ {0} /\ k \notin ActiveIndices(board) /\ 1..(k - 1) \subseteq ActiveIndices(board)
  BY <1>3, <1>5, <1>6
<1>8. Snake => sale.team = activeSales[k].sale.team
  <2> SUFFICES ASSUME Snake PROVE sale.team = activeSales[k].sale.team
    OBVIOUS
  <2>1. SnakeTurn(initialRosters, board, sale.team)
    BY <1>1 DEF ValidSale
  <2>2. sale.team = TeamOfPick(OpenPicks(initialRosters)[k])
    BY <1>7, <2>1, ClockIsNext
  <2> QED
    BY <2>2 DEF TurnsInv, PicksInTurn
<1>9. LoggedSales'
  <2>1. \A j \in ActiveIndices(activeSales) :
            /\ activeSales[j].source \in DOMAIN events
            /\ activeSales[j].sale = events[activeSales[j].source].sale
    BY ActiveIsLogged DEF TurnsInv
  <2>2. event.sale = sale /\ event.corrected = activeSales[k].source
        /\ event.previous = activeSales[k].sale
    OBVIOUS
  <2>3. Commit("live", event)
    BY <1>1
  <2> HIDE DEF event
  <2>4. \A j \in ActiveIndices(activeSales') :
            \/ activeSales'[j] = [source |-> revision', sale |-> event.sale]
            \/ /\ activeSales'[j].source \in DOMAIN events
               /\ activeSales'[j].sale = events[activeSales'[j].source].sale
    BY <1>4, <2>1, <2>2
  <2> QED
    BY <1>2, <1>8, <2>1, <2>2, <2>3, <2>4, CorrectionsKept DEF TurnsInv
<1>10. PicksInTurn'
  <2> SUFFICES ASSUME Snake, NEW j \in ActiveIndices(activeSales')
               PROVE  /\ j \in DOMAIN OpenPicks(initialRosters)
                      /\ activeSales'[j].sale.team = TeamOfPick(OpenPicks(initialRosters)[j])
    BY DEF PicksInTurn, CorrectSale
  <2>1. CASE j = k
    BY <1>4, <1>8, <2>1 DEF TurnsInv, PicksInTurn
  <2>2. CASE j # k
    BY <1>4, <2>2 DEF TurnsInv, PicksInTurn
  <2> QED
    BY <2>1, <2>2
<1> QED
  BY <1>9, <1>10 DEF TurnsInv

\* An undo frees the pick, or gives it back to the same team's earlier sale.
LEMMA UndoLastSaleKeepsTurns ==
    ASSUME BoardInv, TurnsInv, UndoLastSale
    PROVE  TurnsInv'
<1>1. PICK n \in ActiveIndices(activeSales) :
        Commit("live", [type |-> "sale_undone", undone |-> activeSales[n].source])
  <2>1. PICK n \in 0..Len(activeSales) : ActiveIndices(activeSales) = 1..n
    BY DEF BoardInv, ActiveRun
  <2>2. n # 0 /\ activeSales \in Seq(Entries)
    BY <2>1 DEF UndoLastSale, BoardInv, TypeOK
  <2>3. Max(ActiveIndices(activeSales)) \in ActiveIndices(activeSales)
    BY <2>1, <2>2, RunBounds
  <2> QED
    BY <2>3 DEF UndoLastSale
<1> DEFINE source == activeSales[n].source
           event == [type |-> "sale_undone", undone |-> source]
           undone == events[source]
<1>2. /\ source \in DOMAIN events /\ event \in Events
      /\ undone.type = "sale_corrected" =>
            /\ undone.corrected \in Nat /\ undone.previous \in SaleInputs
            /\ activeSales' = WithEntry(activeSales, n, undone.corrected, undone.previous)
      /\ undone.type # "sale_corrected" => activeSales' = WithoutEntry(activeSales, n)
  BY <1>1, UndoneCommit
<1>3. /\ activeSales \in Seq(Entries) /\ n \in DOMAIN activeSales
      /\ n \in 1..(Len(activeSales) + 1)
  <2>1. activeSales \in Seq(Entries) /\ n \in 1..Len(activeSales)
    BY ActiveEntry DEF BoardInv, TypeOK
  <2> QED
    BY <2>1
<1>4. \A j \in ActiveIndices(activeSales) :
        /\ activeSales[j].source \in DOMAIN events
        /\ activeSales[j].sale = events[activeSales[j].source].sale
  BY ActiveIsLogged DEF TurnsInv
<1>5. event.type = "sale_undone" /\ Commit("live", event)
  BY <1>1
<1> HIDE DEF event
<1>6. initialRosters' = initialRosters
  BY DEF UndoLastSale
<1>7. CASE undone.type = "sale_corrected"
  <2>1. /\ ActiveIndices(activeSales') = ActiveIndices(activeSales) \cup {n}
        /\ activeSales'[n] = [source |-> undone.corrected, sale |-> undone.previous]
        /\ \A j \in ActiveIndices(activeSales) \ {n} : activeSales'[j] = activeSales[j]
    BY <1>2, <1>3, <1>7, WithEntryType
  <2>2. /\ undone.corrected \in DOMAIN events
        /\ undone.previous = events[undone.corrected].sale
        /\ Snake => undone.previous.team = activeSales[n].sale.team
    BY <1>2, <1>4, <1>7 DEF BoardInv, SourcesLogged, TurnsInv, LoggedSales
  <2> HIDE DEF undone
  <2>3. LoggedSales'
    <3>1. \A j \in ActiveIndices(activeSales') :
            /\ activeSales'[j].source \in DOMAIN events
            /\ activeSales'[j].sale = events[activeSales'[j].source].sale
      BY <1>4, <2>1, <2>2
    <3> QED
      BY <1>2, <1>5, <3>1, CorrectionsKept DEF TurnsInv
  <2>4. PicksInTurn'
    <3> SUFFICES ASSUME Snake, NEW j \in ActiveIndices(activeSales')
                 PROVE  /\ j \in DOMAIN OpenPicks(initialRosters)
                        /\ activeSales'[j].sale.team = TeamOfPick(OpenPicks(initialRosters)[j])
      BY <1>6 DEF PicksInTurn
    <3>1. j \in ActiveIndices(activeSales) /\ activeSales'[j].sale.team = activeSales[j].sale.team
      BY <2>1, <2>2
    <3> QED
      BY <3>1 DEF TurnsInv, PicksInTurn
  <2> QED
    BY <2>3, <2>4 DEF TurnsInv
<1>8. CASE undone.type # "sale_corrected"
  <2>1. /\ ActiveIndices(activeSales') = ActiveIndices(activeSales) \ {n}
        /\ \A j \in ActiveIndices(activeSales) \ {n} : activeSales'[j] = activeSales[j]
    BY <1>2, <1>3, <1>8, WithoutEntryType
  <2>2. LoggedSales'
    <3>1. \A j \in ActiveIndices(activeSales') :
            /\ activeSales'[j].source \in DOMAIN events
            /\ activeSales'[j].sale = events[activeSales'[j].source].sale
      BY <1>4, <2>1
    <3> QED
      BY <1>2, <1>5, <3>1, CorrectionsKept DEF TurnsInv
  <2>3. PicksInTurn'
    BY <1>6, <2>1 DEF TurnsInv, PicksInTurn
  <2> QED
    BY <2>2, <2>3 DEF TurnsInv
<1> QED
  BY <1>7, <1>8

\* Every command of the room keeps TurnsInv.
LEMMA NextKeepsTurns ==
    RoomInv /\ PlayersInv /\ TurnsInv /\ [Next]_vars => TurnsInv'
<1> SUFFICES ASSUME RoomInv, PlayersInv, TurnsInv, [Next]_vars PROVE TurnsInv'
  OBVIOUS
<1>1. BoardInv
  BY DEF RoomInv
<1>2. CASE \/ CreateRoom \/ SynchronizeInitialRosters \/ StartRoom
           \/ PauseRoom \/ ResumeRoom \/ EndRoom \/ ReopenRoom
  <2>1. PICK newStatus \in Statuses \ {"none"}, event \in Events :
            Commit(newStatus, event) /\ event.type \notin SaleEvents
    BY <1>1, <1>2, QuietMoves DEF BoardInv
  <2>2. initialRosters' = initialRosters \/ ActiveIndices(activeSales) = {}
    BY <1>2 DEF CreateRoom, SynchronizeInitialRosters, StartRoom, PauseRoom, ResumeRoom,
                EndRoom, ReopenRoom, PlayersInv, NoSaleBeforeStart
  <2> QED
    BY <1>1, <2>1, <2>2, QuietKeepsTurns
<1>3. CASE CancelRoom
  <2>1. DOMAIN events' = {} /\ ActiveIndices(activeSales') = {}
    BY <1>3 DEF CancelRoom, ActiveIndices
  <2> QED
    BY <2>1 DEF TurnsInv, LoggedSales, PicksInTurn
<1>4. CASE UNCHANGED vars
  BY <1>4 DEF vars, TurnsInv, LoggedSales, PicksInTurn
<1> QED
  BY <1>1, <1>2, <1>3, <1>4, LogSaleKeepsTurns, CorrectSaleKeepsTurns, UndoLastSaleKeepsTurns DEF Next

\* TurnsInv holds of every room.
LEMMA TurnsInvariant == Spec => [](RoomInv /\ TurnsInv)
<1>1. Init => PlayersInv /\ TurnsInv
  <2> SUFFICES ASSUME Init PROVE PlayersInv /\ TurnsInv
    OBVIOUS
  <2>1. DOMAIN initialRosters = {} /\ DOMAIN events = {} /\ ActiveIndices(activeSales) = {}
    BY DEF Init, ActiveIndices
  <2> QED
    BY <2>1 DEF PlayersInv, KeepersDistinct, NoSaleBeforeStart, SalesDistinct,
                TurnsInv, LoggedSales, PicksInTurn
<1> QED
  BY <1>1, RoomInvariant, NextKeepsPlayers, NextKeepsTurns, PTL DEF Spec

\* PicksInTurn: in a snake draft every active sale fills a pick of its own team,
\* through logs, corrections, undos and undone corrections.
THEOREM PicksAreInTurn == Spec => []PicksInTurn
  BY TurnsInvariant, PTL DEF TurnsInv

-----------------------------------------------------------------------------
(* Snake drafts: the team on the clock can pick.                           *)

\* The round in which a roster member was drafted, or is kept.
RoundTaken(member) ==
    IF member.from[1] = "keeper" THEN initialRosters[member.from[2]].round
    ELSE RoundOf(OpenPicks(initialRosters)[member.from[2]])

\* Two members of the team on the clock were not drafted in the same round, and none
\* in the round of its open pick; no round is past that one but a keeper's.
LEMMA RoundsAreTakenOnce ==
    ASSUME RoomInv, PicksInTurn, Snake, NEW team, KeptInOwnRounds(team),
           NEW free \in DOMAIN OpenPicks(initialRosters),
           free \notin ActiveIndices(activeSales),
           team = TeamOfPick(OpenPicks(initialRosters)[free]),
           RoundOf(OpenPicks(initialRosters)[free]) <= Cardinality(RosterSlots)
    PROVE  LET roster == Roster(initialRosters, activeSales, team)
               open == RoundOf(OpenPicks(initialRosters)[free])
           IN  /\ \A member \in roster : RoundTaken(member) \in (1..Cardinality(RosterSlots)) \ {open}
               /\ \A a, b \in roster : RoundTaken(a) = RoundTaken(b) => a = b
               /\ open \in 1..Cardinality(RosterSlots)
<1> DEFINE picks == OpenPicks(initialRosters)
           roster == Roster(initialRosters, activeSales, team)
           last == Rounds * TeamCount
           slots == Cardinality(RosterSlots)
           open == RoundOf(picks[free])
<1>1. /\ \A k \in DOMAIN picks : picks[k] \in 1..last /\ ~KeeperPick(initialRosters, picks[k])
      /\ \A j, k \in DOMAIN picks : picks[j] = picks[k] => j = k
      /\ \A j, k \in DOMAIN picks : j < k => picks[j] < picks[k]
      /\ DOMAIN picks \subseteq Nat \ {0}
  <2>1. InDraftOrder(picks, initialRosters, last)
    BY OpenPicksInOrder
  <2> HIDE DEF picks, last
  <2>2. DOMAIN picks = 1..Len(picks) /\ Len(picks) \in Nat /\ picks \in Seq(1..last)
    BY <2>1 DEF InDraftOrder
  <2>3. \A k \in DOMAIN picks : picks[k] \in 1..last
    BY <2>2, ElementOfSeq
  <2>4. ASSUME NEW j \in DOMAIN picks, NEW k \in DOMAIN picks, picks[j] = picks[k] PROVE j = k
    <3>1. ~(j < k) /\ ~(k < j)
      BY <2>1, <2>3, <2>4 DEF InDraftOrder
    <3> QED
      BY <2>2, <3>1
  <2> QED
    BY <2>1, <2>2, <2>3, <2>4 DEF InDraftOrder
<1>2. /\ \A k \in ActiveIndices(activeSales) \cap DOMAIN picks : RoundOf(picks[k]) \in 1..slots
      /\ open \in 1..slots
  <2>1. \A k \in ActiveIndices(activeSales) : k < free
    <3>1. PICK n \in 0..Len(activeSales) : ActiveIndices(activeSales) = 1..n
      BY DEF RoomInv, BoardInv, ActiveRun
    <3>2. n \in Nat /\ free \in Nat \ {0} /\ free \notin 1..n
      BY <1>1, <3>1 DEF RoomInv, BoardInv, TypeOK
    <3> QED
      BY <3>1, <3>2
  <2>2. Rounds \in Nat /\ slots \in Nat
    BY SeasonReady, SlotsAreFinite
  <2>3. \A p \in 1..last : RoundOf(p) \in 1..Rounds
    BY RoundsOfPicks
  <2>4. open \in 1..Rounds /\ open <= slots
    BY <1>1, <2>3
  <2>5. ASSUME NEW k \in ActiveIndices(activeSales) \cap DOMAIN picks PROVE RoundOf(picks[k]) <= open
    <3>1. picks[k] \in 1..last /\ picks[free] \in 1..last /\ picks[k] < picks[free]
      BY <1>1, <2>1
    <3> HIDE DEF picks
    <3>2. picks[k] <= picks[free]
      <4>1. last \in Nat
        BY SeasonReady DEF TeamCount
      <4> HIDE DEF last
      <4> QED
        BY <3>1, <4>1
    <3> QED
      BY <3>1, <3>2, RoundsRise
  <2>6. ASSUME NEW k \in ActiveIndices(activeSales) \cap DOMAIN picks PROVE RoundOf(picks[k]) \in 1..Rounds
    BY <1>1, <2>3
  <2> HIDE DEF slots, open, picks
  <2> QED
    BY <2>2, <2>4, <2>5, <2>6
<1>3. \A p, q \in 1..last : TeamOfPick(p) = TeamOfPick(q) /\ RoundOf(p) = RoundOf(q) => p = q
  BY OnePickARound
<1>4. \A i, j \in DOMAIN initialRosters :
        initialRosters[i].team = team /\ initialRosters[j].team = team =>
            /\ initialRosters[i].round \in 1..slots
            /\ initialRosters[i].round = initialRosters[j].round => i = j
  BY DEF KeptInOwnRounds
<1> DEFINE Kept(m, i) == /\ i \in DOMAIN initialRosters /\ initialRosters[i].team = team
                         /\ m = [from |-> <<"keeper", i>>, player |-> initialRosters[i].player,
                                 price |-> initialRosters[i].price]
           Sold(m, k) == /\ k \in ActiveIndices(activeSales) /\ activeSales[k].sale.team = team
                         /\ m = [from |-> <<"sale", k>>, player |-> activeSales[k].sale.player,
                                 price |-> activeSales[k].sale.price]
<1>5. \A m \in roster : (\E i : Kept(m, i)) \/ (\E k : Sold(m, k))
  BY DEF Roster, KeepersOf, SalesOf
<1>6. ASSUME NEW m, NEW i, Kept(m, i)
      PROVE  RoundTaken(m) = initialRosters[i].round
  BY <1>6 DEF RoundTaken
<1>7. ASSUME NEW m, NEW k, Sold(m, k)
      PROVE  /\ RoundTaken(m) = RoundOf(picks[k])
             /\ k \in ActiveIndices(activeSales) \cap DOMAIN picks /\ k # free /\ TeamOfPick(picks[k]) = team
  BY <1>7 DEF RoundTaken, PicksInTurn
<1>8. ASSUME NEW i \in DOMAIN initialRosters, initialRosters[i].team = team,
             NEW k \in DOMAIN picks, TeamOfPick(picks[k]) = team
      PROVE  initialRosters[i].round # RoundOf(picks[k])
  BY <1>1, <1>8 DEF KeeperPick
<1>9. ASSUME NEW j \in DOMAIN picks, NEW k \in DOMAIN picks, j # k,
             TeamOfPick(picks[j]) = team, TeamOfPick(picks[k]) = team
      PROVE  RoundOf(picks[j]) # RoundOf(picks[k])
  BY <1>1, <1>3, <1>9
<1> HIDE DEF picks, roster, last, slots, Kept, Sold
<1>10. ASSUME NEW m \in roster PROVE RoundTaken(m) \in (1..slots) \ {open}
  <2>1. CASE \E i : Kept(m, i)
    <3>1. PICK i : Kept(m, i)
      BY <2>1
    <3>2. i \in DOMAIN initialRosters /\ initialRosters[i].team = team
      BY <3>1 DEF Kept
    <3> QED
      BY <1>4, <1>6, <1>8, <3>1, <3>2 DEF picks
  <2>2. CASE \E k : Sold(m, k)
    <3>1. PICK k : Sold(m, k)
      BY <2>2
    <3> QED
      BY <1>1, <1>2, <1>7, <1>9, <3>1 DEF picks
  <2> QED
    BY <1>5, <2>1, <2>2
<1>11. ASSUME NEW a \in roster, NEW b \in roster, RoundTaken(a) = RoundTaken(b) PROVE a = b
  <2>1. ASSUME NEW i, NEW j, Kept(a, i), Kept(b, j) PROVE a = b
    <3>1. i = j
      BY <1>4, <1>6, <1>11, <2>1 DEF Kept
    <3> QED
      BY <2>1, <3>1 DEF Kept
  <2>2. ASSUME NEW j, NEW k, Sold(a, j), Sold(b, k) PROVE a = b
    <3>1. j = k
      BY <1>7, <1>9, <1>11, <2>2
    <3> QED
      BY <2>2, <3>1 DEF Sold
  <2>3. ASSUME NEW x, NEW y, NEW i, NEW k, Kept(x, i), Sold(y, k), RoundTaken(x) = RoundTaken(y)
        PROVE  FALSE
    <3>1. i \in DOMAIN initialRosters /\ initialRosters[i].team = team
      BY <2>3 DEF Kept
    <3> QED
      BY <1>6, <1>7, <1>8, <2>3, <3>1
  <2> QED
    BY <1>5, <1>11, <2>1, <2>2, <2>3
<1> QED
  BY <1>2, <1>10, <1>11 DEF roster, slots, picks, open

\* ClockTeamHasRoom: in the rounds of a snake draft that have a draftable slot, the
\* team on the clock has one left, if its keepers took rounds of their own.  Each
\* member of its roster takes a round, and the open pick's round is none of them.
THEOREM ClockTeamCanPick == Spec => []ClockTeamHasRoom
<1>1. RoomInv /\ TurnsInv => ClockTeamHasRoom
  <2> DEFINE picks == OpenPicks(initialRosters)
             indices == FreeIndices(initialRosters, activeSales)
             free == Min(indices)
             team == TeamOnTheClock(initialRosters, activeSales)
             roster == Roster(initialRosters, activeSales, team)
             slots == Cardinality(RosterSlots)
             open == RoundOf(picks[free])
  <2> SUFFICES ASSUME RoomInv, TurnsInv, Snake, indices # {}, open <= slots, KeptInOwnRounds(team)
               PROVE  RosterSlotsRemaining(roster) > 0
    BY DEF ClockTeamHasRoom, DraftComplete
  <2>1. free \in indices
    <3>1. indices \subseteq Nat
      BY OpenPicksInOrder DEF FreeIndices, InDraftOrder
    <3>2. PICK least \in indices : \A k \in indices : least <= k
      BY <3>1, LeastNat
    <3> HIDE DEF indices
    <3>3. \E x \in indices : \A y \in indices : x <= y
      BY <3>2
    <3> QED
      BY <3>3 DEF Min
  <2>2. /\ free \in DOMAIN picks /\ free \notin ActiveIndices(activeSales)
        /\ team = TeamOfPick(picks[free])
    BY <2>1 DEF FreeIndices, TeamOnTheClock
  <2> HIDE DEF free
  <2>3. /\ \A member \in roster : RoundTaken(member) \in (1..slots) \ {open}
        /\ \A a, b \in roster : RoundTaken(a) = RoundTaken(b) => a = b
        /\ open \in 1..slots
    BY <2>2, RoundsAreTakenOnce DEF TurnsInv
  <2> HIDE DEF roster, open, slots
  <2> DEFINE rounds == (1..slots) \ {open}
             taken == [member \in roster |-> RoundTaken(member)]
  <2>4. slots \in Nat
    BY SlotsAreFinite DEF slots
  <2>5. IsFiniteSet(rounds) /\ Cardinality(rounds) = slots - 1
    <3>1. IsFiniteSet(1..slots) /\ Cardinality(1..slots) = slots
      BY <2>4, FS_Interval
    <3> QED
      BY <2>3, <3>1, FS_RemoveElement
  <2>6. taken \in Injection(roster, rounds)
    <3>1. taken \in [roster -> rounds]
      BY <2>3
    <3>2. \A a, b \in roster : taken[a] = taken[b] => a = b
      BY <2>3
    <3> HIDE DEF taken, rounds
    <3> QED
      BY <3>1, <3>2 DEF Injection, IsInjective
  <2> HIDE DEF taken, rounds
  <2>7. IsFiniteSet(roster) /\ Cardinality(roster) <= slots - 1
    BY <2>5, <2>6, FS_Injection
  <2>8. Cardinality(roster) \in Nat
    BY <2>7, FS_CardinalityType
  <2> QED
    BY <2>4, <2>7, <2>8 DEF RosterSlotsRemaining, AtLeastZero, slots
<1> QED
  BY <1>1, TurnsInvariant, PTL
=============================================================================
