-------------------------- MODULE DraftStream_proofs --------------------------
(***************************************************************************)
(* For any pages and limits: the types of the stream and of its admission, *)
(* that every connection carries its events in the order of the revisions, *)
(* and that a stream which is woken finds a newer revision.                *)
(*                                                                         *)
(* The invariant relates, for each page, the stream the server holds, the  *)
(* page's EventSource and the events between them: the last event on its   *)
(* way is the revision the stream has sent.  Of the admission it says that *)
(* every stream admitted is counted by a subscription, and that the leases *)
(* of streams and the orphans stay within the limit.  Nothing bounds the   *)
(* number of pages: finitely many are admitted.                            *)
(***************************************************************************)
EXTENDS DraftStream, FiniteSetTheorems, SequenceTheorems, TLAPS

OpenPhases == {"ready", "waiting", "woken", "polling", "loading"}

Events == [event : {"named", "snapshot"}, revision : 0..MaxRevision]

StreamStates ==
    [phase : {"off", "opening", "admitted"} \cup OpenPhases,
     revision : 0..MaxRevision, leased : BOOLEAN]

PageStates ==
    [source : {"off", "connecting", "open", "closed"}, shown : 0..MaxRevision,
     asked : BOOLEAN, fetch : 0..MaxRevision, answer : 0..MaxRevision]

InOrder(events) ==
    \A i \in 2..Len(events) :
        LET before == events[i - 1].revision
            after == events[i].revision
        IN  before < after /\ (events[i].event = "named" => after = before + 1)

\* A stream, its page and the events on their way from the one to the other.
Connected(stream, page, events) ==
    /\ stream \in StreamStates /\ page \in PageStates /\ events \in Seq(Events)
    /\ stream.phase = "admitted" => stream.leased
    /\ stream.leased => stream.phase \in OpenPhases \cup {"admitted"}
    /\ page.source = "open" <=> stream.phase \in OpenPhases
    /\ page.source # "open" => events = << >>
    /\ InOrder(events)
    /\ events # << >> => events[Len(events)].revision = stream.revision

ConnectionsFit ==
    /\ streams \in [Pages -> StreamStates]
    /\ pages \in [Pages -> PageStates]
    /\ inbox \in [Pages -> Seq(Events)]
    /\ \A p \in Pages : Connected(streams[p], pages[p], inbox[p])

RoomFits ==
    /\ revision \in 0..MaxRevision /\ lives \in 1..MaxLives /\ listening \in BOOLEAN
    /\ notified \in 0..MaxRevision /\ latest \in 0..notified
    /\ faults \in 0..MaxFaults

Leased == {p \in Pages : streams[p].leased}

AdmissionFits ==
    /\ IsFiniteSet(Admitted) /\ Leased \subseteq Admitted
    /\ orphans \in Nat /\ subscriptions \in 0..Limit
    /\ Cardinality(Leased) + orphans <= Limit
    /\ Cardinality(Admitted) <= subscriptions

\* Until its id is used again, a room is not ahead of its notifications.
NewsFits ==
    FirstLife =>
        /\ notified <= revision
        /\ \A p \in Pages : streams[p].phase = "woken" => revision > streams[p].revision

StreamInvariant ==
    /\ RoomFits
    /\ ConnectionsFit
    /\ AdmissionFits
    /\ NewsFits

-----------------------------------------------------------------------------
(* What a step changes.                                                    *)

\* One connection changes, into one that fits.
LEMMA OneConnection ==
    ASSUME ConnectionsFit, NEW p \in Pages, NEW stream, NEW page, NEW events,
           Connected(stream, page, events),
           streams' = [streams EXCEPT ![p] = stream],
           pages' = [pages EXCEPT ![p] = page],
           inbox' = [inbox EXCEPT ![p] = events]
    PROVE  ConnectionsFit'
<1> stream \in StreamStates /\ page \in PageStates /\ events \in Seq(Events)
  BY DEF Connected
<1>1. streams' \in [Pages -> StreamStates] /\ pages' \in [Pages -> PageStates]
      /\ inbox' \in [Pages -> Seq(Events)]
  BY DEF ConnectionsFit
<1>2. \A q \in Pages : Connected(streams[q], pages[q], inbox[q])'
  <2> SUFFICES ASSUME NEW q \in Pages
               PROVE  Connected(streams'[q], pages'[q], inbox'[q])
    BY DEF Connected
  <2>1. CASE q = p
    BY <2>1 DEF ConnectionsFit
  <2>2. CASE q # p
    BY <2>2 DEF ConnectionsFit
  <2> QED
    BY <2>1, <2>2
<1> QED
  BY <1>1, <1>2 DEF ConnectionsFit

\* The stream of a page is in one of its states.
LEMMA StreamOf ==
    ASSUME ConnectionsFit, NEW p \in Pages
    PROVE  /\ Connected(streams[p], pages[p], inbox[p])
           /\ streams[p] \in StreamStates /\ pages[p] \in PageStates
           /\ inbox[p] \in Seq(Events)
           /\ streams = [streams EXCEPT ![p] = streams[p]]
           /\ pages = [pages EXCEPT ![p] = pages[p]]
           /\ inbox = [inbox EXCEPT ![p] = inbox[p]]
  BY DEF ConnectionsFit

\* A stream in another phase keeps the rest.
LEMMA TurnedStream ==
    ASSUME NEW stream \in StreamStates, NEW phase
    PROVE  /\ [stream EXCEPT !.phase = phase] =
                [phase |-> phase, revision |-> stream.revision, leased |-> stream.leased]
           /\ [stream EXCEPT !.phase = phase].phase = phase
           /\ [stream EXCEPT !.phase = phase].revision = stream.revision
           /\ [stream EXCEPT !.phase = phase].leased = stream.leased
  BY DEF StreamStates

\* Two fields of a stream change, the third stays.
LEMMA SentStream ==
    ASSUME NEW stream \in StreamStates, NEW sent \in 0..MaxRevision
    PROVE  LET new == [stream EXCEPT !.phase = "ready", !.revision = sent]
           IN  /\ new \in StreamStates
               /\ new.phase = "ready" /\ new.revision = sent /\ new.leased = stream.leased
  BY DEF StreamStates, OpenPhases

LEMMA AdmittedStream ==
    ASSUME NEW stream \in StreamStates
    PROVE  LET new == [stream EXCEPT !.phase = "admitted", !.leased = TRUE]
           IN  /\ new \in StreamStates
               /\ new.phase = "admitted" /\ new.revision = stream.revision /\ new.leased
  BY DEF StreamStates, OpenPhases

\* Nothing that the admission counts changes.
LEMMA AdmissionStays ==
    ASSUME AdmissionFits, UNCHANGED <<subscriptions, orphans>>,
           \A p \in Pages :
              /\ streams'[p].phase \notin {"off", "opening"} <=>
                    streams[p].phase \notin {"off", "opening"}
              /\ streams'[p].leased = streams[p].leased
    PROVE  AdmissionFits'
<1>1. Admitted' = Admitted /\ Leased' = Leased
  BY DEF Admitted, Leased
<1> QED
  BY <1>1 DEF AdmissionFits

\* What is still true of the news when no stream is woken by the step.
LEMMA NoWake ==
    ASSUME RoomFits, NewsFits, UNCHANGED <<revision, lives, notified>>,
           \A p \in Pages : streams'[p].phase = "woken" =>
              streams[p].phase = "woken" /\ streams'[p].revision = streams[p].revision
    PROVE  NewsFits'
  BY DEF NewsFits, FirstLife, Exists

\* A stream whose phase turns, while it is open.
LEMMA TurnsFits ==
    ASSUME StreamInvariant, NEW p \in Pages, NEW phase \in OpenPhases, Turns(p, phase),
           streams[p].phase \in OpenPhases,
           phase = "woken" => (FirstLife => revision > streams[p].revision)
    PROVE  StreamInvariant'
<1> DEFINE new == [streams[p] EXCEPT !.phase = phase]
<1> USE DEF StreamInvariant
<1>1. /\ Connected(streams[p], pages[p], inbox[p]) /\ streams[p] \in StreamStates
      /\ pages = [pages EXCEPT ![p] = pages[p]] /\ inbox = [inbox EXCEPT ![p] = inbox[p]]
  BY StreamOf
<1>2. new = [phase |-> phase, revision |-> streams[p].revision, leased |-> streams[p].leased]
  BY <1>1, TurnedStream
<1>3. Connected(new, pages[p], inbox[p])
  BY <1>1, <1>2 DEF Connected, StreamStates, OpenPhases
<1>4. streams' = [streams EXCEPT ![p] = new] /\ streams' \in [Pages -> StreamStates]
      /\ UNCHANGED <<pages, inbox, revision, lives, listening, notified, latest,
                     subscriptions, orphans, faults>>
  <2>1. streams' = [streams EXCEPT ![p] = new]
        /\ UNCHANGED <<pages, inbox, revision, lives, listening, notified, latest,
                       subscriptions, orphans, faults>>
    BY DEF Turns, SameRoom
  <2> QED
    BY <2>1, <1>3 DEF ConnectionsFit, Connected
<1>5. ConnectionsFit'
  <2> HIDE DEF new
  <2> QED
    BY <1>1, <1>3, <1>4, OneConnection
<1>6. \A q \in Pages : streams'[q] = IF q = p THEN new ELSE streams[q]
  BY <1>4 DEF ConnectionsFit
<1>7. AdmissionFits'
  <2> HIDE DEF new
  <2>1. \A q \in Pages :
              /\ streams'[q].phase \notin {"off", "opening"} <=>
                    streams[q].phase \notin {"off", "opening"}
              /\ streams'[q].leased = streams[q].leased
    BY <1>2, <1>6 DEF OpenPhases
  <2> QED
    BY <2>1, <1>4, AdmissionStays
<1>8. NewsFits'
  <2> HIDE DEF new
  <2> QED
    BY <1>2, <1>4, <1>6 DEF NewsFits, FirstLife, Exists
<1>9. RoomFits'
  BY <1>4 DEF RoomFits
<1> QED
  BY <1>5, <1>7, <1>8, <1>9

-----------------------------------------------------------------------------
(* The room.                                                               *)

\* A new revision is notified as it is, or not at all.
LEMMA Notified ==
    ASSUME RoomFits, NEW new \in 1..MaxRevision, Notify(new)
    PROVE  /\ notified' \in 0..MaxRevision /\ notified' >= notified
           /\ notified' <= notified \/ notified' = new
  BY StreamTyped DEF Notify, RoomFits, Max

\* A step that leaves the streams, the pages and the events alone.
LEMMA RoomStep ==
    ASSUME StreamInvariant, RoomFits', NewsFits',
           UNCHANGED <<streams, subscriptions, orphans, pages, inbox>>
    PROVE  StreamInvariant'
<1>1. ConnectionsFit'
  BY DEF StreamInvariant, ConnectionsFit, Connected
<1>2. AdmissionFits'
  BY AdmissionStays DEF StreamInvariant
<1> QED
  BY <1>1, <1>2 DEF StreamInvariant

\* A room that goes on, in this process or another.
LEMMA NextRevisionFits ==
    ASSUME StreamInvariant, NextRevision, UNCHANGED <<listening, latest, faults>>,
           \A p \in Pages : streams'[p] = streams[p]
    PROVE  RoomFits' /\ NewsFits' /\ revision + 1 \in 0..MaxRevision
<1>1. revision \in Nat /\ revision + 1 \in 1..MaxRevision /\ revision' = revision + 1
      /\ lives' = lives /\ Notify(revision + 1) /\ Exists
  BY StreamTyped DEF NextRevision, StreamInvariant, RoomFits, Exists
<1>2. /\ notified' \in 0..MaxRevision /\ notified' >= notified
      /\ notified' <= notified \/ notified' = revision + 1
  BY <1>1, Notified DEF StreamInvariant
<1>3. RoomFits'
  BY <1>1, <1>2, StreamTyped DEF StreamInvariant, RoomFits
<1>4. NewsFits'
  <2> SUFFICES ASSUME FirstLife'
               PROVE  /\ notified' <= revision'
                      /\ \A p \in Pages : streams'[p].phase = "woken" =>
                            revision' > streams'[p].revision
    BY DEF NewsFits
  <2>1. FirstLife
    BY <1>1 DEF FirstLife, Exists
  <2>2. notified <= revision
        /\ \A p \in Pages : streams[p].phase = "woken" => revision > streams[p].revision
    BY <2>1 DEF StreamInvariant, NewsFits
  <2>3. \A p \in Pages : streams[p].revision \in 0..MaxRevision
    BY DEF StreamInvariant, ConnectionsFit, StreamStates
  <2>4. notified \in Nat /\ MaxRevision \in Nat
    BY StreamTyped DEF StreamInvariant, RoomFits
  <2> QED
    BY <1>1, <1>2, <2>2, <2>3, <2>4
<1> QED
  BY <1>1, <1>3, <1>4

LEMMA CommitFits == ASSUME StreamInvariant, Commit PROVE StreamInvariant'
  BY NextRevisionFits, RoomStep DEF Commit, server

LEMMA CancelRoomFits == ASSUME StreamInvariant, CancelRoom PROVE StreamInvariant'
<1>1. RoomFits'
  BY StreamTyped DEF StreamInvariant, CancelRoom, server, RoomFits
<1>2. NewsFits'
  BY DEF CancelRoom, NewsFits, FirstLife, Exists
<1> QED
  BY <1>1, <1>2, RoomStep DEF CancelRoom, server

LEMMA CreateRoomFits == ASSUME StreamInvariant, CreateRoom PROVE StreamInvariant'
<1>1. lives \in 1..MaxLives /\ lives' = lives + 1 /\ revision' = 1 /\ lives < MaxLives
  BY DEF StreamInvariant, RoomFits, CreateRoom
<1>2. notified' \in 0..MaxRevision /\ notified' >= notified
  BY Notified, StreamTyped DEF StreamInvariant, CreateRoom
<1>3. RoomFits'
  BY <1>1, <1>2, StreamTyped DEF StreamInvariant, CreateRoom, server, RoomFits
<1>4. NewsFits'
  BY <1>1, StreamTyped DEF NewsFits, FirstLife, Exists
<1> QED
  BY <1>3, <1>4, RoomStep DEF CreateRoom, server

-----------------------------------------------------------------------------
(* The server's streams.                                                   *)

\* What a step on one connection has to show, besides the connection.
LEMMA ConnectionStep ==
    ASSUME StreamInvariant, NEW p \in Pages, NEW stream, NEW page, NEW events,
           Connected(stream, page, events),
           streams' = [streams EXCEPT ![p] = stream],
           pages' = [pages EXCEPT ![p] = page],
           inbox' = [inbox EXCEPT ![p] = events],
           SameRoom, UNCHANGED latest, faults' \in 0..MaxFaults,
           stream.phase # "woken", AdmissionFits'
    PROVE  StreamInvariant'
<1>1. ConnectionsFit'
  BY OneConnection DEF StreamInvariant
<1>2. \A q \in Pages : streams'[q] = IF q = p THEN stream ELSE streams[q]
  BY DEF StreamInvariant, ConnectionsFit
<1>3. NewsFits'
  BY <1>2, NoWake DEF StreamInvariant, SameRoom
<1>4. RoomFits'
  BY DEF StreamInvariant, RoomFits, SameRoom
<1> QED
  BY <1>1, <1>3, <1>4 DEF StreamInvariant

\* A stream that ends: what is still admitted and leased.
LEMMA OneLeaves ==
    ASSUME StreamInvariant, NEW p \in Pages, streams' = [streams EXCEPT ![p] = Off]
    PROVE  /\ IsFiniteSet(Admitted') /\ Admitted' = Admitted \ {p}
           /\ Cardinality(Admitted') =
                IF p \in Admitted THEN Cardinality(Admitted) - 1 ELSE Cardinality(Admitted)
           /\ IsFiniteSet(Leased') /\ Leased' = Leased \ {p} /\ Leased' \subseteq Admitted'
           /\ Cardinality(Leased') =
                IF p \in Leased THEN Cardinality(Leased) - 1 ELSE Cardinality(Leased)
           /\ Cardinality(Leased) \in Nat /\ Cardinality(Admitted) \in Nat
           /\ p \in Admitted => Cardinality(Admitted) >= 1
           /\ p \in Leased => Cardinality(Leased) >= 1
<1>1. \A q \in Pages : streams'[q] = IF q = p THEN Off ELSE streams[q]
  BY DEF StreamInvariant, ConnectionsFit
<1>2. Off.phase = "off" /\ ~Off.leased
  BY DEF Off
<1>3. Admitted' = Admitted \ {p} /\ Leased' = Leased \ {p}
  BY <1>1, <1>2 DEF Admitted, Leased
<1>4. IsFiniteSet(Admitted) /\ Leased \subseteq Admitted /\ IsFiniteSet(Leased)
  BY FS_Subset DEF StreamInvariant, AdmissionFits
<1>5. Cardinality(Leased) \in Nat /\ Cardinality(Admitted) \in Nat
      /\ (Cardinality(Admitted) = 0 <=> Admitted = {}) /\ (Cardinality(Leased) = 0 <=> Leased = {})
  BY <1>4, FS_CardinalityType, FS_EmptySet
<1>6. /\ IsFiniteSet(Admitted \ {p}) /\ IsFiniteSet(Leased \ {p})
      /\ Cardinality(Admitted \ {p}) =
                IF p \in Admitted THEN Cardinality(Admitted) - 1 ELSE Cardinality(Admitted)
      /\ Cardinality(Leased \ {p}) =
                IF p \in Leased THEN Cardinality(Leased) - 1 ELSE Cardinality(Leased)
  BY <1>4, FS_RemoveElement
<1> QED
  BY <1>3, <1>4, <1>5, <1>6

\* A closed stream, with a page that has no open source.
LEMMA OffConnected ==
    ASSUME NEW page \in PageStates, page.source # "open"
    PROVE  Connected(Off, page, << >>)
  BY StreamTyped DEF Connected, Off, StreamStates, OpenPhases, InOrder

LEMMA RefuseFits ==
    ASSUME StreamInvariant, NEW p \in Pages, streams[p].phase \in {"off", "opening"}, Refuse(p)
    PROVE  StreamInvariant'
<1> DEFINE page == [pages[p] EXCEPT !.source = "closed"]
<1>1. /\ Connected(streams[p], pages[p], inbox[p]) /\ streams[p] \in StreamStates
      /\ pages[p] \in PageStates /\ inbox = [inbox EXCEPT ![p] = inbox[p]]
  BY StreamOf DEF StreamInvariant
<1>2. page \in PageStates /\ page.source = "closed"
  BY <1>1 DEF PageStates
<1>3. inbox[p] = << >> /\ p \notin Admitted
  BY <1>1 DEF Connected, OpenPhases, Admitted
<1>4. streams' = [streams EXCEPT ![p] = Off] /\ pages' = [pages EXCEPT ![p] = page]
      /\ inbox' = [inbox EXCEPT ![p] = << >>] /\ SameRoom
      /\ UNCHANGED <<latest, subscriptions, orphans, faults>>
  BY <1>1, <1>3 DEF Refuse
<1> HIDE DEF page
<1>5. AdmissionFits'
  BY <1>3, <1>4, OneLeaves DEF StreamInvariant, AdmissionFits
<1> QED
  BY <1>2, <1>4, <1>5, OffConnected, ConnectionStep DEF Off, StreamInvariant, RoomFits

LEMMA EndsFits ==
    ASSUME StreamInvariant, NEW p \in Open, Ends(p), faults' \in 0..MaxFaults
    PROVE  StreamInvariant'
<1> DEFINE page == [pages[p] EXCEPT !.source = "connecting"]
<1> p \in Pages /\ p \in Admitted
  BY DEF Open, Admitted
<1>1. pages[p] \in PageStates
  BY StreamOf DEF StreamInvariant
<1>2. page \in PageStates /\ page.source = "connecting"
  BY <1>1 DEF PageStates
<1>4. streams' = [streams EXCEPT ![p] = Off] /\ pages' = [pages EXCEPT ![p] = page]
      /\ inbox' = [inbox EXCEPT ![p] = << >>] /\ SameRoom
      /\ UNCHANGED <<latest, orphans>> /\ subscriptions' = subscriptions - 1
  BY DEF Ends
<1> HIDE DEF page
<1>5. AdmissionFits'
  <2>1. /\ IsFiniteSet(Admitted') /\ Leased' \subseteq Admitted'
        /\ Cardinality(Admitted') = Cardinality(Admitted) - 1 /\ Cardinality(Admitted) >= 1
        /\ Cardinality(Leased') \in {Cardinality(Leased), Cardinality(Leased) - 1}
        /\ Cardinality(Leased) \in Nat /\ Cardinality(Admitted) \in Nat
    BY <1>4, OneLeaves
  <2> QED
    BY <1>4, <2>1, StreamTyped DEF StreamInvariant, AdmissionFits
<1> QED
  BY <1>2, <1>4, <1>5, OffConnected, ConnectionStep DEF Off

LEMMA ConnectFits == ASSUME StreamInvariant, NEW p \in Pages, Connect(p) PROVE StreamInvariant'
<1>1. CASE ~Exists
  BY <1>1, RefuseFits DEF Connect
<1>2. CASE Exists
  <2> DEFINE stream == [phase |-> "opening", revision |-> revision, leased |-> FALSE]
  <2>1. /\ Connected(streams[p], pages[p], inbox[p]) /\ streams[p] \in StreamStates
        /\ pages = [pages EXCEPT ![p] = pages[p]] /\ inbox = [inbox EXCEPT ![p] = inbox[p]]
    BY StreamOf DEF StreamInvariant
  <2>2. streams' = [streams EXCEPT ![p] = stream] /\ SameRoom
        /\ UNCHANGED <<latest, subscriptions, orphans, pages, inbox, faults>>
        /\ streams[p].phase = "off"
    BY <1>2 DEF Connect
  <2>3. Connected(stream, pages[p], inbox[p]) /\ stream.phase = "opening" /\ stream.leased = FALSE
    BY <2>1, <2>2 DEF Connected, StreamStates, OpenPhases, StreamInvariant, RoomFits
  <2>4. streams[p].leased = FALSE /\ \A q \in Pages : streams'[q] = IF q = p THEN stream ELSE streams[q]
    BY <2>1, <2>2 DEF StreamInvariant, ConnectionsFit, Connected, OpenPhases, StreamStates
  <2> HIDE DEF stream
  <2>5. AdmissionFits'
    <3>1. streams[p].leased = stream.leased
      BY <2>3, <2>4
    <3> QED
      BY <2>2, <2>3, <2>4, <3>1, AdmissionStays DEF StreamInvariant
  <2>6. faults' \in 0..MaxFaults /\ latest' = latest
        /\ pages' = [pages EXCEPT ![p] = pages[p]] /\ inbox' = [inbox EXCEPT ![p] = inbox[p]]
    BY <2>1, <2>2 DEF StreamInvariant, RoomFits
  <2>7. PICK page, events : page = pages[p] /\ events = inbox[p]
    OBVIOUS
  <2>8. Connected(stream, page, events) /\ stream.phase # "woken"
    BY <2>3, <2>7
  <2>9. streams' = [streams EXCEPT ![p] = stream] /\ SameRoom
    BY <2>2
  <2>10. pages' = [pages EXCEPT ![p] = page] /\ inbox' = [inbox EXCEPT ![p] = events]
    BY <2>6, <2>7
  <2> QED
    BY <2>8, <2>9, <2>10, <2>5, <2>6, ConnectionStep
<1> QED
  BY <1>1, <1>2

LEMMA AdmitFits == ASSUME StreamInvariant, NEW p \in Pages, Admit(p) PROVE StreamInvariant'
<1>1. CASE Leases >= Limit \/ subscriptions >= Limit
  BY <1>1, RefuseFits DEF Admit
<1>2. CASE ~(Leases >= Limit \/ subscriptions >= Limit)
  <2> DEFINE stream == [streams[p] EXCEPT !.phase = "admitted", !.leased = TRUE]
  <2>1. /\ Connected(streams[p], pages[p], inbox[p]) /\ streams[p] \in StreamStates
        /\ pages = [pages EXCEPT ![p] = pages[p]] /\ inbox = [inbox EXCEPT ![p] = inbox[p]]
    BY StreamOf DEF StreamInvariant
  <2>2. streams' = [streams EXCEPT ![p] = stream] /\ SameRoom
        /\ UNCHANGED <<latest, orphans, pages, inbox, faults>>
        /\ streams[p].phase = "opening" /\ subscriptions' = subscriptions + 1
    <3>1. [streams EXCEPT ![p].phase = "admitted", ![p].leased = TRUE] =
          [streams EXCEPT ![p] = stream]
      BY DEF StreamInvariant, ConnectionsFit
    <3> QED
      BY <1>2, <3>1 DEF Admit
  <2>3. Connected(stream, pages[p], inbox[p]) /\ stream.phase = "admitted" /\ stream.leased
    <3>1. /\ stream \in StreamStates /\ stream.phase = "admitted"
          /\ stream.revision = streams[p].revision /\ stream.leased
      BY <2>1, AdmittedStream
    <3> HIDE DEF stream
    <3> QED
      BY <2>1, <2>2, <3>1 DEF Connected, OpenPhases
  <2>4. \A q \in Pages : streams'[q] = IF q = p THEN stream ELSE streams[q]
    BY <2>2 DEF StreamInvariant, ConnectionsFit
  <2> HIDE DEF stream
  <2>5. p \notin Admitted /\ Admitted' = Admitted \cup {p} /\ Leased' = Leased \cup {p}
    BY <2>2, <2>3, <2>4 DEF Admitted, Leased
  <2>6. IsFiniteSet(Admitted) /\ IsFiniteSet(Leased) /\ Leased \subseteq Admitted
    BY FS_Subset DEF StreamInvariant, AdmissionFits
  <2>7. /\ IsFiniteSet(Admitted')
        /\ Cardinality(Admitted') = Cardinality(Admitted) + 1
        /\ Cardinality(Leased') = Cardinality(Leased) + 1
        /\ Cardinality(Leased) \in Nat /\ Cardinality(Admitted) \in Nat
    BY <2>5, <2>6, FS_AddElement, FS_CardinalityType
  <2>8. Cardinality(Leased) + orphans < Limit /\ subscriptions < Limit
    <3>1. Cardinality(Leased) + orphans \in Int /\ subscriptions \in Int /\ Limit \in Int
      BY <2>7, StreamTyped DEF StreamInvariant, AdmissionFits
    <3>2. ~(Cardinality(Leased) + orphans >= Limit) /\ ~(subscriptions >= Limit)
      BY <1>2 DEF Leases, Leased
    <3> QED
      BY <3>1, <3>2
  <2>9. AdmissionFits'
    BY <2>2, <2>5, <2>6, <2>7, <2>8, StreamTyped DEF StreamInvariant, AdmissionFits
  <2>10. faults' \in 0..MaxFaults /\ latest' = latest /\ stream.phase # "woken"
        /\ pages' = [pages EXCEPT ![p] = pages[p]] /\ inbox' = [inbox EXCEPT ![p] = inbox[p]]
    BY <2>1, <2>2, <2>3 DEF StreamInvariant, RoomFits
  <2>11. streams' = [streams EXCEPT ![p] = stream] /\ SameRoom
    BY <2>2
  <2>12. Connected(stream, pages[p], inbox[p])
    BY <2>3
  <2> QED
    BY <2>9, <2>10, <2>11, <2>12, ConnectionStep
<1> QED
  BY <1>1, <1>2

\* An event that is sent in order.
LEMMA SentInOrder ==
    ASSUME NEW events \in Seq(Events), InOrder(events), NEW event \in Events,
           events # << >> =>
              /\ events[Len(events)].revision < event.revision
              /\ event.event = "named" => event.revision = events[Len(events)].revision + 1
    PROVE  /\ Append(events, event) \in Seq(Events)
           /\ InOrder(Append(events, event))
           /\ Append(events, event) # << >>
           /\ Append(events, event)[Len(Append(events, event))] = event
<1> DEFINE longer == Append(events, event)
<1>1. /\ longer \in Seq(Events) /\ Len(longer) = Len(events) + 1 /\ Len(events) \in Nat
      /\ \A i \in 1..Len(events) : longer[i] = events[i]
      /\ longer[Len(events) + 1] = event
  OBVIOUS
<1>2. InOrder(longer)
  <2> HIDE DEF longer
  <2> SUFFICES ASSUME NEW i \in 2..Len(longer)
               PROVE  /\ longer[i - 1].revision < longer[i].revision
                      /\ longer[i].event = "named" =>
                            longer[i].revision = longer[i - 1].revision + 1
    BY DEF InOrder
  <2>1. CASE i = Len(longer)
    <3>1. Len(events) >= 1 /\ events # << >> /\ longer[i] = event /\ longer[i - 1] = events[Len(events)]
      BY <1>1, <2>1
    <3> QED
      BY <3>1
  <2>2. CASE i # Len(longer)
    <3>1. i \in 2..Len(events) /\ longer[i] = events[i] /\ longer[i - 1] = events[i - 1]
      BY <1>1, <2>2
    <3> QED
      BY <3>1 DEF InOrder
  <2> QED
    BY <2>1, <2>2
<1> QED
  BY <1>1, <1>2

\* What is left of the events when the first has arrived.
LEMMA RestInOrder ==
    ASSUME NEW events \in Seq(Events), InOrder(events), events # << >>
    PROVE  /\ Tail(events) \in Seq(Events) /\ InOrder(Tail(events))
           /\ Head(events) \in Events
           /\ Tail(events) # << >> => Tail(events)[Len(Tail(events))] = events[Len(events)]
<1> DEFINE rest == Tail(events)
<1>1. /\ rest \in Seq(Events) /\ Len(rest) = Len(events) - 1 /\ Len(events) \in Nat /\ Len(events) >= 1
      /\ \A i \in 1..Len(rest) : rest[i] = events[i + 1]
      /\ Head(events) \in Events
  OBVIOUS
<1>2. InOrder(rest)
  <2> HIDE DEF rest
  <2> SUFFICES ASSUME NEW i \in 2..Len(rest)
               PROVE  /\ rest[i - 1].revision < rest[i].revision
                      /\ rest[i].event = "named" => rest[i].revision = rest[i - 1].revision + 1
    BY DEF InOrder
  <2>1. i + 1 \in 2..Len(events) /\ rest[i] = events[i + 1] /\ rest[i - 1] = events[(i + 1) - 1]
    BY <1>1
  <2> QED
    BY <2>1 DEF InOrder
<1>3. rest # << >> => rest[Len(rest)] = events[Len(events)]
  BY <1>1
<1> QED
  BY <1>1, <1>2, <1>3

\* An open or admitted stream that sends an event and is ready again.
LEMMA SendsFits ==
    ASSUME StreamInvariant, NEW p \in Admitted, NEW sent \in 0..MaxRevision, NEW page \in PageStates,
           page.source = "open", NEW event \in {"named", "snapshot"},
           inbox[p] # << >> =>
              /\ streams[p].revision < sent
              /\ event = "named" => sent = streams[p].revision + 1,
           streams' = [streams EXCEPT ![p] = [@ EXCEPT !.phase = "ready", !.revision = sent]],
           pages' = [pages EXCEPT ![p] = page],
           Sends(p, event, sent), SameRoom, UNCHANGED <<latest, subscriptions, orphans, faults>>
    PROVE  StreamInvariant'
<1> DEFINE stream == [streams[p] EXCEPT !.phase = "ready", !.revision = sent]
           new == [event |-> event, revision |-> sent]
           events == Append(inbox[p], new)
<1> p \in Pages
  BY DEF Admitted
<1>1. /\ Connected(streams[p], pages[p], inbox[p]) /\ streams[p] \in StreamStates
      /\ inbox[p] \in Seq(Events) /\ InOrder(inbox[p])
      /\ inbox[p] # << >> => inbox[p][Len(inbox[p])].revision = streams[p].revision
  BY StreamOf DEF StreamInvariant, Connected
<1>2. new \in Events /\ new.revision = sent /\ new.event = event
  BY DEF Events
<1>3. events \in Seq(Events) /\ InOrder(events) /\ events # << >> /\ events[Len(events)] = new
  <2> HIDE DEF new
  <2> QED
    BY <1>1, <1>2, SentInOrder
<1>4. stream \in StreamStates /\ stream.phase = "ready" /\ stream.revision = sent
      /\ stream.leased = streams[p].leased
  BY <1>1, SentStream
<1>5. inbox' = [inbox EXCEPT ![p] = events] /\ streams' = [streams EXCEPT ![p] = stream]
  BY DEF Sends, StreamInvariant, ConnectionsFit
<1> HIDE DEF stream, new, events
<1>6. Connected(stream, page, events)
  BY <1>2, <1>3, <1>4 DEF Connected, OpenPhases
<1>7. \A q \in Pages : streams'[q] = IF q = p THEN stream ELSE streams[q]
  BY <1>5 DEF StreamInvariant, ConnectionsFit
<1>8. AdmissionFits'
  <2>1. \A q \in Pages :
              /\ streams'[q].phase \notin {"off", "opening"} <=>
                    streams[q].phase \notin {"off", "opening"}
              /\ streams'[q].leased = streams[q].leased
    BY <1>4, <1>7 DEF Admitted
  <2> QED
    BY <2>1, AdmissionStays DEF StreamInvariant
<1>9. faults' \in 0..MaxFaults /\ stream.phase # "woken" /\ latest' = latest
  BY <1>4 DEF StreamInvariant, RoomFits
<1> QED
  BY <1>5, <1>6, <1>8, <1>9, ConnectionStep

LEMMA BeginFits == ASSUME StreamInvariant, NEW p \in Pages, Begin(p) PROVE StreamInvariant'
<1> DEFINE page == [pages[p] EXCEPT !.source = "open"]
<1>1. /\ Connected(streams[p], pages[p], inbox[p]) /\ streams[p] \in StreamStates
      /\ pages[p] \in PageStates
  BY StreamOf DEF StreamInvariant
<1>2. page \in PageStates /\ page.source = "open"
  BY <1>1 DEF PageStates
<1>3. p \in Admitted /\ inbox[p] = << >> /\ streams[p].revision \in 0..MaxRevision
  BY <1>1 DEF Begin, Admitted, Connected, OpenPhases, StreamStates
<1>4. [streams EXCEPT ![p].phase = "ready"] =
        [streams EXCEPT ![p] = [@ EXCEPT !.phase = "ready", !.revision = streams[p].revision]]
  <2>1. [streams[p] EXCEPT !.phase = "ready"] =
          [streams[p] EXCEPT !.phase = "ready", !.revision = streams[p].revision]
    BY <1>1 DEF StreamStates
  <2> QED
    BY <2>1 DEF StreamInvariant, ConnectionsFit
<1>5. streams' =
        [streams EXCEPT ![p] = [@ EXCEPT !.phase = "ready", !.revision = streams[p].revision]]
      /\ pages' = [pages EXCEPT ![p] = page] /\ Sends(p, "snapshot", streams[p].revision)
      /\ SameRoom /\ UNCHANGED <<latest, subscriptions, orphans, faults>>
  BY <1>4 DEF Begin
<1> HIDE DEF page
<1> QED
  BY <1>2, <1>3, <1>5, SendsFits

LEMMA WaitFits == ASSUME StreamInvariant, NEW p \in Pages, Wait(p) PROVE StreamInvariant'
<1> p \in Open
  BY DEF Wait, Open, Admitted
<1>1. CASE ~streams[p].leased
  BY <1>1, EndsFits DEF Wait, StreamInvariant, RoomFits
<1>2. CASE streams[p].leased
  <2>1. latest > streams[p].revision => (FirstLife => revision > streams[p].revision)
    BY StreamTyped, StreamOf DEF StreamInvariant, RoomFits, NewsFits, StreamStates
  <2>2. CASE latest > streams[p].revision
    <3>1. Turns(p, "woken") /\ streams[p].phase = "ready"
      BY <1>2, <2>2 DEF Wait
    <3> QED
      BY <2>1, <2>2, <3>1, TurnsFits DEF OpenPhases
  <2>3. CASE ~(latest > streams[p].revision)
    <3>1. Turns(p, "waiting") /\ streams[p].phase = "ready"
      BY <1>2, <2>3 DEF Wait
    <3> QED
      BY <3>1, TurnsFits DEF OpenPhases
  <2> QED
    BY <2>2, <2>3
<1> QED
  BY <1>1, <1>2

LEMMA WaitTimesOutFits == ASSUME StreamInvariant, NEW p \in Pages, WaitTimesOut(p) PROVE StreamInvariant'
  BY TurnsFits DEF WaitTimesOut, OpenPhases

LEMMA PollFits == ASSUME StreamInvariant, NEW p \in Pages, Poll(p) PROVE StreamInvariant'
<1> p \in Open
  BY DEF Poll, Open, Admitted
<1>1. CASE ~Exists
  BY <1>1, EndsFits DEF Poll, StreamInvariant, RoomFits
<1>2. CASE Exists
  BY <1>2, TurnsFits DEF Poll, OpenPhases
<1> QED
  BY <1>1, <1>2

LEMMA LoadUpdateFits == ASSUME StreamInvariant, NEW p \in Pages, LoadUpdate(p) PROVE StreamInvariant'
<1> p \in Open /\ p \in Admitted
  BY DEF LoadUpdate, Open, Admitted
<1>1. CASE ~Exists
  BY <1>1, EndsFits DEF LoadUpdate, StreamInvariant, RoomFits
<1>2. CASE Exists /\ revision <= streams[p].revision
  BY <1>2, TurnsFits DEF LoadUpdate, OpenPhases
<1>3. CASE Exists /\ ~(revision <= streams[p].revision)
  <2>1. /\ Connected(streams[p], pages[p], inbox[p]) /\ streams[p] \in StreamStates
        /\ pages[p] \in PageStates /\ pages = [pages EXCEPT ![p] = pages[p]]
    BY StreamOf DEF StreamInvariant
  <2>2. streams[p].revision < revision /\ revision \in 0..MaxRevision
    BY <1>3, <2>1, StreamTyped DEF StreamInvariant, RoomFits, StreamStates
  <2>3. pages[p].source = "open"
    BY <2>1 DEF LoadUpdate, Connected, OpenPhases
  <2>4. [streams EXCEPT ![p].phase = "ready", ![p].revision = revision] =
        [streams EXCEPT ![p] = [@ EXCEPT !.phase = "ready", !.revision = revision]]
    BY DEF StreamInvariant, ConnectionsFit
  <2>5. PICK event \in EventNames(streams[p].revision, revision) : Sends(p, event, revision)
    BY <1>3 DEF LoadUpdate
  <2>6. event \in {"named", "snapshot"} /\ (event = "named" => revision = streams[p].revision + 1)
    BY <2>5 DEF EventNames
  <2>7. streams' = [streams EXCEPT ![p] = [@ EXCEPT !.phase = "ready", !.revision = revision]]
        /\ pages' = [pages EXCEPT ![p] = pages[p]]
        /\ SameRoom /\ UNCHANGED <<latest, subscriptions, orphans, faults>>
    BY <1>3, <2>1, <2>4 DEF LoadUpdate
  <2> QED
    BY <2>1, <2>2, <2>3, <2>5, <2>6, <2>7, SendsFits
<1> QED
  BY <1>1, <1>2, <1>3

\* Streams that wait for an older revision are woken.
LEMMA DeliverFits == ASSUME StreamInvariant, Deliver PROVE StreamInvariant'
<1>1. PICK new \in (latest + 1)..notified :
        /\ latest' = new
        /\ streams' = [p \in Pages |->
                IF streams[p].phase = "waiting" /\ new > streams[p].revision
                THEN [streams[p] EXCEPT !.phase = "woken"] ELSE streams[p]]
        /\ SameRoom /\ UNCHANGED <<subscriptions, orphans, pages, inbox, faults>>
  BY DEF Deliver
<1>2. \A p \in Pages :
        \/ streams'[p] = streams[p]
        \/ /\ streams[p].phase = "waiting" /\ new > streams[p].revision
           /\ streams'[p] = [streams[p] EXCEPT !.phase = "woken"]
  BY <1>1
<1>3. \A p \in Pages :
        /\ Connected(streams'[p], pages[p], inbox[p])
        /\ streams'[p].phase \notin {"off", "opening"} <=> streams[p].phase \notin {"off", "opening"}
        /\ streams'[p].leased = streams[p].leased
        /\ streams'[p].revision = streams[p].revision
        /\ streams'[p].phase = "woken" => streams[p].phase = "woken" \/ new > streams[p].revision
  <2> SUFFICES ASSUME NEW p \in Pages, streams'[p] # streams[p]
               PROVE  /\ Connected(streams'[p], pages[p], inbox[p])
                      /\ streams'[p].phase \notin {"off", "opening"}
                      /\ streams[p].phase \notin {"off", "opening"}
                      /\ streams'[p].leased = streams[p].leased
                      /\ streams'[p].revision = streams[p].revision
                      /\ new > streams[p].revision
    BY StreamOf DEF StreamInvariant
  <2>1. streams[p].phase = "waiting" /\ new > streams[p].revision
        /\ streams'[p] = [streams[p] EXCEPT !.phase = "woken"]
    BY <1>2
  <2>2. Connected(streams[p], pages[p], inbox[p]) /\ streams[p] \in StreamStates
    BY StreamOf DEF StreamInvariant
  <2>3. /\ streams'[p].phase = "woken" /\ streams'[p].revision = streams[p].revision
        /\ streams'[p].leased = streams[p].leased /\ streams'[p] \in StreamStates
    BY <2>1, <2>2 DEF StreamStates, OpenPhases
  <2> QED
    BY <2>1, <2>2, <2>3 DEF Connected, OpenPhases
<1>4. new \in 0..notified /\ new \in 0..MaxRevision
  BY StreamTyped DEF StreamInvariant, RoomFits
<1>5. ConnectionsFit'
  <2>1. \A p \in Pages : streams'[p] \in StreamStates
    BY <1>3 DEF Connected
  <2>2. streams' \in [Pages -> StreamStates]
    BY <1>1, <2>1
  <2> QED
    BY <1>1, <1>3, <2>2 DEF StreamInvariant, ConnectionsFit
<1>6. AdmissionFits'
  BY <1>1, <1>3, AdmissionStays DEF StreamInvariant
<1>7. NewsFits'
  <2> SUFFICES ASSUME FirstLife', NEW p \in Pages, streams'[p].phase = "woken"
               PROVE  notified' <= revision' /\ revision' > streams'[p].revision
    BY <1>1 DEF NewsFits, StreamInvariant, FirstLife, Exists, SameRoom
  <2>1. FirstLife /\ revision' = revision /\ notified' = notified
    BY <1>1 DEF FirstLife, Exists, SameRoom
  <2>2. notified <= revision /\ (streams[p].phase = "woken" => revision > streams[p].revision)
    BY <2>1 DEF StreamInvariant, NewsFits
  <2>3. streams[p].revision \in Int /\ revision \in Int /\ notified \in Int /\ new \in Int
    BY <1>4, StreamTyped, StreamOf DEF StreamInvariant, RoomFits, StreamStates
  <2> QED
    BY <1>3, <1>4, <2>1, <2>2, <2>3
<1>8. RoomFits'
  BY <1>1, <1>4 DEF StreamInvariant, RoomFits, SameRoom
<1> QED
  BY <1>5, <1>6, <1>7, <1>8 DEF StreamInvariant

-----------------------------------------------------------------------------
(* The pages.                                                              *)

\* A page that changes keeps its connection when its source stays open or not.
LEMMA PageStep ==
    ASSUME StreamInvariant, NEW p \in Pages, NEW page \in PageStates,
           page.source = "open" <=> pages[p].source = "open",
           NEW events \in Seq(Events), InOrder(events), events # << >> =>
              inbox[p] # << >> /\ events[Len(events)] = inbox[p][Len(inbox[p])],
           Becomes(p, page), inbox' = [inbox EXCEPT ![p] = events]
    PROVE  /\ ConnectionsFit' /\ AdmissionFits'
           /\ \A q \in Pages : streams'[q] = streams[q]
           /\ latest' = latest /\ faults' = faults
<1>1. /\ Connected(streams[p], pages[p], inbox[p]) /\ streams = [streams EXCEPT ![p] = streams[p]]
  BY StreamOf DEF StreamInvariant
<1>2. pages' = [pages EXCEPT ![p] = page] /\ streams' = [streams EXCEPT ![p] = streams[p]]
      /\ UNCHANGED <<streams, latest, subscriptions, orphans, faults>>
  BY <1>1 DEF Becomes, server
<1>3. Connected(streams[p], page, events)
  BY <1>1 DEF Connected
<1>4. ConnectionsFit'
  BY <1>2, <1>3, OneConnection DEF StreamInvariant
<1>5. AdmissionFits'
  BY <1>2, AdmissionStays DEF StreamInvariant
<1> QED
  BY <1>2, <1>4, <1>5

\* A page changes, and nothing else.
LEMMA BecomesFits ==
    ASSUME StreamInvariant, NEW p \in Pages, NEW page \in PageStates,
           page.source = "open" <=> pages[p].source = "open",
           Becomes(p, page), SameRoom, UNCHANGED inbox
    PROVE  StreamInvariant'
<1>1. /\ inbox' = [inbox EXCEPT ![p] = inbox[p]] /\ inbox[p] \in Seq(Events) /\ InOrder(inbox[p])
  BY StreamOf DEF StreamInvariant, Connected
<1>2. /\ ConnectionsFit' /\ AdmissionFits' /\ latest' = latest /\ faults' = faults
      /\ \A q \in Pages : streams'[q] = streams[q]
  BY <1>1, PageStep
<1>3. RoomFits'
  BY <1>2 DEF StreamInvariant, RoomFits, SameRoom
<1>4. NewsFits'
  BY <1>2, NoWake DEF StreamInvariant, SameRoom
<1> QED
  BY <1>2, <1>3, <1>4 DEF StreamInvariant

\* A page that takes a copy.
LEMMA CopyFits ==
    ASSUME NEW page \in PageStates, NEW new \in 0..MaxRevision
    PROVE  /\ WithCopy(page, new) \in PageStates
           /\ WithCopy(page, new).source = "open" <=> page.source = "open"
  BY DEF PageStates, WithCopy

LEMMA AnswerFetchFits == ASSUME StreamInvariant, NEW p \in Pages, AnswerFetch(p) PROVE StreamInvariant'
<1> DEFINE page == [pages[p] EXCEPT !.asked = FALSE, !.fetch = revision]
<1>1. page \in PageStates /\ page.source = pages[p].source
  BY StreamOf DEF StreamInvariant, RoomFits, PageStates
<1>2. Becomes(p, page) /\ SameRoom /\ UNCHANGED inbox
  BY DEF AnswerFetch
<1> HIDE DEF page
<1> QED
  BY <1>1, <1>2, BecomesFits

LEMMA FetchArrivesFits == ASSUME StreamInvariant, NEW p \in Pages, FetchArrives(p) PROVE StreamInvariant'
<1> DEFINE copy == WithCopy(pages[p], pages[p].fetch)
           page == [copy EXCEPT !.fetch = 0]
<1>1. pages[p] \in PageStates /\ pages[p].fetch \in 0..MaxRevision
  BY StreamOf DEF StreamInvariant, PageStates
<1>2. copy \in PageStates /\ (copy.source = "open" <=> pages[p].source = "open")
  BY <1>1, CopyFits
<1>3. Becomes(p, page) /\ SameRoom /\ UNCHANGED inbox
  BY DEF FetchArrives
<1> HIDE DEF copy
<1>4. page \in PageStates /\ page.source = copy.source
  BY <1>2, StreamTyped DEF PageStates
<1> HIDE DEF page
<1> QED
  BY <1>2, <1>3, <1>4, BecomesFits

LEMMA AnswerArrivesFits == ASSUME StreamInvariant, NEW p \in Pages, AnswerArrives(p) PROVE StreamInvariant'
<1> DEFINE copy == WithCopy(pages[p], pages[p].answer)
           page == [copy EXCEPT !.answer = 0]
<1>1. pages[p] \in PageStates /\ pages[p].answer \in 0..MaxRevision
  BY StreamOf DEF StreamInvariant, PageStates
<1>2. copy \in PageStates /\ (copy.source = "open" <=> pages[p].source = "open")
  BY <1>1, CopyFits
<1>3. Becomes(p, page) /\ SameRoom /\ UNCHANGED inbox
  BY DEF AnswerArrives
<1> HIDE DEF copy
<1>4. page \in PageStates /\ page.source = copy.source
  BY <1>2, StreamTyped DEF PageStates
<1> HIDE DEF page
<1> QED
  BY <1>2, <1>3, <1>4, BecomesFits

LEMMA RefocusFits == ASSUME StreamInvariant, NEW p \in Pages, Refocus(p) PROVE StreamInvariant'
<1> DEFINE page == [pages[p] EXCEPT !.asked = TRUE]
<1>1. page \in PageStates /\ page.source = pages[p].source
  BY StreamOf DEF StreamInvariant, PageStates
<1>2. Becomes(p, page) /\ SameRoom /\ UNCHANGED inbox
  BY DEF Refocus
<1> HIDE DEF page
<1> QED
  BY <1>1, <1>2, BecomesFits

LEMMA MutateFits == ASSUME StreamInvariant, NEW p \in Pages, Mutate(p) PROVE StreamInvariant'
<1> DEFINE page == [pages[p] EXCEPT !.answer = revision + 1]
<1>1. NextRevision /\ Becomes(p, page) /\ listening' = listening /\ inbox' = inbox
  BY DEF Mutate
<1>2. revision + 1 \in 0..MaxRevision
  BY <1>1, StreamTyped DEF NextRevision, StreamInvariant, RoomFits, Exists
<1>3. page \in PageStates /\ page.source = pages[p].source
  BY <1>2, StreamOf DEF StreamInvariant, PageStates
<1>4. /\ inbox' = [inbox EXCEPT ![p] = inbox[p]] /\ inbox[p] \in Seq(Events) /\ InOrder(inbox[p])
  BY <1>1, StreamOf DEF StreamInvariant, Connected
<1> HIDE DEF page
<1>5. /\ ConnectionsFit' /\ AdmissionFits' /\ latest' = latest /\ faults' = faults
      /\ \A q \in Pages : streams'[q] = streams[q]
  BY <1>1, <1>3, <1>4, PageStep
<1>6. RoomFits' /\ NewsFits'
  BY <1>1, <1>5, NextRevisionFits
<1> QED
  BY <1>5, <1>6 DEF StreamInvariant

\* A page that asks again.
LEMMA AskedAgain ==
    ASSUME NEW page \in PageStates
    PROVE  LET new == [page EXCEPT !.asked = TRUE, !.fetch = 0]
           IN  new \in PageStates /\ new.source = page.source
<1>1. \A none \in 0..MaxRevision :
        LET new == [page EXCEPT !.asked = TRUE, !.fetch = none]
        IN  new \in PageStates /\ new.source = page.source
  BY DEF PageStates
<1>2. 0 \in 0..MaxRevision
  BY StreamTyped
<1> QED
  BY <1>1, <1>2

\* Whatever the page makes of an event, the rest of them follow in order.
LEMMA ReceiveFits == ASSUME StreamInvariant, NEW p \in Pages, Receive(p) PROVE StreamInvariant'
<1>1. /\ pages[p] \in PageStates /\ inbox[p] \in Seq(Events) /\ InOrder(inbox[p])
      /\ inbox[p] # << >>
  BY StreamOf DEF StreamInvariant, Connected, Receive
<1>2. /\ Tail(inbox[p]) \in Seq(Events) /\ InOrder(Tail(inbox[p])) /\ Head(inbox[p]) \in Events
      /\ Tail(inbox[p]) # << >> =>
            Tail(inbox[p])[Len(Tail(inbox[p]))] = inbox[p][Len(inbox[p])]
  BY <1>1, RestInOrder
<1>3. PICK new : new = Head(inbox[p]).revision
  OBVIOUS
<1>4. new \in 0..MaxRevision
  BY <1>2, <1>3 DEF Events
<1>5. \E page \in {pages[p], [pages[p] EXCEPT !.asked = TRUE, !.fetch = 0],
                   [pages[p] EXCEPT !.shown = new]} : Becomes(p, page)
  BY <1>3 DEF Receive
<1>6. PICK page \in {pages[p], [pages[p] EXCEPT !.asked = TRUE, !.fetch = 0],
                   [pages[p] EXCEPT !.shown = new]} : Becomes(p, page)
  BY <1>5
<1>7. page \in PageStates /\ page.source = pages[p].source
  <2>1. CASE page = pages[p]
    BY <1>1, <2>1
  <2>2. CASE page = [pages[p] EXCEPT !.asked = TRUE, !.fetch = 0]
    BY <1>1, <2>2, AskedAgain
  <2>3. CASE page = [pages[p] EXCEPT !.shown = new]
    BY <1>1, <1>4, <2>3 DEF PageStates
  <2> QED
    BY <1>6, <2>1, <2>2, <2>3
<1>8. inbox' = [inbox EXCEPT ![p] = Tail(inbox[p])] /\ SameRoom
  BY DEF Receive
<1>9. PICK events : events = Tail(inbox[p])
  OBVIOUS
<1>10. /\ ConnectionsFit' /\ AdmissionFits' /\ latest' = latest /\ faults' = faults
       /\ \A q \in Pages : streams'[q] = streams[q]
  BY <1>1, <1>2, <1>6, <1>7, <1>8, <1>9, PageStep
<1>11. RoomFits'
  BY <1>8, <1>10 DEF StreamInvariant, RoomFits, SameRoom
<1>12. NewsFits'
  BY <1>8, <1>10, NoWake DEF StreamInvariant, SameRoom
<1> QED
  BY <1>10, <1>11, <1>12 DEF StreamInvariant

-----------------------------------------------------------------------------
(* Faults and time.                                                        *)

LEMMA FaultCounted == ASSUME RoomFits, Fault PROVE faults' \in 0..MaxFaults
  BY StreamTyped DEF RoomFits, Fault

LEMMA CrashFits == ASSUME StreamInvariant, Crash PROVE StreamInvariant'
<1>1. \A p \in Pages :
        [pages[p] EXCEPT !.source = IF @ = "open" THEN "connecting" ELSE @] \in PageStates
        /\ [pages[p] EXCEPT !.source = IF @ = "open" THEN "connecting" ELSE @].source # "open"
  <2> TAKE p \in Pages
  <2>1. pages[p] \in PageStates
    BY StreamOf DEF StreamInvariant
  <2> QED
    BY <2>1 DEF PageStates
<1>2. pages' \in [Pages -> PageStates] /\ \A p \in Pages : pages'[p].source # "open"
  BY <1>1 DEF Crash
<1>3. \A p \in Pages : streams'[p] = Off /\ inbox'[p] = << >>
  BY DEF Crash
<1>4. \A p \in Pages : Connected(streams'[p], pages'[p], inbox'[p])
  BY <1>2, <1>3, OffConnected
<1>5. ConnectionsFit'
  <2>1. streams' \in [Pages -> StreamStates] /\ inbox' \in [Pages -> Seq(Events)]
    <3>1. \A p \in Pages : Off \in StreamStates /\ << >> \in Seq(Events)
      BY StreamTyped DEF Off, StreamStates
    <3> QED
      BY <3>1 DEF Crash
  <2> QED
    BY <1>2, <1>4, <2>1 DEF ConnectionsFit
<1>6. AdmissionFits'
  <2>1. Admitted' = {} /\ Leased' = {}
    BY <1>3 DEF Admitted, Leased, Off
  <2>2. IsFiniteSet(Leased) /\ Cardinality(Leased) \in Nat
    BY FS_Subset, FS_CardinalityType DEF StreamInvariant, AdmissionFits
  <2>3. orphans' = Cardinality(Leased) + orphans /\ subscriptions' = 0
    BY DEF Crash, Leases, Leased
  <2>4. IsFiniteSet({}) /\ Cardinality({}) = 0
    BY FS_EmptySet
  <2> QED
    BY <2>1, <2>2, <2>3, <2>4, StreamTyped DEF StreamInvariant, AdmissionFits
<1>7. RoomFits'
  BY FaultCounted, StreamTyped DEF Crash, StreamInvariant, RoomFits
<1>8. NewsFits'
  BY <1>3, StreamTyped DEF Crash, NewsFits, StreamInvariant, RoomFits, FirstLife, Exists, Off
<1> QED
  BY <1>5, <1>6, <1>7, <1>8 DEF StreamInvariant

LEMMA DisconnectFits == ASSUME StreamInvariant, NEW p \in Pages, Disconnect(p) PROVE StreamInvariant'
  BY EndsFits, FaultCounted DEF Disconnect, StreamInvariant

LEMMA AbandonFits == ASSUME StreamInvariant, NEW p \in Pages, Abandon(p) PROVE StreamInvariant'
<1>1. /\ Connected(streams[p], pages[p], inbox[p]) /\ streams[p] \in StreamStates
      /\ pages[p] \in PageStates /\ pages = [pages EXCEPT ![p] = pages[p]]
      /\ inbox = [inbox EXCEPT ![p] = inbox[p]]
  BY StreamOf DEF StreamInvariant
<1>2. streams[p].phase = "admitted" /\ streams[p].leased /\ pages[p].source # "open"
      /\ inbox[p] = << >>
  BY <1>1 DEF Abandon, Connected, OpenPhases
<1>3. /\ streams' = [streams EXCEPT ![p] = Off] /\ pages' = [pages EXCEPT ![p] = pages[p]]
      /\ inbox' = [inbox EXCEPT ![p] = << >>] /\ SameRoom /\ latest' = latest
      /\ faults' \in 0..MaxFaults
      /\ orphans' = orphans + 1 /\ subscriptions' = subscriptions
  BY <1>1, <1>2, FaultCounted DEF Abandon, StreamInvariant
<1>4. p \in Admitted /\ p \in Leased
  BY <1>2 DEF Admitted, Leased
<1>5. AdmissionFits'
  <2>1. /\ IsFiniteSet(Admitted') /\ Leased' \subseteq Admitted'
        /\ Cardinality(Admitted') = Cardinality(Admitted) - 1
        /\ Cardinality(Leased') = Cardinality(Leased) - 1
        /\ Cardinality(Leased) \in Nat /\ Cardinality(Leased) >= 1 /\ Cardinality(Admitted) \in Nat
    BY <1>3, <1>4, OneLeaves
  <2> QED
    BY <1>3, <2>1, StreamTyped DEF StreamInvariant, AdmissionFits
<1>6. Connected(Off, pages[p], << >>) /\ Off.phase # "woken"
  BY <1>1, <1>2, OffConnected DEF Off
<1>7. PICK page : page = pages[p]
  OBVIOUS
<1> QED
  BY <1>3, <1>5, <1>6, <1>7, ConnectionStep

LEMMA LoseListenerFits == ASSUME StreamInvariant, LoseListener PROVE StreamInvariant'
<1>1. notified' \in latest..notified /\ listening' = FALSE /\ Fault
      /\ UNCHANGED <<revision, lives, latest, streams, subscriptions, orphans, pages, inbox>>
  BY DEF LoseListener, server
<1>2. RoomFits'
  <2>1. notified' \in 0..MaxRevision /\ latest' \in 0..notified'
    BY <1>1, StreamTyped DEF StreamInvariant, RoomFits
  <2>2. listening' \in BOOLEAN /\ faults' \in 0..MaxFaults
    BY <1>1, FaultCounted DEF StreamInvariant
  <2> QED
    BY <1>1, <2>1, <2>2 DEF StreamInvariant, RoomFits
<1>3. NewsFits'
  BY <1>1, StreamTyped DEF StreamInvariant, RoomFits, NewsFits, FirstLife, Exists
<1> QED
  BY <1>1, <1>2, <1>3, RoomStep

LEMMA LeaseLapsesFits == ASSUME StreamInvariant, NEW p \in Pages, LeaseLapses(p) PROVE StreamInvariant'
<1> DEFINE stream == [streams[p] EXCEPT !.leased = FALSE]
<1>1. /\ Connected(streams[p], pages[p], inbox[p]) /\ streams[p] \in StreamStates
      /\ pages = [pages EXCEPT ![p] = pages[p]] /\ inbox = [inbox EXCEPT ![p] = inbox[p]]
  BY StreamOf DEF StreamInvariant
<1>2. p \in Open /\ streams[p].leased /\ streams[p].phase \in OpenPhases
  BY <1>1 DEF LeaseLapses, Open, Admitted, StreamStates
<1>3. /\ stream \in StreamStates /\ stream.phase = streams[p].phase
      /\ stream.revision = streams[p].revision /\ stream.leased = FALSE
  BY <1>1 DEF StreamStates
<1>4. streams' = [streams EXCEPT ![p] = stream] /\ SameRoom /\ latest' = latest
      /\ subscriptions' = subscriptions /\ orphans' = orphans
      /\ pages' = [pages EXCEPT ![p] = pages[p]] /\ inbox' = [inbox EXCEPT ![p] = inbox[p]]
      /\ faults' \in 0..MaxFaults
  <2>1. streams' = [streams EXCEPT ![p] = stream]
    BY DEF LeaseLapses, StreamInvariant, ConnectionsFit
  <2> QED
    BY <1>1, <2>1, FaultCounted DEF LeaseLapses, StreamInvariant
<1> HIDE DEF stream
<1>5. Connected(stream, pages[p], inbox[p])
  BY <1>1, <1>2, <1>3 DEF Connected, OpenPhases
<1>6. \A q \in Pages : streams'[q] = IF q = p THEN stream ELSE streams[q]
  BY <1>4 DEF StreamInvariant, ConnectionsFit
<1>7. AdmissionFits'
  <2>1. Admitted' = Admitted /\ Leased' = Leased \ {p} /\ p \in Leased
    BY <1>2, <1>3, <1>6 DEF Admitted, Leased, OpenPhases
  <2>2. IsFiniteSet(Leased) /\ Cardinality(Leased) \in Nat
    BY FS_Subset, FS_CardinalityType DEF StreamInvariant, AdmissionFits
  <2>3. Cardinality(Leased \ {p}) = Cardinality(Leased) - 1
    BY <2>1, <2>2, FS_RemoveElement
  <2> QED
    BY <1>4, <2>1, <2>2, <2>3, StreamTyped DEF StreamInvariant, AdmissionFits
<1>8. ConnectionsFit'
  BY <1>4, <1>5, OneConnection DEF StreamInvariant
<1>9. NewsFits'
  BY <1>3, <1>4, <1>6, NoWake DEF StreamInvariant, SameRoom
<1>10. RoomFits'
  BY <1>4 DEF StreamInvariant, RoomFits, SameRoom
<1> QED
  BY <1>7, <1>8, <1>9, <1>10 DEF StreamInvariant

LEMMA OrphanExpiresFits == ASSUME StreamInvariant, OrphanExpires PROVE StreamInvariant'
<1>1. /\ orphans > 0 /\ orphans' = orphans - 1
      /\ UNCHANGED <<revision, lives, listening, notified, latest, streams, subscriptions, pages,
                     inbox, faults>>
  BY DEF OrphanExpires, SameRoom
<1>2. Admitted' = Admitted /\ Leased' = Leased
  BY <1>1 DEF Admitted, Leased
<1>3. Cardinality(Leased) \in Nat
  BY FS_Subset, FS_CardinalityType DEF StreamInvariant, AdmissionFits
<1>4. AdmissionFits'
  BY <1>1, <1>2, <1>3, StreamTyped DEF StreamInvariant, AdmissionFits
<1>5. ConnectionsFit'
  BY <1>1 DEF StreamInvariant, ConnectionsFit, Connected
<1>6. NewsFits' /\ RoomFits'
  BY <1>1 DEF StreamInvariant, NewsFits, RoomFits, FirstLife, Exists
<1> QED
  BY <1>4, <1>5, <1>6 DEF StreamInvariant

-----------------------------------------------------------------------------

LEMMA InitConnected == ASSUME Init PROVE StreamInvariant
<1>1. Off \in StreamStates /\ Unloaded \in PageStates /\ << >> \in Seq(Events)
      /\ Unloaded.source = "off" /\ Off.phase = "off" /\ Off.leased = FALSE
  BY StreamTyped DEF Off, Unloaded, StreamStates, PageStates
<1>2. \A p \in Pages : streams[p] = Off /\ pages[p] = Unloaded /\ inbox[p] = << >>
  BY DEF Init
<1>3. ConnectionsFit
  <2>1. \A p \in Pages : Connected(streams[p], pages[p], inbox[p])
    BY <1>1, <1>2, OffConnected
  <2>2. /\ streams \in [Pages -> StreamStates] /\ pages \in [Pages -> PageStates]
        /\ inbox \in [Pages -> Seq(Events)]
    BY <1>1 DEF Init
  <2> QED
    BY <2>1, <2>2 DEF ConnectionsFit
<1>4. AdmissionFits
  <2>1. Admitted = {} /\ Leased = {}
    BY <1>1, <1>2 DEF Admitted, Leased
  <2> QED
    BY <2>1, FS_EmptySet, StreamTyped DEF AdmissionFits, Init
<1>5. RoomFits
  BY StreamTyped DEF Init, RoomFits
<1>6. NewsFits
  BY <1>1, <1>2 DEF Init, NewsFits
<1> QED
  BY <1>3, <1>4, <1>5, <1>6 DEF StreamInvariant

LEMMA StepConnected == ASSUME StreamInvariant, [Next]_vars PROVE StreamInvariant'
<1>1. CASE Commit \/ CancelRoom \/ CreateRoom
  BY <1>1, CommitFits, CancelRoomFits, CreateRoomFits
<1>2. CASE Deliver
  BY <1>2, DeliverFits
<1>3. ASSUME NEW p \in Pages, Serve(p) PROVE StreamInvariant'
  BY <1>3, ConnectFits, AdmitFits, BeginFits, WaitFits, WaitTimesOutFits, PollFits, LoadUpdateFits
     DEF Serve
<1>4. ASSUME NEW p \in Pages, Follow(p) PROVE StreamInvariant'
  BY <1>4, AnswerFetchFits, FetchArrivesFits, AnswerArrivesFits DEF Follow
<1>5. ASSUME NEW p \in Pages, Receive(p) \/ Refocus(p) \/ Mutate(p) PROVE StreamInvariant'
  BY <1>5, ReceiveFits, RefocusFits, MutateFits
<1>6. ASSUME NEW p \in Pages, Disconnect(p) \/ Abandon(p) \/ LeaseLapses(p) PROVE StreamInvariant'
  BY <1>6, DisconnectFits, AbandonFits, LeaseLapsesFits
<1>7. CASE Crash \/ LoseListener \/ OrphanExpires
  BY <1>7, CrashFits, LoseListenerFits, OrphanExpiresFits
<1>8. CASE UNCHANGED vars
  <2>1. UNCHANGED <<revision, lives, listening, notified, latest, streams, subscriptions, orphans,
                    pages, inbox, faults>>
    BY <1>8 DEF vars
  <2>2. RoomFits' /\ NewsFits'
    BY <2>1 DEF StreamInvariant, NewsFits, RoomFits, FirstLife, Exists
  <2> QED
    BY <2>1, <2>2, RoomStep
<1> QED
  BY <1>1, <1>2, <1>3, <1>4, <1>5, <1>6, <1>7, <1>8 DEF Next

\* The inductive invariant: on every connection the stream, the page and the
\* events between them agree, no more streams are admitted than are counted, and
\* notifications are not ahead of a room in its first life.
THEOREM StreamInvariantHolds == Spec => []StreamInvariant
  BY InitConnected, StepConnected, PTL DEF Spec

\* The types of rooms, streams and pages; and that the admission of streams never
\* exceeds its limit, across crashes, lapsed leases and abandoned responses.
THEOREM StreamIsTyped == Spec => []TypeOK
<1>1. StreamInvariant => TypeOK
  <2> SUFFICES ASSUME StreamInvariant PROVE TypeOK
    OBVIOUS
  <2>1. \A p \in Pages :
        /\ streams[p].phase \in {"off", "opening", "admitted", "ready", "waiting", "woken", "polling", "loading"}
        /\ pages[p].source \in {"off", "connecting", "open", "closed"}
        /\ pages[p].source = "open" <=> p \in Open
        /\ pages[p].source # "open" => inbox[p] = << >>
        /\ {pages[p].shown, pages[p].fetch, pages[p].answer} \subseteq 0..MaxRevision
    <3> TAKE p \in Pages
    <3>1. /\ Connected(streams[p], pages[p], inbox[p])
          /\ streams[p] \in StreamStates /\ pages[p] \in PageStates
      BY StreamOf DEF StreamInvariant
    <3> QED
      BY <3>1 DEF Connected, StreamStates, PageStates, OpenPhases, Open, Admitted
  <2>2. Leases \in 0..Limit
    <3>1. Cardinality(Leased) \in Nat
      BY FS_Subset, FS_CardinalityType DEF StreamInvariant, AdmissionFits
    <3> QED
      BY <3>1, StreamTyped DEF StreamInvariant, AdmissionFits, Leases, Leased
  <2> QED
    BY <2>1, <2>2 DEF StreamInvariant, RoomFits, AdmissionFits, TypeOK
<1> QED
  BY <1>1, StreamInvariantHolds, PTL

\* What is on its way to a page is in the order of the revisions, and a named
\* event follows right after the one before it.
THEOREM EventsStayInOrder == Spec => []EventsInOrder
<1>1. StreamInvariant => EventsInOrder
  BY StreamOf DEF StreamInvariant, Connected, InOrder, EventsInOrder
<1> QED
  BY <1>1, StreamInvariantHolds, PTL

\* A stream is woken for a newer revision only, until the room's id is used again.
THEOREM WakesAlwaysMeanNews == Spec => []WakesMeanNews
<1>1. StreamInvariant => WakesMeanNews
  BY DEF StreamInvariant, NewsFits, WakesMeanNews
<1> QED
  BY <1>1, StreamInvariantHolds, PTL
=============================================================================
