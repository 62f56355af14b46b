----------------------------- MODULE DraftStream -----------------------------
(***************************************************************************)
(* How the pages that show a draft room follow it: the event stream that   *)
(* the server holds open for each page, the notifier that wakes it, the    *)
(* leases that admit it, and the page's own copy of the room, which also   *)
(* takes the answers of its requests.                                      *)
(*                                                                         *)
(* A room is known by its id and its revision alone, so a room cancelled   *)
(* and created again is the same room to everybody: lives counts them, and *)
(* only the properties look at it.  A request that mutates the room is one *)
(* step here; module DraftRoomStore opens it.                              *)
(*                                                                         *)
(* Faults: the server's process dies and starts again, a page's connection *)
(* breaks, the connection that listens for notifications is lost, and a    *)
(* stream is held up until its lease runs out.                             *)
(***************************************************************************)
EXTENDS Integers, Sequences, FiniteSets

CONSTANTS
    Pages,
    Limit,         \* streams admitted at once
    MaxRevision,   \* bound on the revisions of a room
    MaxLives,      \* bound on how often the room is created
    MaxFaults      \* bound on the faults

ASSUME StreamTyped ==
    /\ Limit \in Nat \ {0} /\ MaxRevision \in Nat \ {0}
    /\ MaxLives \in Nat \ {0} /\ MaxFaults \in Nat

VARIABLES
    revision,   \* of the committed room, 0 when there is none
    lives,      \* how often the room was created
    listening,  \* does the server's LISTEN connection live
    notified,   \* the latest revision sent to the notifier
    latest,     \* the latest revision the notifier has received
    streams,    \* what the server's stream of each page is doing
    subscriptions,  \* how many subscriptions the notifier counts
    orphans,    \* unexpired leases that no stream holds any more
    pages,      \* each page's EventSource, its copy of the room, its requests
    inbox,      \* the events on their way to each page
    faults

server == <<latest, streams, subscriptions, orphans>>
vars == <<revision, lives, listening, notified, latest, streams, subscriptions, orphans, pages, inbox, faults>>

Exists == revision > 0

Max(a, b) == IF a > b THEN a ELSE b

Off == [phase |-> "off", revision |-> 0, leased |-> FALSE]
Unloaded == [source |-> "off", shown |-> 0, asked |-> TRUE, fetch |-> 0, answer |-> 0]

Init ==
    /\ revision = 1 /\ lives = 1
    /\ listening = TRUE /\ notified = 0 /\ latest = 0
    /\ streams = [p \in Pages |-> Off] /\ subscriptions = 0 /\ orphans = 0
    /\ pages = [p \in Pages |-> Unloaded]
    /\ inbox = [p \in Pages |-> << >>]
    /\ faults = 0

-----------------------------------------------------------------------------
(* The room.  A revision is notified over the LISTEN connection, and, when  *)
(* this process committed it, by its request handler too.                  *)

Notify(new) ==
    \/ notified' = Max(notified, new)
    \/ ~listening /\ UNCHANGED notified

NextRevision ==
    /\ Exists /\ revision < MaxRevision
    /\ revision' = revision + 1
    /\ Notify(revision + 1)
    /\ UNCHANGED lives

Commit ==
    /\ NextRevision
    /\ UNCHANGED <<listening, server, pages, inbox, faults>>

\* The cancellation of a room is not notified.
CancelRoom ==
    /\ Exists
    /\ revision' = 0
    /\ UNCHANGED <<lives, listening, notified, server, pages, inbox, faults>>

CreateRoom ==
    /\ ~Exists /\ lives < MaxLives
    /\ revision' = 1 /\ lives' = lives + 1
    /\ Notify(1)
    /\ UNCHANGED <<listening, server, pages, inbox, faults>>

-----------------------------------------------------------------------------
(* The server's streams.                                                   *)

Admitted == {p \in Pages : streams[p].phase \notin {"off", "opening"}}

Open == {p \in Admitted : streams[p].phase # "admitted"}

Leases == Cardinality({p \in Pages : streams[p].leased}) + orphans

SameRoom == UNCHANGED <<revision, lives, listening, notified>>

Turns(p, phase) ==
    /\ streams' = [streams EXCEPT ![p].phase = phase]
    /\ SameRoom /\ UNCHANGED <<latest, subscriptions, orphans, pages, inbox, faults>>

\* An error status: the EventSource does not try again.
Refuse(p) ==
    /\ streams' = [streams EXCEPT ![p] = Off]
    /\ pages' = [pages EXCEPT ![p].source = "closed"]
    /\ SameRoom /\ UNCHANGED <<latest, subscriptions, orphans, inbox, faults>>

\* The generator's finally block gives up the subscription and the lease, the
\* response ends and the EventSource will connect again.
Ends(p) ==
    /\ streams' = [streams EXCEPT ![p] = Off]
    /\ subscriptions' = subscriptions - 1
    /\ pages' = [pages EXCEPT ![p].source = "connecting"]
    /\ inbox' = [inbox EXCEPT ![p] = << >>]
    /\ SameRoom /\ UNCHANGED <<latest, orphans>>

\* authorizeLiveDraftRoomEventStream reads the room the stream begins with.
Connect(p) ==
    /\ pages[p].source = "connecting" /\ streams[p].phase = "off"
    /\ IF ~Exists THEN Refuse(p)
       ELSE /\ streams' = [streams EXCEPT ![p] =
                    [phase |-> "opening", revision |-> revision, leased |-> FALSE]]
            /\ SameRoom /\ UNCHANGED <<latest, subscriptions, orphans, pages, inbox, faults>>

\* Mutant of Admit: only this process's subscriptions are counted.
AdmitBySubscriptions(p) ==
    /\ streams[p].phase = "opening"
    /\ IF subscriptions >= Limit THEN Refuse(p)
       ELSE /\ streams' = [streams EXCEPT ![p].phase = "admitted", ![p].leased = TRUE]
            /\ subscriptions' = subscriptions + 1
            /\ SameRoom /\ UNCHANGED <<latest, orphans, pages, inbox, faults>>

\* A lease in the database, then a subscription of this process; a refusal of
\* either is answered with 429.
Admit(p) ==
    /\ streams[p].phase = "opening"
    /\ IF Leases >= Limit \/ subscriptions >= Limit THEN Refuse(p)
       ELSE /\ streams' = [streams EXCEPT ![p].phase = "admitted", ![p].leased = TRUE]
            /\ subscriptions' = subscriptions + 1
            /\ SameRoom /\ UNCHANGED <<latest, orphans, pages, inbox, faults>>

Sends(p, event, sent) ==
    inbox' = [inbox EXCEPT ![p] = Append(@, [event |-> event, revision |-> sent])]

\* Mutant of Begin: the page is trusted to show the room that was read.
BeginSilently(p) ==
    /\ streams[p].phase = "admitted"
    /\ streams' = [streams EXCEPT ![p].phase = "ready"]
    /\ pages' = [pages EXCEPT ![p].source = "open"]
    /\ SameRoom /\ UNCHANGED <<latest, subscriptions, orphans, inbox, faults>>

\* The response is written: the generator starts with the room that was read.
Begin(p) ==
    /\ streams[p].phase = "admitted"
    /\ streams' = [streams EXCEPT ![p].phase = "ready"]
    /\ pages' = [pages EXCEPT ![p].source = "open"]
    /\ Sends(p, "snapshot", streams[p].revision)
    /\ SameRoom /\ UNCHANGED <<latest, subscriptions, orphans, faults>>

\* Mutant of Wait: the latest revision wakes again the stream that has sent it.
WaitUpToLatest(p) ==
    /\ streams[p].phase = "ready"
    /\ IF ~streams[p].leased THEN Ends(p) /\ UNCHANGED faults
       ELSE Turns(p, IF latest >= streams[p].revision THEN "woken" ELSE "waiting")

\* The lease is renewed first, which fails when it has run out.
Wait(p) ==
    /\ streams[p].phase = "ready"
    /\ IF ~streams[p].leased THEN Ends(p) /\ UNCHANGED faults
       ELSE Turns(p, IF latest > streams[p].revision THEN "woken" ELSE "waiting")

\* Mutant of WaitTimesOut: a wait that times out sends a heartbeat and reads nothing.
WaitTimesOutIdle(p) == streams[p].phase = "waiting" /\ Turns(p, "ready")

WaitTimesOut(p) == streams[p].phase = "waiting" /\ Turns(p, "polling")

\* Revisions that are not newer than the latest wake nobody.
Deliver ==
    \E new \in (latest + 1)..notified :
        /\ latest' = new
        /\ streams' = [p \in Pages |->
                IF streams[p].phase = "waiting" /\ new > streams[p].revision
                THEN [streams[p] EXCEPT !.phase = "woken"] ELSE streams[p]]
        /\ SameRoom /\ UNCHANGED <<subscriptions, orphans, pages, inbox, faults>>

Poll(p) ==
    /\ streams[p].phase = "polling"
    /\ IF ~Exists THEN Ends(p) /\ UNCHANGED faults
       ELSE Turns(p, IF revision <= streams[p].revision THEN "ready" ELSE "loading")

\* Mutant of EventNames: the number of events in the update is not compared.
EventNamesAlways(before, after) == {"named", "snapshot"}

\* An update of a single event may carry its name, for the kinds that have one.
EventNames(before, after) ==
    IF after = before + 1 THEN {"named", "snapshot"} ELSE {"snapshot"}

LoadUpdate(p) ==
    /\ streams[p].phase \in {"woken", "loading"}
    /\ IF ~Exists THEN Ends(p) /\ UNCHANGED faults
       ELSE IF revision <= streams[p].revision THEN Turns(p, "ready")
       ELSE /\ streams' = [streams EXCEPT ![p].phase = "ready", ![p].revision = revision]
            /\ \E event \in EventNames(streams[p].revision, revision) : Sends(p, event, revision)
            /\ SameRoom /\ UNCHANGED <<latest, subscriptions, orphans, pages, faults>>

-----------------------------------------------------------------------------
(* The pages.                                                              *)

Becomes(p, page) ==
    /\ pages' = [pages EXCEPT ![p] = page]
    /\ UNCHANGED <<server, faults>>

\* The query's copy is replaced by whatever answer arrives; the first one
\* starts the EventSource.
WithCopy(page, new) ==
    [page EXCEPT !.shown = new, !.source = IF @ = "off" THEN "connecting" ELSE @]

\* The server reads the room for the page's GET request.
AnswerFetch(p) ==
    /\ pages[p].asked
    /\ Becomes(p, [pages[p] EXCEPT !.asked = FALSE, !.fetch = revision])
    /\ SameRoom /\ UNCHANGED inbox

FetchArrives(p) ==
    /\ pages[p].fetch # 0
    /\ Becomes(p, [WithCopy(pages[p], pages[p].fetch) EXCEPT !.fetch = 0])
    /\ SameRoom /\ UNCHANGED inbox

\* The window is focused again and the copy is stale by its age.
Refocus(p) ==
    /\ ~pages[p].asked /\ pages[p].fetch = 0
    /\ Becomes(p, [pages[p] EXCEPT !.asked = TRUE])
    /\ SameRoom /\ UNCHANGED inbox

\* A mutation is accepted if it expects the committed revision.
Mutate(p) ==
    /\ pages[p].shown # 0 /\ pages[p].answer = 0
    /\ pages[p].shown = revision
    /\ NextRevision
    /\ Becomes(p, [pages[p] EXCEPT !.answer = revision + 1])
    /\ UNCHANGED <<listening, inbox>>

AnswerArrives(p) ==
    /\ pages[p].answer # 0
    /\ Becomes(p, [WithCopy(pages[p], pages[p].answer) EXCEPT !.answer = 0])
    /\ SameRoom /\ UNCHANGED inbox

\* liveDraftRoomCacheUpdate: an event of no newer revision is ignored, a gap
\* before a named event makes the page ask again, dropping an earlier fetch.
Receive(p) ==
    /\ inbox[p] # << >>
    /\ LET event == Head(inbox[p]).event
           new == Head(inbox[p]).revision
           shown == pages[p].shown
       IN  Becomes(p,
               CASE new <= shown -> pages[p]
                 [] new > shown + 1 /\ event = "named" ->
                        [pages[p] EXCEPT !.asked = TRUE, !.fetch = 0]
                 [] OTHER -> [pages[p] EXCEPT !.shown = new])
    /\ inbox' = [inbox EXCEPT ![p] = Tail(@)]
    /\ SameRoom

-----------------------------------------------------------------------------
(* Faults and time.                                                        *)

Fault == faults < MaxFaults /\ faults' = faults + 1

\* The leases of the process stay in the database until they expire.
Crash ==
    /\ Fault
    /\ orphans' = Leases /\ subscriptions' = 0
    /\ streams' = [p \in Pages |-> Off]
    /\ listening' = TRUE /\ notified' = 0 /\ latest' = 0
    /\ pages' = [p \in Pages |->
            [pages[p] EXCEPT !.source = IF @ = "open" THEN "connecting" ELSE @]]
    /\ inbox' = [p \in Pages |-> << >>]
    /\ UNCHANGED <<revision, lives>>

Disconnect(p) == p \in Open /\ Fault /\ Ends(p)

\* The connection breaks before the response is written: the generator is never
\* started, so its finally block does not run.
Abandon(p) ==
    /\ streams[p].phase = "admitted" /\ Fault
    /\ streams' = [streams EXCEPT ![p] = Off]
    /\ orphans' = orphans + 1
    /\ SameRoom /\ UNCHANGED <<latest, subscriptions, pages, inbox>>

\* The listening connection is not opened again.
LoseListener ==
    /\ listening /\ Fault
    /\ listening' = FALSE
    /\ notified' \in latest..notified
    /\ UNCHANGED <<revision, lives, server, pages, inbox>>

LeaseLapses(p) ==
    /\ p \in Open /\ streams[p].leased /\ Fault
    /\ streams' = [streams EXCEPT ![p].leased = FALSE]
    /\ SameRoom /\ UNCHANGED <<latest, subscriptions, orphans, pages, inbox>>

OrphanExpires ==
    /\ orphans > 0
    /\ orphans' = orphans - 1
    /\ SameRoom /\ UNCHANGED <<latest, streams, subscriptions, pages, inbox, faults>>

Serve(p) ==
    \/ Connect(p)
    \/ Admit(p)
    \/ Begin(p)
    \/ Wait(p)
    \/ WaitTimesOut(p)
    \/ Poll(p)
    \/ LoadUpdate(p)

Follow(p) ==
    \/ AnswerFetch(p)
    \/ FetchArrives(p)
    \/ AnswerArrives(p)

Next ==
    \/ Commit
    \/ CancelRoom
    \/ CreateRoom
    \/ Deliver
    \/ \E p \in Pages :
        \/ Serve(p) \/ Follow(p) \/ Receive(p)
        \/ Refocus(p) \/ Mutate(p)
        \/ Disconnect(p) \/ Abandon(p) \/ LeaseLapses(p)
    \/ Crash
    \/ LoseListener
    \/ OrphanExpires

Spec == Init /\ [][Next]_vars

\* The server's loops, timers and reads and the pages' requests go on, EventSources
\* reconnect and leases run out.  Nothing is assumed of notifications, of users
\* and of faults.
FairSpec ==
    /\ Spec
    /\ \A p \in Pages :
        /\ WF_vars(Serve(p))
        /\ WF_vars(AnswerFetch(p))
        /\ WF_vars(FetchArrives(p))
        /\ WF_vars(AnswerArrives(p))
        /\ WF_vars(Receive(p))
    /\ WF_vars(OrphanExpires)
-----------------------------------------------------------------------------
(* Properties.                                                             *)

TypeOK ==
    /\ revision \in 0..MaxRevision /\ lives \in 1..MaxLives /\ listening \in BOOLEAN
    /\ notified \in 0..MaxRevision /\ latest \in 0..notified
    /\ \A p \in Pages :
        /\ streams[p].phase \in {"off", "opening", "admitted", "ready", "waiting", "woken", "polling", "loading"}
        /\ pages[p].source \in {"off", "connecting", "open", "closed"}
        /\ pages[p].source = "open" <=> p \in Open
        /\ pages[p].source # "open" => inbox[p] = << >>
        /\ {pages[p].shown, pages[p].fetch, pages[p].answer} \subseteq 0..MaxRevision
    /\ Leases \in 0..Limit /\ subscriptions \in 0..Limit /\ Cardinality(Admitted) <= subscriptions
    /\ faults \in 0..MaxFaults

\* On one connection revisions only rise, and an event that carries a name is of
\* the revision after the event before it.
EventsInOrder ==
    \A p \in Pages : \A i \in 2..Len(inbox[p]) :
        LET before == inbox[p][i - 1].revision
            after == inbox[p][i].revision
        IN  before < after /\ (inbox[p][i].event = "named" => after = before + 1)

FirstLife == lives = 1 /\ Exists

\* Until a room's id is used again, a stream that is woken finds a newer revision:
\* streams of an idle room do not keep reading it.
WakesMeanNews ==
    FirstLife =>
        \A p \in Pages : streams[p].phase = "woken" => revision > streams[p].revision

\* An open stream catches up with the room, whatever notifications are lost, as
\* long as it stays open and the room exists.
StreamsCatchUp ==
    \A p \in Pages :
        FirstLife /\ p \in Open ~> ~FirstLife \/ p \notin Open \/ streams[p].revision = revision

\* A page catches up with every revision its stream has not passed yet, across
\* broken connections and restarts of the server and whatever else it fetches,
\* unless its EventSource was refused.
PagesCatchUp ==
    \A p \in Pages :
        FirstLife /\ (p \in Open => streams[p].revision < revision)
            ~> ~FirstLife \/ pages[p].source = "closed" \/ pages[p].shown = revision

-----------------------------------------------------------------------------
(* What the documents say of the stream, and the code does not do.         *)

\* A connection that breaks is made again and the page catches up.
ReconnectionsCatchUp ==
    \A p \in Pages :
        FirstLife /\ p \notin Open ~> ~FirstLife \/ pages[p].shown = revision
=============================================================================
