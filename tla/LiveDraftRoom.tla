--------------------------- MODULE LiveDraftRoom ---------------------------
(***************************************************************************)
(* The live draft room of one season, as one repository command after     *)
(* another sees it: the lifecycle, the append-only event log, the sales    *)
(* and their corrections and undos.  A command that the code rejects       *)
(* leaves the room unchanged and is not a step; replayed idempotency keys  *)
(* and racing revisions belong to the module that interleaves requests.    *)
(*                                                                         *)
(* An event's id is made of its revision, so the event of revision r is    *)
(* events[r] and r stands for its id.                                      *)
(***************************************************************************)
EXTENDS DraftBoard

CONSTANTS
    SaleInputs,    \* the sales a commissioner may try: [team, player, price]
    RosterInputs,  \* the lists of initial rosters a setup may hold
    MaxRevision    \* bound on the length of the event log

ASSUME InputsTyped ==
    /\ \A s \in SaleInputs : s.team \in Teams /\ s.player \in Players /\ s.price \in Int
    /\ \A rosters \in RosterInputs :
        /\ rosters \in Seq(Range(rosters))
        /\ \A i \in DOMAIN rosters : rosters[i].price \in Int
    /\ MaxRevision \in Nat
    /\ NoSale \notin [source : Nat, sale : SaleInputs]

VARIABLES
    status,          \* room.status, "none" when there is no room
    revision,        \* room.revision, 0 when there is no room
    events,          \* room.events
    initialRosters,  \* room.initialRosters
    activeSales      \* what activeSalesFor(room.events) has built so far

vars == <<status, revision, events, initialRosters, activeSales>>

NotStarted == {"setup", "countdown"}
Statuses == {"none", "live", "paused", "ended"} \cup NotStarted

HasEvent(types) == \E i \in DOMAIN events : events[i].type \in types

\* hasStartedRoomForSeason, which gates keepers, rounds and team claims.
HasStarted == HasEvent({"room_started"})

-----------------------------------------------------------------------------
(* activeSalesFor: one step of its loop, for the event of revision id.     *)

WithEntry(active, k, source, sale) ==
    [j \in DOMAIN active \cup {k} |-> IF j = k THEN [source |-> source, sale |-> sale] ELSE active[j]]

WithoutEntry(active, k) == [active EXCEPT ![k] = NoSale]

FirstOpenIndex(active) == Min((1..(Len(active) + 1)) \ ActiveIndices(active))

IndicesOfSource(active, source) ==
    {k \in ActiveIndices(active) : active[k].source = source}

IndexOfSource(active, source) == CHOOSE k \in IndicesOfSource(active, source) : TRUE

\* Mutant of AfterEvent: undoing a correction drops the sale instead of restoring it.
AfterEventDroppingCorrected(active, log, id) ==
    LET event == log[id]
        Holds(source) == IndicesOfSource(active, source) # {}
    IN  CASE event.type = "sale_logged" ->
                WithEntry(active, FirstOpenIndex(active), id, event.sale)
          [] event.type = "sale_corrected" /\ Holds(event.corrected) ->
                WithEntry(active, IndexOfSource(active, event.corrected), id, event.sale)
          [] event.type = "sale_undone" /\ Holds(event.undone) ->
                WithoutEntry(active, IndexOfSource(active, event.undone))
          [] OTHER -> active

AfterEvent(active, log, id) ==
    LET event == log[id]
        Holds(source) == IndicesOfSource(active, source) # {}
    IN  CASE event.type = "sale_logged" ->
                WithEntry(active, FirstOpenIndex(active), id, event.sale)
          [] event.type = "sale_corrected" /\ Holds(event.corrected) ->
                WithEntry(active, IndexOfSource(active, event.corrected), id, event.sale)
          [] event.type = "sale_undone" /\ Holds(event.undone) ->
                LET undone == log[event.undone]
                    k == IndexOfSource(active, event.undone)
                IN  IF undone.type = "sale_corrected"
                    THEN WithEntry(active, k, undone.corrected, undone.previous)
                    ELSE WithoutEntry(active, k)
          [] OTHER -> active

-----------------------------------------------------------------------------
Init ==
    /\ status = "none"
    /\ revision = 0
    /\ events = << >>
    /\ initialRosters = << >>
    /\ activeSales = << >>

\* appendEvent: the event, the new status and the projection rebuilt from the
\* log are stored together.
Commit(newStatus, event) ==
    /\ revision < MaxRevision
    /\ status' = newStatus
    /\ revision' = revision + 1
    /\ events' = Append(events, event)
    /\ activeSales' = AfterEvent(activeSales, events', revision')

\* A room with a start time in the future counts down, any other is in setup.
CreateRoom ==
    /\ status = "none"
    /\ \E rosters \in RosterInputs, newStatus \in NotStarted :
        /\ ValidInitialRosters(rosters)
        /\ Commit(newStatus, [type |-> "room_created"])
        /\ initialRosters' = rosters

\* Mutants of CancelRoom: the revision survives the deletion; the status is not tested.
CancelKeepingRevision ==
    /\ status \in NotStarted
    /\ ~HasEvent({"room_started", "sale_logged", "sale_corrected", "sale_undone"})
    /\ status' = "none"
    /\ events' = << >>
    /\ initialRosters' = << >>
    /\ activeSales' = << >>
    /\ UNCHANGED revision

CancelWhenNeverStarted ==
    /\ status # "none"
    /\ ~HasEvent({"room_started", "sale_logged", "sale_corrected", "sale_undone"})
    /\ status' = "none"
    /\ revision' = 0
    /\ events' = << >>
    /\ initialRosters' = << >>
    /\ activeSales' = << >>

CancelRoom ==
    /\ status \in NotStarted
    /\ ~HasEvent({"room_started", "sale_logged", "sale_corrected", "sale_undone"})
    /\ status' = "none"
    /\ revision' = 0
    /\ events' = << >>
    /\ initialRosters' = << >>
    /\ activeSales' = << >>

SynchronizeInitialRosters ==
    /\ status \in NotStarted
    /\ ~HasStarted
    /\ \E rosters \in RosterInputs :
        /\ ValidInitialRosters(rosters)
        /\ Commit(status, [type |-> "initial_rosters_synchronized"])
        /\ initialRosters' = rosters

StartRoom ==
    /\ status \notin {"none", "ended", "live", "paused"}
    /\ Commit("live", [type |-> "room_started"])
    /\ UNCHANGED initialRosters

PauseRoom ==
    /\ status = "live"
    /\ Commit("paused", [type |-> "room_paused"])
    /\ UNCHANGED initialRosters

ResumeRoom ==
    /\ status = "paused"
    /\ Commit("live", [type |-> "room_resumed"])
    /\ UNCHANGED initialRosters

\* A draft with open roster slots ends only when the request allows it.
EndRoom ==
    /\ status \notin {"none", "ended"}
    /\ \E allowIncomplete \in BOOLEAN :
        LET incomplete == AnyOpenRosterSlot(initialRosters, activeSales)
        IN  /\ incomplete => allowIncomplete
            /\ Commit("ended", [type |-> "room_ended", incomplete |-> incomplete])
    /\ UNCHANGED initialRosters

LastEnded ==
    LET ends == {i \in DOMAIN events : events[i].type = "room_ended"}
    IN  events[Max(ends)]

\* Mutant of ReopenRoom: any ended draft is reopened.
ReopenAnyEnded ==
    /\ status = "ended"
    /\ Commit("paused", [type |-> "room_reopened"])
    /\ UNCHANGED initialRosters

ReopenRoom ==
    /\ status = "ended"
    /\ HasEvent({"room_ended"})
    /\ LastEnded.incomplete \/ AnyOpenRosterSlot(initialRosters, activeSales)
    /\ Commit("paused", [type |-> "room_reopened"])
    /\ UNCHANGED initialRosters

\* Mutant of LogSale: a paused room still takes sales.
LogSaleWhilePaused ==
    /\ status \in {"live", "paused"}
    /\ \E sale \in SaleInputs :
        /\ PositivePrice(sale.price)
        /\ ValidSale(initialRosters, activeSales, sale)
        /\ Commit("live", [type |-> "sale_logged", sale |-> sale])
    /\ UNCHANGED initialRosters

LogSale ==
    /\ status = "live"
    /\ \E sale \in SaleInputs :
        /\ PositivePrice(sale.price)
        /\ ValidSale(initialRosters, activeSales, sale)
        /\ Commit("live", [type |-> "sale_logged", sale |-> sale])
    /\ UNCHANGED initialRosters

\* The replacement is validated on the board without the sale it replaces.
CorrectSale ==
    /\ status = "live"
    /\ \E k \in ActiveIndices(activeSales), sale \in SaleInputs :
        /\ PositivePrice(sale.price)
        /\ ValidSale(initialRosters, WithoutEntry(activeSales, k), sale)
        /\ Commit("live", [type |-> "sale_corrected",
                            corrected |-> activeSales[k].source,
                            previous |-> activeSales[k].sale,
                            sale |-> sale])
    /\ UNCHANGED initialRosters

\* Mutant of UndoLastSale: the first active sale is undone.
UndoFirstSale ==
    /\ status = "live"
    /\ ActiveIndices(activeSales) # {}
    /\ LET first == activeSales[Min(ActiveIndices(activeSales))]
       IN  Commit("live", [type |-> "sale_undone", undone |-> first.source])
    /\ UNCHANGED initialRosters

\* Undo takes the active sale of the highest sequence index and validates nothing.
UndoLastSale ==
    /\ status = "live"
    /\ ActiveIndices(activeSales) # {}
    /\ LET last == activeSales[Max(ActiveIndices(activeSales))]
       IN  Commit("live", [type |-> "sale_undone", undone |-> last.source])
    /\ UNCHANGED initialRosters

Next ==
    \/ CreateRoom
    \/ CancelRoom
    \/ SynchronizeInitialRosters
    \/ StartRoom
    \/ PauseRoom
    \/ ResumeRoom
    \/ EndRoom
    \/ ReopenRoom
    \/ LogSale
    \/ CorrectSale
    \/ UndoLastSale

Spec == Init /\ [][Next]_vars
-----------------------------------------------------------------------------
(* Properties.                                                             *)

Entries == [source : Nat, sale : SaleInputs] \cup {NoSale}

Events ==
    [type : {"room_created", "initial_rosters_synchronized", "room_started",
             "room_paused", "room_resumed", "room_reopened"}]
    \cup [type : {"room_ended"}, incomplete : BOOLEAN]
    \cup [type : {"sale_logged"}, sale : SaleInputs]
    \cup [type : {"sale_corrected"}, corrected : Nat, previous : SaleInputs, sale : SaleInputs]
    \cup [type : {"sale_undone"}, undone : Nat]

SaleEvents == {"sale_logged", "sale_corrected", "sale_undone"}
LifecycleEvents == {"room_started", "room_paused", "room_resumed", "room_ended", "room_reopened"}

\* Type invariant; the revision is the number of committed events.
TypeOK ==
    /\ status \in Statuses
    /\ revision \in Nat
    /\ events \in Seq(Events)
    /\ Len(events) = revision
    /\ (status = "none") = (revision = 0)
    /\ initialRosters \in RosterInputs \cup {<< >>}
    /\ activeSales \in Seq(Entries)

\* An undo of a correction brings an older sale back without validating it.
CorrectionUndone ==
    \E i \in DOMAIN events :
        /\ events[i].type = "sale_undone"
        /\ events[events[i].undone].type = "sale_corrected"

\* No player is on two rosters, or twice on one.
EachPlayerOnce ==
    \A s, t \in Teams :
        \A a \in Roster(initialRosters, activeSales, s), b \in Roster(initialRosters, activeSales, t) :
            a.player = b.player => s = t /\ a = b

\* Until a correction is undone, no sequence of logs, corrections and undos,
\* whatever pauses, endings and reopenings lie between them, sells a player who
\* is already kept or sold.
PlayersOnceUntilCorrectionUndone == ~CorrectionUndone => EachPlayerOnce

\* Until a correction is undone, every roster fits the lineup's slots and its
\* position maximums, and with a one-dollar minimum (the code asks of a price
\* only that it is at least one) the team can pay for all the slots it has left.
TeamsLegalUntilCorrectionUndone ==
    ~CorrectionUndone => \A team \in Teams :
        LET roster == Roster(initialRosters, activeSales, team)
        IN  /\ FitsDraftSlots(roster)
            /\ \A position \in Positions :
                    PositionCount(roster, position) <= PositionMaximum(position)
            /\ ~Snake /\ MinBid = 1 =>
                    BudgetRemaining(roster) >= MinBid * RosterSlotsRemaining(roster)

\* Every sale, correction or undo is recorded while the log says the room is
\* live: the last lifecycle event before it is a start or a resume.
SalesOnlyWhileLive ==
    \A i \in DOMAIN events : events[i].type \in SaleEvents =>
        \E j \in 1..(i - 1) :
            /\ events[j].type \in {"room_started", "room_resumed"}
            /\ \A n \in (j + 1)..(i - 1) : events[n].type \notin LifecycleEvents

ActiveAfter(n) ==
    LET after[i \in 0..n] == IF i = 0 THEN << >> ELSE AfterEvent(after[i - 1], events, i)
    IN  after[n]

SameBoard(one, other) ==
    /\ ActiveIndices(one) = ActiveIndices(other)
    /\ \A k \in ActiveIndices(one) : one[k] = other[k]

\* The board the room shows is the one its log replays to, and undoing the
\* event just recorded brings back the board from before that event, each
\* sale at its own sequence index.
UndoStepsBack ==
    /\ activeSales = ActiveAfter(revision)
    /\ \A n \in DOMAIN events :
        events[n].type = "sale_undone" /\ events[n].undone = n - 1
            => SameBoard(ActiveAfter(n), ActiveAfter(n - 2))

\* Sequence indices are released from the end only, so an undo is always of
\* the sale that holds the latest pick and a new sale takes the next index.
HolesOnlyAtTail ==
    \A j, k \in DOMAIN activeSales :
        j < k /\ activeSales[k] # NoSale => activeSales[j] # NoSale

\* Once a room has left setup and countdown, by starting or by an early end,
\* it is never deleted and its initial rosters never change.
FrozenOnceUnderway ==
    [][(status \in {"live", "paused", "ended"}) =>
        /\ status' \in {"live", "paused", "ended"}
        /\ initialRosters' = initialRosters]_vars

\* A draft that ended with every roster full is never changed again.
CompletedDraftIsFinal ==
    [][~(/\ status = "ended"
         /\ ~LastEnded.incomplete
         /\ \A team \in Teams :
                RosterSlotsRemaining(Roster(initialRosters, activeSales, team)) = 0)]_vars

\* Snake: each active sale was made by the team whose pick its sequence index fills.
PicksInTurn ==
    Snake => \A k \in ActiveIndices(activeSales) :
        /\ k \in DOMAIN OpenPicks(initialRosters)
        /\ activeSales[k].sale.team = TeamOfPick(OpenPicks(initialRosters)[k])

\* Each of the team's keepers took a round of its own, within the draftable slots.
KeptInOwnRounds(team) ==
    LET kept == {i \in DOMAIN initialRosters : initialRosters[i].team = team}
    IN  \A i, j \in kept :
            /\ initialRosters[i].round \in 1..Cardinality(RosterSlots)
            /\ initialRosters[i].round = initialRosters[j].round => i = j

\* Snake: in the rounds that have a draftable slot, the team on the clock has one
\* left, so the draft does not wait for a team that cannot pick.  Later rounds
\* exist when the lineup has IR slots (SeasonReady), and there the team has none.
ClockTeamHasRoom ==
    Snake /\ status # "none" /\ ~DraftComplete(initialRosters, activeSales) =>
        LET pick == OpenPicks(initialRosters)[Min(FreeIndices(initialRosters, activeSales))]
            team == TeamOnTheClock(initialRosters, activeSales)
        IN  RoundOf(pick) <= Cardinality(RosterSlots) /\ KeptInOwnRounds(team) =>
                RosterSlotsRemaining(Roster(initialRosters, activeSales, team)) > 0

-----------------------------------------------------------------------------
(* What the code's own texts say of it, and the code does not do.          *)

\* "No negative remaining budget".
NoNegativeBudget ==
    \A team \in Teams : BudgetRemaining(Roster(initialRosters, activeSales, team)) >= 0
=============================================================================
