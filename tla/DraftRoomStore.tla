--------------------------- MODULE DraftRoomStore ---------------------------
(***************************************************************************)
(* Draft rooms in Postgres: requests run concurrently, each as a           *)
(* transaction of several statements at READ COMMITTED, so each statement  *)
(* sees what is committed when it starts.  Reading a room takes up to      *)
(* three statements; a write takes effect with the UPDATE that compares    *)
(* the revision, since the statements after it run under that row's lock   *)
(* and become visible with it at COMMIT.                                   *)
(*                                                                         *)
(* A slot is a process of the server.  It runs the requests that may write *)
(* one after the other, under its snapshot lock; there are several while a *)
(* release replaces the old process.  What changes a season's keepers or   *)
(* starts its room moreover runs in a transaction that holds the season's  *)
(* advisory lock.  Callers retry, double-submit and hold old revisions:    *)
(* any request may arrive at any time, in two slots at once too.           *)
(***************************************************************************)
EXTENDS Integers, Sequences, FiniteSets

CONSTANTS
    Slots,
    Bases, Commands, Keys, NoKey, AnyRevision, NewStatus, NoRoom,
    Statuses,         \* of a room
    StatusAfter(_, _), Accepts(_, _), Cancellable(_),
    SeasonCommands,   \* commands addressed to the season: synchronizing keepers
    LockedCommands,   \* these and the others that take the season's lock
    Expectations,     \* revisions a caller may believe to be the latest
    MaxRevision,      \* bound on the revisions of a room
    MaxCreations      \* bound on how often the room is created

ASSUME BoundsTyped ==
    /\ MaxRevision \in Nat /\ MaxCreations \in Nat /\ Expectations \subseteq Nat
    /\ SeasonCommands \subseteq LockedCommands /\ LockedCommands \subseteq Commands
    /\ AnyRevision \notin Nat /\ NoKey \notin Keys
    /\ NewStatus \in Statuses
    /\ \A status \in Statuses, command \in Commands : StatusAfter(status, command) \in Statuses

LogEntries ==
    [command : Commands \cup {"create"}, key : Keys \cup {NoKey}, expected : Nat \cup {AnyRevision}]

Rooms == [status : Statuses, base : Bases, log : Seq(LogEntries)]

\* NoRoom is the null that stands for a row, a room and a compact snapshot's
\* base, and none of them.
ASSUME NullIsNoRoom ==
    /\ NoRoom \notin Bases
    /\ NoRoom \notin Rooms
    /\ NoRoom \notin [revision : Nat, status : Statuses, projection : Rooms]

VARIABLES
    row,        \* draft_rooms: [revision, status, projection], or NoRoom
    snapshots,  \* draft_room_snapshots; that of revision 1 is full, the others compact
    events,     \* draft_room_events, by revision
    slots,      \* what each slot has read and is about to do
    lock,       \* of the season, for each slot: "none", "held", or "missed"
    creations   \* how often the room was created

vars == <<row, snapshots, events, slots, lock, creations>>

Idle == [phase |-> "idle"]

Requests ==
    [command : Commands, key : Keys, expected : Expectations]
    \cup [command : SeasonCommands, key : Keys, expected : {AnyRevision}]

Oldest == CHOOSE s \in snapshots : \A other \in snapshots : s.revision <= other.revision
Newest == CHOOSE s \in snapshots : \A other \in snapshots : s.revision >= other.revision

\* What the full recovery snapshot says of the room.
Base == IF snapshots = {} THEN NoRoom ELSE Oldest.base

\* The room rebuilt from the full snapshot and the event log.
Hydrated(status, log) == [status |-> status, base |-> Base, log |-> log]

CommittedRoom == IF row = NoRoom THEN NoRoom ELSE Hydrated(row.status, events)

Log == INSTANCE RoomLog WITH room <- CommittedRoom

Init ==
    /\ row = NoRoom /\ snapshots = {} /\ events = << >>
    /\ slots = [s \in Slots |-> Idle] /\ lock = [s \in Slots |-> "none"]
    /\ creations = 0

\* The request goes on; the lock is given up with its transaction.
Goes(s, state) ==
    /\ slots' = [slots EXCEPT ![s] = state]
    /\ lock' = IF state.phase \in {"idle", "answered", "read"}
               THEN [lock EXCEPT ![s] = "none"] ELSE lock

Becomes(s, state) == Goes(s, state) /\ UNCHANGED <<row, snapshots, events, creations>>

-----------------------------------------------------------------------------
(* The in-memory mutation of the room that was read.  A command with a     *)
(* season's address tests the expected revision before the replay, every   *)
(* other command tests it only when there is nothing to replay.            *)

Expects(request, room) == request.expected \in {AnyRevision, Len(room.log)}

Replays(request, room) ==
    \E i \in DOMAIN room.log :
        room.log[i].key = request.key /\ room.log[i].command = request.command

KeyTaken(request, room) == request.key \in Log!KeysOf(room.log)

Answered(request) == [phase |-> "answered", request |-> request]

\* Mutant of Decision: a taken key is answered as a replay whatever its command.
DecisionByKey(request, room) ==
    IF request.command \in SeasonCommands /\ ~Expects(request, room) THEN Idle
    ELSE IF KeyTaken(request, room) THEN Answered(request)
    ELSE IF Expects(request, room) /\ Accepts(room, request.command)
    THEN [phase |-> "write", request |-> request, room |-> room]
    ELSE Idle

\* Mutant of Decision: the caller's revision is not compared.
DecisionIgnoringExpected(request, room) ==
    IF Replays(request, room) THEN Answered(request)
    ELSE IF ~KeyTaken(request, room) /\ Accepts(room, request.command)
    THEN [phase |-> "write", request |-> request, room |-> room]
    ELSE Idle

Decision(request, room) ==
    IF request.command \in SeasonCommands /\ ~Expects(request, room) THEN Idle
    ELSE IF Replays(request, room) THEN Answered(request)
    ELSE IF ~KeyTaken(request, room) /\ Expects(request, room) /\ Accepts(room, request.command)
    THEN [phase |-> "write", request |-> request, room |-> room]
    ELSE Idle

CancelDecision(expected, room) ==
    IF expected = Len(room.log) /\ Cancellable(room)
    THEN [phase |-> "delete", revision |-> Len(room.log)]
    ELSE Idle

(***************************************************************************)
(* latestRoomSnapshot: the newest snapshot, and when that is compact the   *)
(* full snapshot and the events up to its revision.  Every request reads   *)
(* the room in the same way, so what it is for is chosen once it is read.  *)
(***************************************************************************)
Resting(s) == slots[s].phase \in {"idle", "answered", "read"}

\* Which lock a request runs under: a command on a room takes its season's, but
\* runs without it when the room was not there to say which season's.
RunsUnder(s, command) ==
    lock[s] \in CASE command \in SeasonCommands -> {"held"}
                  [] command \in LockedCommands -> {"held", "missed"}
                  [] OTHER -> {"none"}

HasRead(s, room) ==
    \/ \E request \in Requests :
        RunsUnder(s, request.command) /\ Becomes(s, Decision(request, room))
    \/ \E expected \in Expectations :
        lock[s] = "none" /\ Becomes(s, CancelDecision(expected, room))
    \/ lock[s] = "none" /\ Becomes(s, [phase |-> "read", room |-> room])

\* pg_advisory_xact_lock, before anything else of the request.
TakeSeasonLock(s) ==
    /\ Resting(s) /\ lock[s] = "none"
    /\ \A other \in Slots : lock[other] # "held"
    /\ lock' = [lock EXCEPT ![s] = "held"]
    /\ UNCHANGED <<row, snapshots, events, slots, creations>>

MissSeasonLock(s) ==
    /\ Resting(s) /\ lock[s] = "none" /\ row = NoRoom
    /\ lock' = [lock EXCEPT ![s] = "missed"]
    /\ UNCHANGED <<row, snapshots, events, slots, creations>>

ReadNewest(s) ==
    /\ Resting(s) /\ row # NoRoom
    /\ IF Newest.base # NoRoom THEN HasRead(s, Hydrated(Newest.status, events))
       ELSE Becomes(s, [phase |-> "base", revision |-> Newest.revision, status |-> Newest.status])

\* Unless the oldest snapshot is the full one the read fails.
ReadBase(s) ==
    /\ slots[s].phase = "base"
    /\ Becomes(s, IF Base = NoRoom THEN Idle
                  ELSE [phase |-> "events", base |-> Base,
                        revision |-> slots[s].revision, status |-> slots[s].status])

\* Mutant of ReadEvents: later events are read along.
ReadAllEvents(s) ==
    /\ slots[s].phase = "events"
    /\ IF Len(events) < slots[s].revision THEN Becomes(s, Idle)
       ELSE HasRead(s, [status |-> slots[s].status, base |-> slots[s].base, log |-> events])

\* So it does when events are missing.
ReadEvents(s) ==
    /\ slots[s].phase = "events"
    /\ IF Len(events) < slots[s].revision THEN Becomes(s, Idle)
       ELSE HasRead(s, [status |-> slots[s].status, base |-> slots[s].base,
                        log |-> SubSeq(events, 1, slots[s].revision)])

-----------------------------------------------------------------------------
(* Writes.                                                                 *)

SnapshotWindow == 2   \* compactSnapshotWindow

Snapshot(room) ==
    [revision |-> Len(room.log), status |-> room.status,
     base |-> IF Len(room.log) = 1 THEN room.base ELSE NoRoom]

\* Mutant of SnapshotsWith: the first one ages like the others.
SnapshotsInWindow(room) ==
    {s \in snapshots \cup {Snapshot(room)} : s.revision >= Len(room.log) - SnapshotWindow + 1}

\* A new snapshot, and the deletion of those before the window but the first.
SnapshotsWith(room) ==
    {s \in snapshots \cup {Snapshot(room)} :
        \/ s = Oldest
        \/ s.revision >= 2 /\ s.revision >= Len(room.log) - SnapshotWindow + 1}

\* createRoom found no room; its INSERT comes later.  The season's page creates
\* it under the lock, provisioning without.
BeginCreate(s) ==
    /\ Resting(s) /\ row = NoRoom /\ lock[s] # "missed"
    /\ \E new \in Bases : Becomes(s, [phase |-> "insert", base |-> new])

InsertRoom(s) ==
    /\ slots[s].phase = "insert"
    /\ Goes(s, Idle)
    /\ IF row # NoRoom THEN UNCHANGED <<row, snapshots, events, creations>>
       ELSE LET new == Log!Created(slots[s].base)
            IN  /\ creations < MaxCreations
                /\ creations' = creations + 1
                /\ row' = [revision |-> 1, status |-> new.status, projection |-> new]
                /\ snapshots' = {Snapshot(new)}
                /\ events' = new.log

\* A command for the season is recorded with the revision that was read.
EventOf(s) ==
    LET request == slots[s].request
    IN  Log!Event(request.command, request.key,
                  IF request.command \in SeasonCommands THEN Len(slots[s].room.log)
                  ELSE request.expected)

\* Mutant of WriteEvent: the UPDATE compares no revision.
WriteAnyRevision(s) ==
    /\ slots[s].phase = "write"
    /\ LET request == slots[s].request
           new == Log!After(slots[s].room, EventOf(s))
       IN  IF row = NoRoom \/ request.key \in Log!KeysOf(events)
           THEN Becomes(s, Idle)
           ELSE /\ Len(new.log) <= MaxRevision
                /\ row' = [revision |-> Len(new.log), status |-> new.status, projection |-> new]
                /\ events' = Append(events, EventOf(s))
                /\ Goes(s, Answered(request))
                /\ snapshots' = SnapshotsWith(new)
                /\ UNCHANGED creations

\* The UPDATE compares the revision that was read; the key is unique in the room.
WriteEvent(s) ==
    /\ slots[s].phase = "write"
    /\ LET request == slots[s].request
           new == Log!After(slots[s].room, EventOf(s))
       IN  IF \/ row = NoRoom
              \/ row.revision # Len(slots[s].room.log)
              \/ request.key \in Log!KeysOf(events)
           THEN Becomes(s, Idle)
           ELSE /\ Len(new.log) <= MaxRevision
                /\ row' = [revision |-> Len(new.log), status |-> new.status, projection |-> new]
                /\ events' = Append(events, EventOf(s))
                /\ Goes(s, Answered(request))
                /\ snapshots' = SnapshotsWith(new)
                /\ UNCHANGED creations

\* The DELETE compares the revision and asks again whether the room may go;
\* its events and snapshots go with it.
DeleteRoom(s) ==
    /\ slots[s].phase = "delete"
    /\ Goes(s, Idle)
    /\ IF row # NoRoom /\ row.revision = slots[s].revision /\ Cancellable(CommittedRoom)
       THEN row' = NoRoom /\ snapshots' = {} /\ events' = << >>
       ELSE UNCHANGED <<row, snapshots, events>>
    /\ UNCHANGED creations

\* The server or its connection dies, or a check before the write fails: the
\* transaction is rolled back.
Abort(s) ==
    /\ ~Resting(s) \/ lock[s] # "none"
    /\ Becomes(s, Idle)

Next ==
    \E s \in Slots :
        \/ TakeSeasonLock(s)
        \/ MissSeasonLock(s)
        \/ ReadNewest(s)
        \/ ReadBase(s)
        \/ ReadEvents(s)
        \/ BeginCreate(s)
        \/ InsertRoom(s)
        \/ WriteEvent(s)
        \/ DeleteRoom(s)
        \/ Abort(s)

Spec == Init /\ [][Next]_vars
-----------------------------------------------------------------------------
(* Properties.                                                             *)

Prefix(short, long) == Len(short) <= Len(long) /\ short = SubSeq(long, 1, Len(short))

\* The stored projection, from which every page of the draft is served, is the
\* room that the snapshot and the event log replay to.
ProjectionIsReplay == row # NoRoom => row.projection = CommittedRoom

\* The room can be read as long as it exists, though its snapshots are deleted
\* as it goes on: the newest is of its revision, the oldest is the full one, and
\* they are few however long the draft.
RoomsStayReadable ==
    row # NoRoom =>
        /\ Newest.revision = row.revision /\ Newest.status = row.status
        /\ Oldest.revision = 1 /\ Base # NoRoom
        /\ Cardinality(snapshots) <= SnapshotWindow + 1

\* However requests interleave, retry and die, the committed room goes through
\* the states of one log, each event accepted on the room before it.
ImplementsLog == Log!Spec

StatusThrough(log) ==
    LET status[i \in 1..Len(log)] ==
            IF i = 1 THEN NewStatus ELSE StatusAfter(status[i - 1], log[i].command)
    IN  status[Len(log)]

\* A room read in three statements is a room that was committed at one moment:
\* a prefix of the log with the status that prefix leaves.
ReadsWereCommitted ==
    \A s \in Slots : slots[s].phase = "read" =>
        LET room == slots[s].room
        IN  /\ room.status = StatusThrough(room.log)
            /\ row # NoRoom => room.base = Base /\ Prefix(room.log, events)

\* A request answered as done, at once or as a replay, is in the log exactly
\* once, under its key and with its command, as long as the room exists.
AnsweredOnce ==
    \A s \in Slots : slots[s].phase = "answered" /\ row # NoRoom =>
        LET request == slots[s].request
        IN  Cardinality({i \in DOMAIN events :
                events[i].key = request.key /\ events[i].command = request.command}) = 1
=============================================================================
