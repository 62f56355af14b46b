------------------------------ MODULE RoomLog ------------------------------
(***************************************************************************)
(* What the store of a live draft room promises its callers, whatever its  *)
(* requests do concurrently: the room is the result of one log of events,  *)
(* each accepted on the room its predecessors made and recorded under a    *)
(* key of its own, and it disappears only by a cancellation it allows.     *)
(*                                                                         *)
(* The rules of the draft are parameters.  A room is                       *)
(* [status, base, log]: base is what it was created with, log[1] is its    *)
(* creation, and its revision is Len(log).                                 *)
(***************************************************************************)
EXTENDS Integers, Sequences

CONSTANTS
    Bases,               \* what a room may be created with: season, keepers, schedule
    Commands,            \* mutations of a room
    Keys,                \* idempotency keys
    NoKey,               \* the creation has no key
    AnyRevision,         \* a request that expects no revision
    NewStatus,           \* the status of a created room
    StatusAfter(_, _),   \* the status after a command, from the status before
    Accepts(_, _),       \* does a room accept a command
    Cancellable(_),      \* may a room be cancelled
    NoRoom

VARIABLE room

Event(command, key, expected) == [command |-> command, key |-> key, expected |-> expected]

Created(base) ==
    [status |-> NewStatus, base |-> base, log |-> <<Event("create", NoKey, AnyRevision)>>]

After(old, event) ==
    [status |-> StatusAfter(old.status, event.command),
     base |-> old.base,
     log |-> Append(old.log, event)]

KeysOf(log) == {log[i].key : i \in DOMAIN log}

Init == room = NoRoom

Create ==
    /\ room = NoRoom
    /\ \E base \in Bases : room' = Created(base)

\* A command is recorded on the room it was accepted on, under a new key, and
\* with the revision its caller expected, which is the latest.
Record ==
    /\ room # NoRoom
    /\ \E command \in Commands, key \in Keys :
        /\ key \notin KeysOf(room.log)
        /\ Accepts(room, command)
        /\ room' = After(room, Event(command, key, Len(room.log)))

Cancel ==
    /\ room # NoRoom
    /\ Cancellable(room)
    /\ room' = NoRoom

Next == Create \/ Record \/ Cancel

Spec == Init /\ [][Next]_room
=============================================================================
