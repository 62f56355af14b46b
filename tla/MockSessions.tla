---------------------------- MODULE MockSessions ----------------------------
(***************************************************************************)
(* The mock drafts one user practises with: rows that are created within a *)
(* rate and two limits, take commands, are finished, reset or abandoned,   *)
(* and are deleted some time after they ended.  Users share nothing, so    *)
(* there is one.                                                           *)
(*                                                                         *)
(* A request is one to three operations.  Each takes the time first and    *)
(* then waits for the user's account row; the transaction that locks the   *)
(* row loads every session, prunes them at that time, and writes back what *)
(* changed.  One that is refused is rolled back, its pruning too.  An      *)
(* operation that only looks something up does nothing with the time but   *)
(* prune, and takes it with the lock here; the read of one session that    *)
(* authorizes most operations is such a one, and part of what it precedes. *)
(*                                                                         *)
(* The statuses setup and active are never told apart and both open.       *)
(* Clients send the revision and count they see when they ask: older ones  *)
(* never come back and are refused like those that age on the way.         *)
(***************************************************************************)
EXTENDS Integers, Sequences, FiniteSets

CONSTANTS
    Seasons,
    Slots,               \* requests the server handles at once
    Keys,                \* idempotency keys
    Texts,               \* what a command says
    Submissions,         \* the keys clients use, with the texts they use them for
    Drafts,              \* the texts the engine replays without an error, in order
    FinishedDrafts,      \* those after which the draft is over
    MaxCommands,         \* commands a session stores
    MaxActive,           \* open sessions of the user
    MaxActiveOfSeason,   \* open sessions of the user in one season
    MaxCreations,        \* sessions created within Window
    Window, InactiveTtl, AbandonedRetention, CompletedRetention,
    MaxSessions,         \* bound on the sessions ever created
    Played,              \* bound on the sessions a client comes back to
    MaxRevision,         \* bound on the resets of one
    MaxTime,             \* bound on the clock
    NoSeason, NoCommand

ASSUME PolicyTyped ==
    /\ Played \subseteq 1..MaxSessions
    /\ Submissions \subseteq Keys \X Texts
    /\ {MaxCommands, MaxActive, MaxActiveOfSeason, MaxCreations} \subseteq Nat
    /\ {Window, InactiveTtl, AbandonedRetention, CompletedRetention} \subseteq Nat
    /\ {MaxSessions, MaxRevision, MaxTime} \subseteq Nat

\* The defaults are an hour, and an hour and a day (resourcePolicy.ts).
ASSUME RetentionCoversWindow ==
    Window <= AbandonedRetention /\ Window <= CompletedRetention

VARIABLES
    sessions,    \* mock_sessions with the commands of the current revision
    requests,    \* what each request is about to do
    clock,
    pruned,      \* the latest time of a committed transaction
    creations    \* every creation committed: its time, and whether it came late

mockVars == <<sessions, requests, clock, pruned, creations>>

Ids == 1..MaxSessions
Open == {"open"}
Commands == [key : Keys, text : Texts, checked : BOOLEAN]

NoSession ==
    [season |-> NoSeason, status |-> "none", revision |-> 0, log |-> << >>,
     createdAt |-> 0, updatedAt |-> 0, endedAt |-> 0]

\* The session as the request, or its client, saw it: revision, log and count.
Idle ==
    [op |-> "idle", now |-> 0, season |-> NoSeason, session |-> 0, revision |-> 0,
     log |-> << >>, count |-> 0, command |-> NoCommand, finishes |-> FALSE]

MockInit ==
    /\ sessions = [s \in Ids |-> NoSession]
    /\ requests = [p \in Slots |-> Idle]
    /\ clock = 0
    /\ pruned = 0
    /\ creations = << >>

-----------------------------------------------------------------------------
(* Retention: an open session nobody touched is abandoned as of the time   *)
(* it ran out, and an ended one is deleted after its retention.            *)

\* Mutant of Lapsed: a session that ran out gets a status nothing deletes.
LapsedToExpired(session, now) ==
    IF session.status \in Open /\ session.updatedAt + InactiveTtl <= now
    THEN [session EXCEPT !.status = "expired"]
    ELSE session

Lapsed(session, now) ==
    IF session.status \in Open /\ session.updatedAt + InactiveTtl <= now
    THEN [session EXCEPT !.status = "abandoned",
                         !.endedAt = session.updatedAt + InactiveTtl,
                         !.updatedAt = session.updatedAt + InactiveTtl]
    ELSE session

\* Mutant of Forgotten: an abandoned session is deleted at once.
ForgottenAtOnce(session, now) ==
    \/ session.status = "abandoned" /\ session.endedAt <= now
    \/ session.status = "completed" /\ session.endedAt + CompletedRetention <= now

Forgotten(session, now) ==
    \/ session.status = "abandoned" /\ session.endedAt + AbandonedRetention <= now
    \/ session.status = "completed" /\ session.endedAt + CompletedRetention <= now

Pruned(now) ==
    [s \in Ids |-> LET session == Lapsed(sessions[s], now) IN
                   IF Forgotten(session, now) THEN NoSession ELSE session]

-----------------------------------------------------------------------------
(* Limits on what the user has open and creates.                           *)

OpenIn(rows) == {s \in Ids : rows[s].status \in Open}

HasRoom(rows, season, except) ==
    LET others == OpenIn(rows) \ except IN
    /\ Cardinality({s \in others : rows[s].season = season}) < MaxActiveOfSeason
    /\ Cardinality(others) < MaxActive

RecentIn(rows, now) ==
    {s \in Ids : /\ rows[s].status # "none"
                 /\ now - Window < rows[s].createdAt
                 /\ rows[s].createdAt <= now}

CreationAllowed(rows, season, now) ==
    /\ Cardinality(RecentIn(rows, now)) < MaxCreations
    /\ HasRoom(rows, season, {})

-----------------------------------------------------------------------------
(* A request goes on, or ends.                                             *)

Asks(p, request) ==
    /\ requests[p] = Idle
    /\ requests' = [requests EXCEPT ![p] = request]
    /\ UNCHANGED <<sessions, clock, pruned, creations>>

GoesOn(p, request) == requests' = [requests EXCEPT ![p] = request]
Ends(p) == GoesOn(p, Idle)

\* The transaction of an operation that took its time at now commits rows.
Commits(now, rows) ==
    /\ sessions' = rows
    /\ pruned' = IF now > pruned THEN now ELSE pruned
    /\ UNCHANGED clock

\* The request is refused, rolled back or cut off by a crash.
Fails(p) ==
    /\ requests[p] # Idle
    /\ Ends(p)
    /\ UNCHANGED <<sessions, clock, pruned, creations>>

Tick ==
    /\ clock < MaxTime
    /\ clock' = clock + 1
    /\ UNCHANGED <<sessions, requests, pruned, creations>>

ReadSessions ==
    /\ Pruned(clock) # sessions
    /\ Commits(clock, Pruned(clock))
    /\ UNCHANGED <<requests, creations>>

-----------------------------------------------------------------------------
(* Creating a session.  The season's page asks first whether it may and    *)
(* then prepares the draft, which takes time; the plain route creates at   *)
(* once.                                                                   *)

AskToCreate(p, season) ==
    Asks(p, [Idle EXCEPT !.op = "create", !.now = clock, !.season = season])

AssertCreationAllowed(p, season) ==
    /\ requests[p] = Idle
    /\ CreationAllowed(Pruned(clock), season, clock)
    /\ Commits(clock, Pruned(clock))
    /\ GoesOn(p, [Idle EXCEPT !.op = "create", !.now = clock, !.season = season])
    /\ UNCHANGED creations

CreateSession(p) ==
    LET r == requests[p]
        id == Len(creations) + 1
    IN /\ r.op = "create"
       /\ id \in Ids
       /\ CreationAllowed(Pruned(r.now), r.season, r.now)
       /\ Commits(r.now, [Pruned(r.now) EXCEPT ![id] =
              [NoSession EXCEPT !.season = r.season, !.status = "open", !.revision = 1,
                                !.createdAt = r.now, !.updatedAt = r.now]])
       /\ creations' = Append(creations, [at |-> r.now, late |-> r.now < pruned])
       /\ Ends(p)

-----------------------------------------------------------------------------
(* A command.  The season's page finds the session, looks for the command  *)
(* in it, replays the draft with the command added, and appends it if      *)
(* revision and count are those that were replayed.  The plain route       *)
(* appends without a replay, at the revision and count its client saw.     *)

Replays(texts) == texts \in Drafts
Finishes(texts) == texts \in FinishedDrafts

TextsOf(log) == [i \in DOMAIN log |-> log[i].text]

\* The command stored under the key of this one.
StoredUnder(log, command) == {c \in {log[i] : i \in DOMAIN log} : c.key = command.key}
IsRetry(log, command) == \E c \in StoredUnder(log, command) : c.text = command.text
IsNew(log, command) == StoredUnder(log, command) = {}

Known(s) == s \in 1..Len(creations)

\* checked says which route stores the command; only a property looks at it.
Command(submission, checked) ==
    [key |-> submission[1], text |-> submission[2], checked |-> checked]

AskToAppend(p, s, submission) ==
    /\ Known(s)
    /\ Asks(p, [Idle EXCEPT !.op = "append", !.now = clock, !.session = s,
                            !.revision = sessions[s].revision, !.count = Len(sessions[s].log),
                            !.command = Command(submission, FALSE)])

FindSession(p, s, submission) ==
    LET rows == Pruned(clock) IN
    /\ requests[p] = Idle
    /\ rows[s].status # "none"
    /\ Commits(clock, rows)
    /\ GoesOn(p, [Idle EXCEPT !.op = "retry", !.session = s, !.command = Command(submission, TRUE),
                              !.revision = rows[s].revision, !.log = rows[s].log])
    /\ UNCHANGED creations

\* The command is stored: the answer is the draft so far, and a session whose
\* draft is over is marked so.
FindStoredRetry(p) ==
    LET r == requests[p]
        rows == Pruned(clock)
        session == rows[r.session]
    IN /\ r.op = "retry"
       /\ session.status # "none"
       /\ IsRetry(session.log, r.command)
       /\ Commits(clock, rows)
       /\ IF /\ Replays(TextsOf(session.log)) /\ Finishes(TextsOf(session.log))
             /\ session.status # "completed"
          THEN GoesOn(p, [r EXCEPT !.op = "complete", !.now = clock, !.log = << >>,
                                  !.revision = session.revision])
          ELSE Ends(p)
       /\ UNCHANGED creations

\* The command is new: the draft that was found is replayed with it.
ReplayWithCommand(p) ==
    LET r == requests[p]
        rows == Pruned(clock)
        session == rows[r.session]
        texts == Append(TextsOf(r.log), r.command.text)
    IN /\ r.op = "retry"
       /\ session.status # "none"
       /\ IsNew(session.log, r.command)
       /\ Commits(clock, rows)
       /\ IF Replays(texts)
          THEN GoesOn(p, [r EXCEPT !.op = "append", !.now = clock, !.log = << >>,
                                  !.count = Len(r.log), !.finishes = Finishes(texts)])
          ELSE Ends(p)
       /\ UNCHANGED creations

Completed(session, now) ==
    [session EXCEPT !.status = "completed", !.endedAt = now, !.updatedAt = now]

\* Mutant of AppendCommand: the revision is compared, the count is not.
AppendAnywhere(p) ==
    LET r == requests[p]
        rows == Pruned(r.now)
        session == rows[r.session]
        appended == [session EXCEPT !.log = Append(@, r.command), !.updatedAt = r.now]
    IN /\ r.op = "append"
       /\ IsNew(session.log, r.command)
       /\ session.status \in Open
       /\ session.revision = r.revision
       /\ Len(session.log) < MaxCommands
       /\ Commits(r.now, [rows EXCEPT ![r.session] =
              IF r.finishes THEN Completed(appended, r.now) ELSE appended])
       /\ Ends(p)
       /\ UNCHANGED creations

AppendCommand(p) ==
    LET r == requests[p]
        rows == Pruned(r.now)
        session == rows[r.session]
        appended == [session EXCEPT !.log = Append(@, r.command), !.updatedAt = r.now]
    IN /\ r.op = "append"
       /\ IsNew(session.log, r.command)
       /\ session.status \in Open
       /\ session.revision = r.revision
       /\ Len(session.log) = r.count
       /\ Len(session.log) < MaxCommands
       /\ Commits(r.now, [rows EXCEPT ![r.session] =
              IF r.finishes THEN Completed(appended, r.now) ELSE appended])
       /\ Ends(p)
       /\ UNCHANGED creations

\* The command was stored meanwhile.
AppendRetried(p) ==
    LET r == requests[p]
        rows == Pruned(r.now)
        session == rows[r.session]
    IN /\ r.op = "append"
       /\ session.status # "none"
       /\ IsRetry(session.log, r.command)
       /\ Commits(r.now, [rows EXCEPT ![r.session] =
              IF r.finishes /\ session.status # "completed" THEN Completed(session, r.now) ELSE @])
       /\ Ends(p)
       /\ UNCHANGED creations

CompleteSession(p) ==
    LET r == requests[p]
        rows == Pruned(r.now)
        session == rows[r.session]
    IN /\ r.op = "complete"
       /\ session.status \in Open \cup {"completed"}
       /\ session.revision = r.revision
       /\ Commits(r.now, [rows EXCEPT ![r.session] = Completed(@, r.now)])
       /\ Ends(p)
       /\ UNCHANGED creations

-----------------------------------------------------------------------------
(* Starting a session over, and giving it up.                              *)

AskToEnd(p, s, op) ==
    /\ Known(s)
    /\ Asks(p, [Idle EXCEPT !.op = op, !.now = clock, !.session = s,
                            !.revision = sessions[s].revision])

\* Mutant of ResetSession: the limits are for new sessions only.
ResetUnlimited(p) ==
    LET r == requests[p]
        rows == Pruned(r.now)
        session == rows[r.session]
    IN /\ r.op = "reset"
       /\ session.status \in Open \cup {"completed"}
       /\ session.revision = r.revision
       /\ session.revision < MaxRevision
       /\ Commits(r.now, [rows EXCEPT ![r.session] =
              [session EXCEPT !.status = "open", !.revision = @ + 1, !.log = << >>,
                              !.endedAt = 0, !.updatedAt = r.now]])
       /\ Ends(p)
       /\ UNCHANGED creations

ResetSession(p) ==
    LET r == requests[p]
        rows == Pruned(r.now)
        session == rows[r.session]
    IN /\ r.op = "reset"
       /\ session.status \in Open \cup {"completed"}
       /\ session.revision = r.revision
       /\ session.revision < MaxRevision
       /\ HasRoom(rows, session.season, {r.session})
       /\ Commits(r.now, [rows EXCEPT ![r.session] =
              [session EXCEPT !.status = "open", !.revision = @ + 1, !.log = << >>,
                              !.endedAt = 0, !.updatedAt = r.now]])
       /\ Ends(p)
       /\ UNCHANGED creations

AbandonSession(p) ==
    LET r == requests[p]
        rows == Pruned(r.now)
        session == rows[r.session]
    IN /\ r.op = "abandon"
       /\ session.status \in Open
       /\ session.revision = r.revision
       /\ Commits(r.now, [rows EXCEPT ![r.session] =
              [session EXCEPT !.status = "abandoned", !.endedAt = r.now, !.updatedAt = r.now]])
       /\ Ends(p)
       /\ UNCHANGED creations

-----------------------------------------------------------------------------
MockNext ==
    \/ Tick
    \/ ReadSessions
    \/ \E p \in Slots :
        \/ \E season \in Seasons : AskToCreate(p, season) \/ AssertCreationAllowed(p, season)
        \/ \E s \in Played, submission \in Submissions :
            FindSession(p, s, submission) \/ AskToAppend(p, s, submission)
        \/ \E s \in Played, op \in {"reset", "abandon"} : AskToEnd(p, s, op)
        \/ CreateSession(p)
        \/ FindStoredRetry(p)
        \/ ReplayWithCommand(p)
        \/ AppendCommand(p)
        \/ AppendRetried(p)
        \/ CompleteSession(p)
        \/ ResetSession(p)
        \/ AbandonSession(p)
        \/ Fails(p)

MockSpec == MockInit /\ [][MockNext]_mockVars

-----------------------------------------------------------------------------
(* Properties.                                                             *)

Sessions ==
    [season : Seasons \cup {NoSeason}, status : {"none", "open", "completed", "abandoned"}, revision : Nat,
     log : Seq(Commands), createdAt : Nat, updatedAt : Nat, endedAt : Nat]

Requests ==
    [op : {"idle", "create", "retry", "append", "complete", "reset", "abandon"},
     now : Nat, season : Seasons \cup {NoSeason}, session : Ids \cup {0}, revision : Nat, log : Seq(Commands), count : Nat,
     command : Commands \cup {NoCommand}, finishes : BOOLEAN]

\* Rows, requests, times and the history have their types, and no log is longer
\* than a session stores (assertCommandLogCapacity).
MockTypeOK ==
    /\ sessions \in [Ids -> Sessions]
    /\ \A s \in Ids : Len(sessions[s].log) <= MaxCommands
    /\ requests \in [Slots -> Requests]
    /\ clock \in Nat
    /\ pruned \in Nat
    /\ creations \in Seq([at : Nat, late : BOOLEAN])

\* The user never has more sessions open than allowed, in one season or in all,
\* whichever requests race: creating and starting over open one, and being left
\* alone, finishing and giving up close one (assertActiveMockDraftSessionCapacity).
ActiveWithinLimits ==
    /\ Cardinality(OpenIn(sessions)) <= MaxActive
    /\ \A season \in Seasons :
        Cardinality({s \in OpenIn(sessions) : sessions[s].season = season}) <= MaxActiveOfSeason

CreatedBetween(from, to) ==
    {i \in DOMAIN creations : from < creations[i].at /\ creations[i].at <= to}

\* No window of time saw more creations than allowed, sessions given up and
\* deleted since included, unless a transaction with a later time overtook a
\* creation (assertMockDraftSessionCreationAllowed counts the stored sessions).
CreationsWithinRate ==
    (\A i \in DOMAIN creations : ~creations[i].late) =>
        \A i \in DOMAIN creations :
            Cardinality(CreatedBetween(creations[i].at - Window, creations[i].at)) <= MaxCreations

\* The draft was replayed with exactly the commands that precede it in the log
\* for every command stored by the season's page, although the session was
\* loaded before the replay and other requests append, finish, start it over
\* and give it up meanwhile.
CheckedCommandsReplay ==
    \A s \in Ids :
        \A i \in DOMAIN sessions[s].log :
            sessions[s].log[i].checked => Replays(TextsOf(SubSeq(sessions[s].log, 1, i)))
=============================================================================
