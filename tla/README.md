# Sunday Games in TLA+: the draft room, its store and stream, its jobs and what surrounds them

Sunday Games runs fantasy football drafts: a commissioner sets a league up, managers prepare with
simulations, and on the day everybody drafts in one shared live room. This directory specifies the
parts of the platform in which something can be wrong that a test would hardly meet: the
rules of the room over long sequences of commands, requests that race on one room, pages that follow
the room over an unreliable stream, jobs whose workers die and the simulation runs they execute,
managers who claim teams at the same time, and mock drafts that expire under their requests.

Paths below are relative to the repository (`src/platform/...`, `web/src/...`).

## Inventory

### Components

| Component | State | Operations | Hard behaviour | Modelled |
| --- | --- | --- | --- | --- |
| Live draft rooms (`src/platform/liveDraftRooms/`) | status, revision, event log, initial rosters; active sales derived from the log | create, cancel, synchronize keepers, start, pause, resume, end, reopen, log, correct and undo a sale | long legal command sequences; undo of corrections; snake order with keepers; slots, maximums and money running out | `DraftBoard`, `LiveDraftRoom` |
| Draft rooms in Postgres (`src/platform/postgresLiveDraftRooms/`, `platformServer/draftMutation.ts`) | `draft_rooms` row with projection, snapshots, events, sales rows | the same commands as transactions; reads in up to three statements | racing revisions, retries, duplicated submissions, crashes between statements, room ids used again | `RoomLog`, `DraftRoomStore` (partly) |
| Revision stream and admission (`liveDraftRoomEventStream.ts`, `liveDraftRoomRealtime/`, `platformNodeHttp/`, the page's hooks and cache) | the notifier's latest revision and counts, leases, open streams; the page's copy of the room | admit, wait, wake, poll, send, end; fetch, mutate, receive | lost notifications, restarts, broken connections, late answers, leaked places | `DraftStream` (partly) |
| Job queue and worker (`postgresJobQueue/`, `platformJobOrchestrator/`, `platformWorker.ts`) | `jobs` rows with lock, lease, attempts, requested cancellation | submit, prune, rerun, cancel; claim, heartbeat, complete, fail | crashes and stalls, takeover, retries, cancellation between any two statements | `JobQueue` (partly) |
| Simulation runs (`postgresSimulations/`, `simulations/`, `app/operations/simulation*.ts`) | a run's status and result, tied to a job by two separate calls | create, execute, complete, fail, cancel, reset, reconcile, prune | run and job disagree after a crash or a race; runs deleted under their jobs | `SimulationRuns` (partly) |
| Sales table (`postgresLiveDraftRooms/salePersistence.ts`) | sale rows, unique active player per room | insert, correct, undo | undo makes a row active whose player was sold again | `RoomSales` |
| Snake draft engine (`snakeDraftEngine.ts`) | picks of a mock draft | pick | none beyond the room's rules | no: one sequential loop |
| Auction mock engine (`auction/`) | nominations, bids, budgets of a simulated auction | nominate, bid, close | pricing heuristics | no: deterministic, and numerical |
| Mock draft sessions (`mockSessions/`, `postgresMockDraftSessions/`, `http/routes/seasonMock/`) | session rows with command logs | create, append, complete, reset, abandon, expire, prune | limits and rates under races; a draft replayed from a log that changed since | `MockSessions` (partly) |
| Accounts, sessions, rate limits (`auth/`, `postgresAuthRateLimit/`) | users, tokens, windows | sign in, expire, limit | counters under concurrency | no: outside the drafting core |
| Invitations and team claims (`platformInvitations/`, `postgresPlatformInvitations/`, `postgresLeagueSetup/`, `teamClaimOperations.ts`) | invitations, memberships, team owners | issue, reissue, revoke, accept, join, claim | reads and writes of two processes interleave; unique indexes decide | `TeamClaims` (partly) |
| League setup, seasons, sync (`leagueSeason/`, `leagueSetup/`, `leagueSyncService/`) | league and season records | edit, import | mostly validation and calls to league hosts | no |
| Historical imports (`historicalImports/`) | uploads and reviews | parse, match, approve | data transformation | no |
| Pricing and valuation (`modeling/`, `pricingRebuild.ts`) | price snapshots | rebuild | floating point, no shared state | no |
| Player data refresh (`fantasyPros*/`, `playerNewsRefresh/`) | catalogue and news | fetch | external providers | no: I/O |
| Exports (`draftExport/`, `exportArtifacts/`) | files | render | formatting | no |
| Platform stores and caches (`filePlatformStore/`, `postgresPlatformStore/`, `asyncValueCache.ts`) | snapshots of in-memory repositories | load, save | persistence of a whole snapshot | no: one write of a snapshot |
| HTTP layer (`http/`, `platformHttp.ts`) | none of its own | route, parse, answer | none beyond the operations it calls; the adapter's part in streams is in `DraftStream` | no |
| Local draft server, mock batches (`src/liveDraftServer/`, `src/mockBatchResourceManager.ts`) | one user's draft | act, save | the single-user predecessor of the platform | no |
| Command line, web client, extension, scripts | presentation | | the page's following of a room is in `DraftStream` | no |

`PROJECT.json` lists the same components with their files.

### How they interact

A mutation of a room is an HTTP request. `platformServer/requestHandler.ts` serializes the mutating
requests of one process; `draftMutation.ts` runs those that touch a season's keepers or start its
room in a transaction holding the season's advisory lock. The store reads the room (the newest
snapshot, then for a compact snapshot the full one and the events up to it), applies the in-memory
command of `liveDraftRooms/` to it, and writes row, event, snapshot and sale rows in one transaction
whose UPDATE compares the revision that was read. After the commit the request handler notifies the
process's notifier, and Postgres notifies every listening process. A notification wakes the streams
that have sent less; a stream that is not woken polls after its timeout. The page applies an event
to its copy of the room or fetches the room again. Answers of its own fetches and mutations
replace that copy whenever they arrive.

Jobs are rows: the web server submits, reruns and cancels them; worker processes claim and finish
them. The two sides share nothing but these rows and those of the simulation runs, which the web server
creates and may also execute itself; cancelling or rerunning is one call on the job and another on the run.

Invitations and claims write three tables; each request reads to refuse politely and then writes in one
transaction, and the indexes refuse what the reads missed. A claim is refused once the season's room has
started, which is all it shares with the room. A mock draft is a user's own: every operation takes
the time, locks the user's account, loads and prunes the user's sessions and writes back what changed;
a command of the season's page is three such operations with a replay between the last two.

### What makes each component correct

- Room: every roster fits its slots, position maximums and budget; no player drafted twice; sales only
  while the draft is live; picks in turn; undo really steps back; a room underway is not deleted and its
  keepers do not change; a completed draft stays completed.
- Store: concurrent requests act as if applied one by one to one log; the stored
  projection is what the log replays to; a read is of one moment; a request answered as done was
  applied exactly once.
- Stream: events in order on a connection; a stream catches up with the room, and a page with the room,
  without relying on notifications; a stream that ended gives its place back.
- Sales table: it tells the board that the log tells; its index keeps every player on one roster.
- Jobs: a job ends or is cancelled; a cancelled job is not revived; a worker that lost its job leaves
  no trace; attempts are counted.
- Runs: the first terminal result wins; a completed job has a result; a cancelled job leaves nothing to run.
- Claims: a manager owns one team and is never left without; a seat has one pending link; only
  an invitation that is good at the moment of the write admits.
- Mock drafts: open drafts stay within the limits and creations within the rate; what the season's page
  stores was replayed on exactly what precedes it.

The list `hazards` of `PROJECT.json` ties each of these to the line where it may fail.

## Modules

| Module | Models |
| --- | --- |
| `DraftBoard` | The pure rules: rosters, budgets, largest bid, position maximums, slots, snake order, acceptance of sales and keepers (`rosterCapacity.ts`, `projection.ts`, `sale.ts`, `snakePicks.ts`, `initialRosterValidation.ts`). |
| `LiveDraftRoom` | The room as a state machine, one action per repository command. |
| `RoomSales` | The room with its sales table: `LiveDraftRoom`'s steps, each with what it does to the rows, and the index that may refuse it. |
| `RoomLog` | Abstract: what the store promises, a room that is one log of accepted events. |
| `DraftRoomStore` | The store as concurrent transactions, statement by statement; implements `RoomLog`. |
| `JobQueue` | The queue's rows, users and workers, statement by statement. |
| `SimulationRuns` | `JobQueue`'s actions composed with the runs that jobs execute, the web process and the users' second calls. |
| `TeamClaims` | Invitations, memberships and owners of one season's teams under several processes. |
| `MockSessions` | One user's mock drafts: retention, limits, commands, lifecycle. |
| `DraftStream` | Streams, notifier, leases and pages around one server process. |
| `LiveDraftRoom_proofs`, `RoomSales_proofs`, `DraftRoomStore_proofs`, `JobQueue_proofs`, `SimulationRuns_proofs`, `TeamClaims_proofs`, `MockSessions_proofs`, `DraftStream_proofs` | Theorems, proved for all constants. |
| `MCAuctionRoom`, `MCSnakeRoom`, `MCDraftRoomStore`, `MCJobQueue`, `MCSimulationRuns`, `MCDraftStream`, `MCTeamClaims`, `MCMockSessions` | The instances TLC checks. |

`RoomSales` extends `LiveDraftRoom` and `SimulationRuns` extends `JobQueue`: every step of the composition is
a step of the part together with what it does beside it. `DraftRoomStore` implements `RoomLog` by a
refinement mapping. The others stand alone; what they take from one another is one flag or one step
(`TeamClaims`' `started`, `DraftStream`'s mutation).

### `DraftBoard` and `LiveDraftRoom`

The variables are the fields of a room record (`contracts/room.ts`): `status`, `revision`, `events`,
`initialRosters`. `activeSales` is what `activeSalesFor(room.events)` (`activeSales.ts`) returns, kept
incrementally: the element at `k` holds sequence index `k`, or is `NoSale`. `AfterEvent` is one turn of
that function's loop. The property `UndoStepsBack` compares the variable with a replay of the whole
log, so keeping it incrementally is itself checked.

Every command ends in `appendEvent` (`repository/mutation.ts`), which is the operator `Commit`: one
event, one more revision. An event's id contains its revision, so the position in the log stands for
the id. A command the code rejects is no step. Guards come from `guards.ts` and the command files; where
the code iterates over augmenting paths to fill roster slots (`rosterSlots.ts`), `FitsDraftSlots` asks
for an injection, which is what such a search decides. Money is whole dollars, as
`buildSale` demands. Names, timestamps, nomination order and messages are left out.

Not here: idempotency keys and expected revisions, which are of requests and so in `DraftRoomStore`.

### `RoomSales`

`sales` gives the row of each event its status. `RowsAfter` is `persistSaleProjection`; a correction
activates its own row and marks the replaced one, its undo does the reverse. `ActivePlayerKey` is the
partial unique index; where it fails the transaction fails, so the step of the room does not happen.
The composition shows both sides: the room's own `EachPlayerOnce` fails once a correction is undone
(`PlayersOnceUntilCorrectionUndone` says so in its name), and with the table it holds (`NobodyIsDraftedTwice`),
because the undo is refused.

### `RoomLog` and `DraftRoomStore`

A *slot* is a process of the server. Within a process mutating requests run one after the other
(`platformServer/persistence.ts`, `serialization.ts`), so a slot holds one request; there are two
processes while a release swaps instances. The phases of a slot are the places where a transaction
stops between statements: after the newest snapshot (`base`), after the full one (`events`), before
INSERT, UPDATE or DELETE (`insert`, `write`, `delete`). Statements see what is committed when they
start (READ COMMITTED, the pool's default). The UPDATE of the row and everything after it until COMMIT
are one step: they hold the row's lock and become visible together. `Abort` is a crash, a broken
connection or a failed check, at any point before.

`lock` is the season's advisory lock as this slot's transaction sees it: `held`, `none`, or `missed`
when `draftMutation.ts` looked for the room to learn its season, found none, and runs the command
without it. What a new command has to do with the room that was read is `Decision`, in the order of the
code: commands addressed to a season compare the expected revision before they look for a replay, all
others after.

The rules of the draft are parameters (`Accepts`, `StatusAfter`, `Cancellable`); the instance gives
the part of them that requests race on. `RoomLog` has the same parameters and one variable,
the room; the refinement maps it to the committed row and log.

`SnapshotsWith` deletes compact snapshots that left the window of two and keeps the full one, which
`RoomsStayReadable` and `ReadsWereCommitted` rest on. Left out: the projection that a read
computes for rows older than the projection column. The sales table is `RoomSales`.

### `JobQueue`

A job is named by its idempotency key. Reruns of one simulation share a key and so a row, which each
rerun resets (`sql.ts`, ON CONFLICT). `queue` orders the rows by creation. A row's `lease` is `held`
or `expired`: only its order relative to other steps matters. A worker's phases are the statements
between which `runClaimedPlatformJob.ts` can be overtaken: handling, handled (the heartbeat after the
handler), completing, failing (the read of `failJob`), retrying (its UPDATE), boundary (cancellation). A
user's cancellation is a read and an UPDATE that repeats the status that was read.

Left out: progress payloads, and reruns of jobs that are not simulations (a submission under another key).
The repository's launch notes (`docs/render-production-launch.md:12`) say no background worker runs in
production today; the queue is modelled as its code and tests run it.

### `SimulationRuns`

`runs` has the status of each run and whose result it has. An executor (a worker, or the web process) finds
the run, marks it running, runs it and completes it in separate statements (`simulations/execution.ts`);
`executions` says how far it is. `calls` are the users' second calls: cancelling the run after its job was
cancelled, finding and resetting it after its job was queued again (`simulationJobOperations.ts`). Each request
numbers its own, up to `MaxCalls`, so that two requests may be between their calls. A run has one first
job and one rerun row, as the rerun's key is the run's id (`jobRerunPolicy.ts:17`). A completed, failed or
cancelled run falls to the pruning of a later one; the user's other runs are not modelled, so `Pruned` may
delete any completed run but the newest and any request.

Two things it reaches and no property forbids, as no document says what should happen: a rerun claimed
before its run was reset answers with the old result, which the reset then deletes; and a run reset while
an executor from before the reset is at its last statement is completed with that executor's result.

### `TeamClaims`

`invites`, `owners` and `members` are the columns that `league_invitations`, `fantasy_teams` and `league_memberships`
decide by; `calls[p]` is what process `p` read and is about to write. The reads of a request are one step, since
each only refuses or picks the invitation to replace; the write is another, with the conditions its
transaction tests again and the two kinds of unique index (`Taken`, `OwnerKey`).

Left out: roles, tokens, imports that rewrite a season's teams, replacement of all memberships, and the
snapshot store's copy of memberships.

### `MockSessions`

`sessions` holds a row per session with the log of its current revision; setup and active are both `open`,
as nothing but wording tells them apart. A request `r` carries `r.now`, the time its operation took before it
waited for the account's lock, so a transaction may prune at a time that is past already. `FindSession`,
`FindStoredRetry` or `ReplayWithCommand`, and `AppendCommand` or `AppendRetried` are the three operations
of the season's page; `AskToAppend` leads to the last of them directly, as the plain route
does. `creations` records every creation committed and whether a later transaction overtook it.
What replays is a parameter (`Drafts`, `FinishedDrafts`): the two engines are not modelled.

The operations are separate transactions in the persistence mode `normalized-only`. In the default, `dual-write`, a whole
mock request is one transaction, serialized with the others of its process (`platformServer/snapshotPersistencePolicy.ts`);
its behaviours are those of the model in which the operations of a request follow one another undisturbed.

Left out: the limit on a log's bytes, result references, and the mirror that keeps an older
release's snapshot in step.

### `DraftStream`

`streams[p]` is the generator of `liveDraftRoomEventStream.ts` for page `p`: `opening` (authorized, the
room read), `admitted` (lease and subscription granted, response not yet written), `ready`, `waiting`,
`woken`, `polling`, `loading`. `notified` and `latest` are the revisions sent to and seen by the
notifier, which keeps only the highest. `subscriptions` is the count the notifier keeps, `orphans` the leases in the database that
no stream holds any more. A page has its `EventSource`, the copy it shows, a fetch and a mutation's
answer under way; `inbox[p]` is what the connection carries. `Receive` is `liveDraftRoomCacheUpdate`.
A mutation is one step here; `DraftRoomStore` opens it.

`Disconnect` is the break of a connection and the server's notice of it in one step: the generator ends, its place is
free, the page connects again. A page that reconnects before the server has noticed meets its own old lease and may
be refused; the model reaches that refusal by a lease left behind (`Abandon`, `Crash`), and refused pages are the
exception that `PagesCatchUp` names.

Left out: limits per account, sessions that end under an open stream, polling by browsers without
EventSource, a second server process.

## Runs

Runs say `CHECK_DEADLOCK FALSE` where the system may really stop: a completed draft, a log at its
bound, users who do nothing. `team_claims` and `mock_sessions` check for deadlock.

| Run | Distinct states | Checks |
| --- | --- | --- |
| `auction_room` | 276,146 | the room with its sales table: types; rosters legal and payable; sales only while live; undo steps back; the table tells the board; nobody drafted twice; underway rooms frozen; completed drafts final |
| `snake_room` | 46,589 | picks in turn; the team on the clock can pick in rounds that have a slot; players once; indices without gap |
| `undo_budget` | violation | finding 1 |
| `room_requests` | 16,897 | projection is the replay; rooms stay readable; reads are of one moment; answered requests are in the log once; `DraftRoomStore` implements `RoomLog` |
| `room_reuse` | violation | finding 2 |
| `jobs` | 538,978 | types; attempts; cancellation sticks; outcomes come from the holder; queued jobs end |
| `stuck_cancel` | violation | finding 3 |
| `simulation_runs` | 1,243,493 | types; first terminal result wins; completed jobs have results; cancelled jobs stop their runs |
| `draft_stream` | 449,975 | types and admission limit; events in order; wakes mean news; streams and pages catch up |
| `stream_refused` | violation | finding 4 |
| `team_claims` | 944,958 | types; one team per manager; one link per seat; nobody displaced; admission by live invitations only |
| `mock_sessions` | 1,961,908 | types; open drafts within limits; creations within the rate; stored commands were replayed on what precedes them |

### Bounds, and why they are enough

- Rooms: two teams of two draftable slots, one for running backs only, four players, three dollars; an IR slot besides,
  which counts for the budget's reserve and the snake draft's rounds only. `snake_room` has three rounds: the draft reaches
  the one without a slot and stops, and is never complete; that a complete one takes no pick is proved
  (`PicksAreInTurn`). Two or
  three sales fill a team, use up a position, or exhaust a budget, so every reason of refusal occurs. Seven
  revisions (`MaxRevision`) cover create, start, three sales and
  an undo or a correction and its undo, or an end, reopening and resuming with a sale; the property that needs
  most, an undone correction of a correction, needs six. Keepers: with, without, and (auction) a list
  the room must refuse.
- Store: two processes are what a release overlaps; a third could only repeat what one of the two does
  at the comparing UPDATE. Three keys allow a retry, a duplicate and a fresh request; expected revisions
  1 to 3 are stale, right or too new along a log of four. One creation in `room_requests`, two in
  `room_reuse`: with a second creation the property fails (finding 2), so the passing run says what
  holds as long as a room's id is not used again. Slots, keys and seasons are symmetric; no
  liveness is checked under symmetry.
- Jobs: one simulation and its rerun row, two workers, two attempts, one terminal job kept, so that a
  retry, a final failure, a takeover, a pruned row and a row reset under its old worker all occur. Two
  faults, and a finite number of them in any case, since a job that kills every worker that claims it is
  claimed for ever (no attempt is counted by a takeover). With the runs composed there is one fault, both jobs are
  kept, and one user's request is between its calls at a time; the theorems are for any number of each.
- Claims: two managers and the founder, two teams, three invitations, two processes: a seat contested by
  two, a manager moving between two seats, and an invitation that is replaced while a third is pending.
  Managers, teams, ids and processes are symmetric, and no liveness is checked.
- Mock drafts: two seasons with one open draft each, two requests at once, three creations of which a window
  may see two, a reset, and two ticks with a window and a lifetime of one: enough to expire, delete and
  create again. Commands go to one session, as sessions share only the limits.
- Stream: one page and one place, so every leaked or late lease matters; pages share only the places and
  the notifier. Three revisions allow a gap of two; two lives of the room allow its id to be
  used again; one fault.

### Fairness

`JobQueue!FairSpec`: each worker's loop goes on (`platformWorker.ts` polls on a timer and its
handlers end), and a lease nobody renews runs out. Nothing is assumed of users, heartbeats or faults. A
lease that expires under a live worker is a fault, as heartbeats come twice per lease (`heartbeat.ts`).

`DraftStream!FairSpec`: the server's loops and timers, the page's requests, the receipt of events and the
expiry of leases go on; an EventSource that lost its connection connects again. Nothing is assumed of
notifications, users or faults: catching up rests on the poll alone. `LiveDraftRoom` and `DraftRoomStore` have no liveness: a
room waits for its commissioner, and a refused request is the caller's to repeat.

### Mutants

Each checked property has a mutant in `PROJECT.json`: a definition with a plausible bug in its place
(a guard dropped, the revision not compared, an undo that forgets the corrected sale, a poll that reads
nothing), under which TLC finds the property violated. The mutated definitions stand beside the originals and
are used nowhere else.

## Findings

1. `undo_budget`: undo validates nothing and puts a corrected sale back, so a team may have spent more
   than its budget (`repository/undoSale.ts:22`). Hence the properties of rosters and of players hold
   *until a correction is undone*, and say so in their names.
2. `room_reuse`: the UPDATE compares id and revision, and a cancelled room's id is used again: a request
   that read the old room may store its projection over the new room's log
   (`postgresLiveDraftRooms/roomPersistence.ts:57`).
3. `stuck_cancel`: a running job whose worker died and whose cancellation was requested is claimed by
   nobody and stays running (`postgresJobQueue/sql.ts:13`).
4. `stream_refused`: an EventSource answered with 429 does not connect again, and the page stays behind
   until it is focused or reloaded (`useLiveDraftUpdates.ts:97`). One way to be refused is a place that a
   connection broken during admission never gives back (`platformNodeHttp/adapter.ts:68`); the run
   contains it.

`PROJECT.json` quotes, for each, the text of the repository that says otherwise.

Three more that the models reach and that no run of their own repeats:

- A snake draft may be ready and bound to stop. `validateSnakeDraft` (`leagueSeason/validateDraftFormat.ts:42`) compares the
  rounds with a roster size that `validateRoster.ts:11` makes the sum of all lineup slots, IR and RESERVE included, and
  says at line 47 that rounds "cannot exceed the ...-player roster capacity"; a room's capacity
  (`liveDraftRooms/rosterCapacity.ts:23`) leaves those slots out. With two draftable slots, one IR slot and three rounds, as
  in `snake_room`, the team on the clock in the third round is full: its pick is refused (`sale.ts:48`) and another
  team's is out of turn (`sale.ts:22`). Without keepers every roster is full by then and the draft can only be ended with
  picks open on its board. A keeper of the third round, which `validateSnakeKeepers.ts:14` accepts, fills its team a round
  earlier: that team comes on the clock in the second round with no slot while other teams have open ones, and the draft
  can only be undone or ended incomplete. Leagues made by
  `leagueCreation/settings.ts` have no such slots; a season registered as it is (`http/routes/season/registerSeason.ts`) may.
  `SeasonReady` admits these seasons, and `ClockTeamHasRoom` says that a draft stops so nowhere else: only in a round
  without a slot, or at a team whose keepers did not each take a round of their own that has one.
- A room ended before it starts can be reopened and resumed (`EndRoom`, `ReopenRoom`, `ResumeRoom`); it then
  takes picks although no `room_started` event exists, and `hasStartedRoomForSeason`
  (`repository/queries.ts:27`) says it has not started.
- A mock draft's command that is found stored is answered before revision and status are compared
  (`mockSessions/commands.ts:69`), so a delayed duplicate that carries `completeSession` completes a draft
  that was reset meanwhile and holds the command again, or that was abandoned (`AppendRetried`), although
  `lifecycle.ts:25` says abandoned drafts cannot be completed.

## Proofs

Every theorem holds for all values of the constants under the named assumptions of its module, which TLC
evaluates in the runs.

| Module | Theorem | Says |
| --- | --- | --- |
| `LiveDraftRoom_proofs` | `RoomInvariant` | `RoomInv` is an invariant |
| | `TypeCorrect` | `TypeOK` |
| | `SalesAreRecordedLive` | `SalesOnlyWhileLive` |
| | `IndicesHaveNoGap` | `HolesOnlyAtTail` |
| | `UnderwayIsFrozen` | `FrozenOnceUnderway`, an action property |
| | `PlayersAreDraftedOnce` | `PlayersOnceUntilCorrectionUndone` |
| | `TeamsStayLegal` | `TeamsLegalUntilCorrectionUndone` |
| | `UndoAlwaysStepsBack` | `UndoStepsBack` |
| | `CompletedDraftsStay` | `CompletedDraftIsFinal`, an action property |
| | `PicksAreInTurn` | `PicksInTurn` |
| | `ClockTeamCanPick` | `ClockTeamHasRoom` |
| `RoomSales_proofs` | `TableImplementsRoom` | `SalesSpec => Spec`: the table refuses events and invents none |
| | `SalesInvariant` | `SalesInv` is an invariant |
| | `TableMatchesBoard` | `SalesTableMatchesBoard` |
| | `NobodyTwice` | `NobodyIsDraftedTwice` |
| `DraftRoomStore_proofs` | `StoreInvariant` | `StoreInv` is an invariant |
| | `StoreImplementsLog` | `Spec /\ []FirstLife => ImplementsLog`: the store implements `RoomLog` |
| | `ProjectionsReplay` | `ProjectionIsReplay` while `FirstLife` |
| | `RoomsAreReadable` | `RoomsStayReadable` while `FirstLife` |
| | `ReadsAreCommitted` | `ReadsWereCommitted` while `FirstLife` |
| | `AnswersAreOnce` | `AnsweredOnce` while `FirstLife` |
| `JobQueue_proofs` | `QueueInvariantHolds` | `QueueInvariant` is an invariant |
| | `QueueIsTyped` | `TypeOK` |
| | `AttemptsAreAlwaysCounted` | `AttemptsAreCounted` |
| | `CancellationAlwaysSticks` | `CancellationSticks`, an action property |
| | `OutcomesAlwaysComeFromTheHolder` | `OutcomesComeFromTheHolder`, an action property |
| `SimulationRuns_proofs` | `SimulationFitsAlways` | `SimulationFits` is an invariant |
| | `SimulationIsTyped` | `SimulationTypeOK` |
| | `QueueKeepsItsPromises` | the queue's three properties hold of the composition |
| | `TerminalResultsWin` | `FirstTerminalResultWins`, an action property |
| | `CompletedJobsLeaveResults` | `CompletedJobsHaveResults` while no terminal job is pruned |
| | `CancelledJobsLeaveNothing` | `CancelledJobsStopTheirRuns` while no terminal job is pruned |
| | `KeptJobsMeanWhatTheySay` | both, for any jobs that are no more than the history keeps |
| `TeamClaims_proofs` | `ClaimsInvariantHolds` | `ClaimsInvariant` is an invariant |
| | `ClaimsAreTyped` | `ClaimsTypeOK` |
| | `ManagersOwnOneTeamAlways` | `ManagersOwnOneTeam` |
| | `OneLinkEachAlways` | `OneLinkEach` |
| | `NobodyIsEverDisplaced` | `NobodyIsDisplaced`, an action property |
| | `OnlyLiveInvitationsAdmit` | `AdmittedByLiveInvitation`, an action property |
| `MockSessions_proofs` | `MockInvariant` | `MockInv` is an invariant |
| | `MockTypeCorrect` | `MockTypeOK` |
| | `LimitsHold` | `ActiveWithinLimits` |
| | `RateHolds` | `CreationsWithinRate` |
| | `ReplaysHold` | `CheckedCommandsReplay` |
| `DraftStream_proofs` | `StreamInvariantHolds` | `StreamInvariant` is an invariant |
| | `StreamIsTyped` | `TypeOK` |
| | `EventsStayInOrder` | `EventsInOrder` |
| | `WakesAlwaysMeanNews` | `WakesMeanNews` |

### Along which argument

*The room.* Assumed: `SeasonReady` (what `assertSeasonReady` establishes before a room exists: slots, budget, order
and rounds that fit a roster counted with its IR slots, roster maximums that are counts) and `InputsTyped` (inputs have
their types, prices are whole dollars, `NoSale` is not a sale). None of the properties is inductive alone. That undo
keeps entries well typed needs that every source names an event of the log (`SourcesLogged`). That undo
removes the last index and a new sale takes the next one needs that the taken indices are `1..n`
(`ActiveRun`). To show that a correction's undo writes at the index the correction had, one needs that no two
active sales share a source; this follows from `OneIndexPerSource`: every event can be given a sequence
index that its corrections keep, which an undone correction restores. `SalesOnlyWhileLive` speaks of the log,
so a status of `live` must be read off the log: `LiveByLog`. `RoomInv` is the conjunction of these with
`TypeOK` and `SalesOnlyWhileLive`. `PlayersAreDraftedOnce` adds `PlayersInv`: keepers are distinct, a room
in setup has no sale, and sales are distinct from each other and from keepers unless a correction has been undone.

*Legal rosters* (`TeamsStayLegal`). `LegalRoster` is the property's three parts for one roster with what keeps them: at most
as many members as slots, each dearer than nothing in an auction. It is kept when a roster loses a member
(`SmallerIsLegal`) and when it gains one that `RosterAccepts` (`AcceptedIsLegal`), and every command changes one team's
roster by one member: a sale adds one, a correction takes one and adds one, an undo of a sale takes one. What a
roster costs is a recursive sum over a set in an unspecified order; `SpentOfMember` shows that any member may be taken
first, by induction on the size of the roster. Keepers are accepted one by one, so their rosters are legal by
induction over the list.

*Undo* (`UndoAlwaysStepsBack`). The board is the replay of the log, a recursive function; `CommitReplay` shows that one more
event makes it one turn longer and that the replays of the older events stay what they were. `SalesStepBack` then
says of every sale and correction of the log what its undo would have to do to the board right after it, and
`SourcesAreSales` that only sales and corrections are ever undone.

*Snake drafts.* `OpenPicksInOrder`: the open picks are listed in draft order, each once, none a keeper's. With `ActiveRun`
the first free index is the next one (`ClockIsNext`), so a sale fills a pick of its team; on the board without
a sale the team on the clock is that sale's own, so a correction keeps the team, and undoing it restores a sale
of that team (`LoggedSales`). For `ClockTeamCanPick` every member of the team's roster is sent to the round it was
drafted or kept in: the rounds are different, as a team picks once a round (`OnePickARound`) and a keeper's pick is
not open, and none is the round of the pick that is open; so there are fewer members than slots.

The property speaks of rounds that have a draftable slot and of teams whose keepers took such rounds, because no code
establishes more. Readiness lets rounds reach into the IR slots. When keepers are saved, `validateSnakeKeepers.ts` asks each
for a round of its own within the draft's rounds; the rounds, or the roster, may be lowered afterwards
(`http/routes/season/snakeRounds.ts`) without the keepers being asked again, and creating the room does not ask. Within
those rounds nothing is assumed: sales come in the order of the picks (`RoundsRise`), so none is of a later round
than the open pick.

*The sales table.* A step of `SalesSpec` is a step of the room, so the room's invariants carry over. `TableInv` adds
what ties rows to the log: active rows are exactly the sources of active sales and keep their sale, a
correction names an older event and remembers the sale it replaced, and at most one correction of an
event is not undone. Without the last, an undone correction might activate a row that another correction
still replaces. `NobodyIsDraftedTwice` needs `KeepersApart` as well: no sale ever logged is of a keeper, so
the sale an undo brings back is not one either, and between sales the index decides.

*The store.* Assumed: `BoundsTyped` and `NullIsNoRoom` (the absence of a room is none of the values a room can have).
`FirstLife` says that the room's id is not used again; it is a hypothesis of the theorems and not a
weakening for the proof, as `room_reuse` shows that they fail without it. `StoreInv` says that row, snapshots
and log are of one room (`Stored`), and of every slot that what it read is an earlier state of that room, a prefix
of its log (`Earlier`). The comparing UPDATE succeeds only at the revision that was read, where a prefix
of equal length is the log itself; so the command was accepted by the room it is applied to, and the
step maps to one of `RoomLog`. Deletion leaves slots that hold a room which is gone: their UPDATE finds no row.
That `SnapshotsWith` always leaves what a read needs rests on the least revision of the window (`LeastNat`).

*The queue.* `QueueInvariant` is the types and counts with `RetryFits`: a worker that still holds the job it
is retrying read the attempts the row still has. Everything that changes a row's attempts (a rerun, another
worker's retry) takes the job from the worker first, which is why `fail.ts` may write a count it read
before. The action properties follow step by step from what each statement compares.

*Runs.* `SimulationFits` adds to the queue's invariant what ties the two sides: a run has a result exactly when
it is completed, a worker executes the run of its job exactly while it handles it, a job is of a created run, and a
cancelled job carries the request. Every step is a step of the queue's that keeps what its properties
speak of, or leaves the rows alone (`SimulationMoves`), so the queue keeps its promises. What a completed job
says of its run needs `ResultsFit`: from the moment an execution is done until its job is completed, the run is completed
or deleted, unless a rerun of it has a row. For that the row must not disappear, hence the hypothesis `[](Outdated = {})`:
no terminal job is pruned. `KeptJobsMeanWhatTheySay` derives it from the number of jobs, as in the run. `CancelsFit` is
the same for cancelled jobs, with the user's second call under way as the exception.

*Claims.* The three invariants are inductive together: what a request read is stale, so nothing about it but its
type is kept, and the conditions of the writing transaction and the indexes carry the proof. That is the
theorem's content: the polite reads could be dropped and nothing would be wrong.

*Mock drafts.* Assumed: `PolicyTyped`, and `RetentionCoversWindow`, that ended drafts are kept at least as long
as the window in which creations are counted (the defaults of `resourcePolicy.ts` are an hour and a day against an
hour). `History` then says that a deleted draft's creation left the window of every transaction to come,
so the stored rows that are counted are all the creations there were; a creation that waited for the lock
while a later one overtook it is the exception the property names. `RequestOK` says that what a request
loaded is a prefix of the log as long as the revision is the same, because a log only grows
within a revision; equal revision and equal count make it the log itself, so the replay that was done
before the write is a replay of what is written.

*The stream.* `StreamInvariant`: a connection is open on the page exactly when its stream is past admission, events on the
way are in order and the last is of the revision the stream has sent, so whatever is sent next is newer.
Admission holds because leases and orphaned leases together never exceed the limit, and admitted streams never
exceed the subscriptions, which a stream that dies takes along. In a room's first life notifications are never
ahead of the room, so a wake means news; with its id used again they are.

Induction. The library states induction with an operator as parameter, which none of the provers can instantiate.
`LeastNat` and `InductiveSet` say it of sets instead, and follow from finite sets being well-founded; the
replay of a log, the sum over a roster and the list of open picks are done with them.

### Only model-checked

The liveness properties: `JobsEnd`, `StreamsCatchUp` and `PagesCatchUp`. They need fairness and ENABLED, which the prover
does not handle. Every invariant and action property that a passing run checks is proved, those of the store and of
the runs under the hypotheses named above; the runs check each on instances where those hold.

## Not modelled

The table of components names every part that is left out. The reasons are of four kinds.

- Data transformation and numerics without shared state: imports, pricing and valuation, the draft engines,
  exports. Their properties are about values (a price, a parsed row), which tests state better; the
  engines enter `MockSessions` as the set of drafts they replay.
- Calls to other systems: league hosts, player data. What can go wrong there is outside the code.
- Accounts and the stores of whole snapshots. `platformServer` serializes a process's requests around
  them, and the live platform keeps what is contested in the tables modelled here.
- Presentation and tooling: the web client but for the page's following of a room, the extension, the
  command line, scripts, and the older single-user draft server.

Within the modelled parts, `PROJECT.json` says under each component and hazard what is left out.
What would come next: that the room's commands are an instance of the rules `RoomLog` takes as parameters, and the
steps of the liveness arguments that are safety (what each pass of a worker or a stream makes smaller).
