------------------------ MODULE DraftRoomStore_proofs ------------------------
(***************************************************************************)
(* For any processes, commands, keys, rules of the draft and bounds: until *)
(* the id of a cancelled room is used again, the store implements RoomLog, *)
(* and its projections, snapshots, reads and answers agree with the log.   *)
(*                                                                         *)
(* The restriction is needed: run room_reuse shows what a request that     *)
(* read the room's first life does to its second.                          *)
(***************************************************************************)
EXTENDS DraftRoomStore, FiniteSetTheorems, SequenceTheorems, WellFoundedInduction, TLAPS

FirstLife == creations <= 1

\* The room that the row shows.
Room == IF row = NoRoom THEN NoRoom ELSE row.projection

Consistent(room) ==
    /\ room \in Rooms
    /\ Len(room.log) >= 1
    /\ room.status = StatusThrough(room.log)
    /\ \A i, j \in DOMAIN room.log : room.log[i].key = room.log[j].key => i = j

\* A snapshot of a room is determined by its revision.
SnapshotOf(room, n) ==
    [revision |-> n, status |-> StatusThrough(SubSeq(room.log, 1, n)),
     base |-> IF n = 1 THEN room.base ELSE NoRoom]

\* The first and the newest are kept, and what the window holds.
SnapshotsShow(room) ==
    /\ {SnapshotOf(room, 1), SnapshotOf(room, Len(room.log))} \subseteq snapshots
    /\ \A s \in snapshots :
        /\ s.revision \in 1..Len(room.log) /\ s = SnapshotOf(room, s.revision)
        /\ s.revision = 1 \/ s.revision >= Len(room.log) - SnapshotWindow + 1

\* The row, the event log and the snapshots are of one room.
Stored(room) ==
    /\ Consistent(room)
    /\ row = [revision |-> Len(room.log), status |-> room.status, projection |-> room]
    /\ events = room.log
    /\ SnapshotsShow(room)

NothingStored == row = NoRoom /\ snapshots = {} /\ events = << >>

\* What was read is an earlier state of the room that is stored now, if it still is.
Earlier(room, now) ==
    /\ room = [status |-> StatusThrough(room.log), base |-> room.base, log |-> room.log]
    /\ room.log \in Seq(LogEntries) /\ Len(room.log) >= 1
    /\ now # NoRoom =>
        /\ room.base = now.base
        /\ Len(room.log) <= Len(now.log) /\ room.log = SubSeq(now.log, 1, Len(room.log))

Recorded(request, log) ==
    \E i \in DOMAIN log : log[i].key = request.key /\ log[i].command = request.command

\* What a slot holds when it goes on, of the room that is stored now.
StateOK(state, now) ==
    /\ state.phase \in {"idle", "base", "events", "read", "write", "answered", "insert", "delete"}
    /\ state.phase \in {"base", "events"} =>
        /\ state.revision \in Nat \ {0}
        /\ now # NoRoom =>
            /\ state.revision <= Len(now.log)
            /\ state.status = StatusThrough(SubSeq(now.log, 1, state.revision))
    /\ state.phase = "events" /\ now # NoRoom => state.base = now.base
    /\ state.phase \in {"read", "write"} => Earlier(state.room, now)
    /\ state.phase = "write" =>
        /\ state.request \in Requests
        /\ Expects(state.request, state.room) /\ Accepts(state.room, state.request.command)
    /\ state.phase = "answered" /\ now # NoRoom => Recorded(state.request, now.log)
    /\ state.phase = "insert" => state.base \in Bases

StoreInv ==
    /\ creations \in Nat /\ DOMAIN slots = Slots
    /\ FirstLife =>
        /\ NothingStored \/ (Stored(row.projection) /\ creations = 1)
        /\ \A s \in Slots : StateOK(slots[s], Room)
        /\ creations = 0 => \A s \in Slots : slots[s].phase \in {"idle", "insert"}

-----------------------------------------------------------------------------
(* Induction over the naturals, for a set instead of a predicate: the      *)
(* library's theorem takes an operator, this one follows from the finite   *)
(* sets being well-founded.                                                *)

LEMMA LeastNat ==
  ASSUME NEW T, T \subseteq Nat, T # {}
  PROVE  \E m \in T : \A k \in T : m <= k
<1> DEFINE F == {0..k : k \in T}
           R == StrictSubsetOrdering(Nat)
           S == FiniteSubsetsOf(Nat)
<1>1. F \subseteq S
  <2> SUFFICES ASSUME NEW k \in T PROVE 0..k \in S
    OBVIOUS
  <2>1. IsFiniteSet(0..k)
    BY FS_Interval
  <2> QED
    BY <2>1 DEF FiniteSubsetsOf
<1>2. F # {}
  OBVIOUS
<1>3. IsWellFoundedOn(R, S)
  BY FS_StrictSubsetOrderingWellFounded
<1>4. ASSUME NEW x \in Nat, NEW y \in Nat, y < x
      PROVE  <<0..y, 0..x>> \in R
  <2>1. x \in 0..x /\ x \notin 0..y /\ 0..y \subseteq 0..x
    BY <1>4
  <2> QED
    BY <2>1 DEF StrictSubsetOrdering
<1>5. \E f \in F : \A g \in F : ~ (<<g, f>> \in R)
  <2> HIDE DEF F, R, S
  <2> QED
    BY <1>1, <1>2, <1>3, WFMin
<1>6. PICK m \in T : \A g \in F : ~ (<<g, 0..m>> \in R)
  BY <1>5
<1>7. ASSUME NEW k \in T PROVE m <= k
  <2>1. ~ (<<0..k, 0..m>> \in R)
    BY <1>6
  <2> HIDE DEF R
  <2> QED
    BY <2>1, <1>4
<1> QED
  BY <1>7

LEMMA InductiveSet ==
  ASSUME NEW S, 0 \in S, \A n \in Nat : n \in S => n + 1 \in S
  PROVE  Nat \subseteq S
<1> SUFFICES ASSUME Nat \ S # {} PROVE FALSE
  OBVIOUS
<1>1. PICK m \in Nat \ S : \A k \in Nat \ S : m <= k
  BY LeastNat
<1>2. m - 1 \in Nat /\ m - 1 \in S
  BY <1>1
<1> QED
  BY <1>2

-----------------------------------------------------------------------------
(* StatusThrough is the fold of StatusAfter over the log.                  *)

Trails(f, log, n) ==
    f = [i \in 1..n |-> IF i = 1 THEN NewStatus ELSE StatusAfter(f[i - 1], log[i].command)]

LEMMA TrailsExist ==
  ASSUME NEW log, NEW n \in Nat
  PROVE  \E f : Trails(f, log, n)
<1> DEFINE S == {k \in Nat : \E f : Trails(f, log, k)}
<1>1. 0 \in S
  <2>1. Trails([i \in 1..0 |-> 0], log, 0)
    BY DEF Trails
  <2> QED
    BY <2>1
<1>2. ASSUME NEW k \in Nat, k \in S PROVE k + 1 \in S
  <2>1. PICK f : Trails(f, log, k)
    BY <1>2
  <2> DEFINE g == [i \in 1..(k + 1) |->
                    IF i = 1 THEN NewStatus ELSE StatusAfter(f[i - 1], log[i].command)]
  <2>2. ASSUME NEW i \in 1..k PROVE g[i] = f[i]
    BY <2>1 DEF Trails
  <2>3. ASSUME NEW i \in 1..(k + 1), i # 1 PROVE g[i - 1] = f[i - 1]
    BY <2>2, <2>3
  <2>4. Trails(g, log, k + 1)
    BY <2>3 DEF Trails
  <2> QED
    BY <2>4
<1> HIDE DEF S
<1>3. Nat \subseteq S
  BY <1>1, <1>2, InductiveSet
<1> QED
  BY <1>3 DEF S

LEMMA TrailsAgree ==
  ASSUME NEW one, NEW m \in Nat, NEW f, Trails(f, one, m),
         NEW other, NEW n \in Nat, NEW g, Trails(g, other, n),
         NEW k \in Nat, k <= m, k <= n, \A i \in 1..k : one[i] = other[i]
  PROVE  \A i \in 1..k : f[i] = g[i]
<1> DEFINE S == {i \in Nat : i \in 1..k => f[i] = g[i]}
<1>1. 0 \in S
  OBVIOUS
<1>2. ASSUME NEW i \in Nat, i \in S PROVE i + 1 \in S
  <2> SUFFICES ASSUME i + 1 \in 1..k PROVE f[i + 1] = g[i + 1]
    OBVIOUS
  <2>1. CASE i = 0
    BY <2>1 DEF Trails
  <2>2. CASE i # 0
    <3>1. f[i] = g[i] /\ one[i + 1] = other[i + 1]
      BY <1>2, <2>2
    <3>2. f[i + 1] = StatusAfter(f[i], one[i + 1].command)
      BY <2>2 DEF Trails
    <3>3. g[i + 1] = StatusAfter(g[i], other[i + 1].command)
      BY <2>2 DEF Trails
    <3> QED
      BY <3>1, <3>2, <3>3
  <2> QED
    BY <2>1, <2>2
<1> HIDE DEF S
<1>3. Nat \subseteq S
  BY <1>1, <1>2, InductiveSet
<1> QED
  BY <1>3 DEF S

LEMMA TrailStep ==
  ASSUME NEW log, NEW n \in Nat, NEW f, Trails(f, log, n), NEW i \in 1..n, i # 1
  PROVE  f[i] = StatusAfter(f[i - 1], log[i].command)
BY DEF Trails

LEMMA StatusOfTrail ==
  ASSUME NEW log, Len(log) \in Nat
  PROVE  \E f : Trails(f, log, Len(log)) /\ StatusThrough(log) = f[Len(log)]
<1> DEFINE F == CHOOSE f : Trails(f, log, Len(log))
<1>1. Trails(F, log, Len(log))
  BY TrailsExist
<1>2. StatusThrough(log) = F[Len(log)]
  BY DEF StatusThrough, Trails
<1> QED
  BY <1>1, <1>2

LEMMA StatusOfNew ==
  ASSUME NEW log, Len(log) = 1
  PROVE  StatusThrough(log) = NewStatus
<1>1. PICK f : Trails(f, log, Len(log)) /\ StatusThrough(log) = f[Len(log)]
  BY StatusOfTrail
<1> QED
  BY <1>1 DEF Trails

LEMMA StatusOfLonger ==
  ASSUME NEW log \in Seq(LogEntries), Len(log) >= 1, NEW event \in LogEntries
  PROVE  StatusThrough(Append(log, event)) = StatusAfter(StatusThrough(log), event.command)
<1> DEFINE longer == Append(log, event)
<1>1. /\ Len(longer) = Len(log) + 1
      /\ longer[Len(log) + 1] = event
      /\ \A i \in 1..Len(log) : log[i] = longer[i]
  OBVIOUS
<1> HIDE DEF longer
<1>2. PICK f : Trails(f, log, Len(log)) /\ StatusThrough(log) = f[Len(log)]
  BY StatusOfTrail
<1>3. PICK g : Trails(g, longer, Len(longer)) /\ StatusThrough(longer) = g[Len(longer)]
  BY StatusOfTrail, <1>1
<1>4. f[Len(log)] = g[Len(log)]
  BY <1>1, <1>2, <1>3, TrailsAgree
<1>5. g[Len(log) + 1] = StatusAfter(g[Len(log)], event.command)
  <2>1. Trails(g, longer, Len(log) + 1) /\ Len(log) \in Nat /\ Len(log) + 1 # 1
    BY <1>1, <1>3
  <2>2. g[Len(log) + 1] = StatusAfter(g[Len(log) + 1 - 1], longer[Len(log) + 1].command)
    BY <2>1, TrailStep
  <2>3. Len(log) + 1 - 1 = Len(log)
    BY <2>1
  <2> QED
    BY <1>1, <2>2, <2>3
<1> QED
  BY <1>1, <1>2, <1>3, <1>4, <1>5 DEF longer

-----------------------------------------------------------------------------
(* What is stored, and what a request reads of it.                         *)

LEMMA RoomsAreNotNull ==
  ASSUME NEW room \in Rooms
  PROVE  room # NoRoom /\ room.base # NoRoom /\ Len(room.log) \in Nat /\ room.log \in Seq(LogEntries)
BY NullIsNoRoom DEF Rooms

LEMMA NewestAndOldest ==
  ASSUME NEW room, Stored(room)
  PROVE  Oldest = SnapshotOf(room, 1) /\ Newest = SnapshotOf(room, Len(room.log))
<1> DEFINE last == Len(room.log)
<1>1. /\ last \in Nat /\ last >= 1
      /\ SnapshotOf(room, 1) \in snapshots /\ SnapshotOf(room, last) \in snapshots
      /\ \A s \in snapshots : s.revision \in 1..last /\ s = SnapshotOf(room, s.revision)
  BY RoomsAreNotNull DEF Stored, Consistent, SnapshotsShow
<1>2. SnapshotOf(room, 1).revision = 1 /\ SnapshotOf(room, last).revision = last
  BY DEF SnapshotOf
<1> HIDE DEF last
<1>3. Oldest = SnapshotOf(room, 1)
  <2>1. \E s \in snapshots : \A other \in snapshots : s.revision <= other.revision
    BY <1>1, <1>2
  <2>2. Oldest \in snapshots /\ \A other \in snapshots : Oldest.revision <= other.revision
    BY <2>1 DEF Oldest
  <2>3. Oldest.revision = 1
    BY <2>2, <1>1, <1>2
  <2> QED
    BY <2>2, <2>3, <1>1
<1>4. Newest = SnapshotOf(room, last)
  <2>1. \E s \in snapshots : \A other \in snapshots : s.revision >= other.revision
    BY <1>1, <1>2
  <2>2. Newest \in snapshots /\ \A other \in snapshots : Newest.revision >= other.revision
    BY <2>1 DEF Newest
  <2>3. Newest.revision = last
    BY <2>2, <1>1, <1>2
  <2> QED
    BY <2>2, <2>3, <1>1
<1> QED
  BY <1>3, <1>4 DEF last

LEMMA StoredIsCommitted ==
  ASSUME NEW room, Stored(room)
  PROVE  /\ row # NoRoom /\ Room = room /\ room # NoRoom
         /\ snapshots # {} /\ Base = room.base
         /\ CommittedRoom = room
<1>1. room \in Rooms /\ room # NoRoom /\ Len(room.log) \in Nat
  BY RoomsAreNotNull DEF Stored, Consistent
<1>2. row # NoRoom
  <2>1. row \in [revision : Nat, status : Statuses, projection : Rooms]
    BY <1>1 DEF Stored, Rooms
  <2> QED
    BY <2>1, NullIsNoRoom
<1>3. Room = room
  BY <1>2 DEF Room, Stored
<1>4. snapshots # {}
  BY DEF Stored, SnapshotsShow
<1>5. Base = room.base
  BY <1>4, NewestAndOldest DEF Base, SnapshotOf
<1>6. CommittedRoom = [status |-> room.status, base |-> room.base, log |-> room.log]
  BY <1>2, <1>5 DEF CommittedRoom, Hydrated, Stored
<1>7. room = [status |-> room.status, base |-> room.base, log |-> room.log]
  BY <1>1 DEF Rooms
<1> QED
  BY <1>1, <1>2, <1>3, <1>4, <1>5, <1>6, <1>7

LEMMA PrefixOfLog ==
  ASSUME NEW log \in Seq(LogEntries), NEW n \in Nat, n <= Len(log)
  PROVE  /\ SubSeq(log, 1, n) \in Seq(LogEntries) /\ Len(SubSeq(log, 1, n)) = n
         /\ \A i \in 1..n : SubSeq(log, 1, n)[i] = log[i]
  BY SubSeqProperties

LEMMA WholeLog ==
  ASSUME NEW log \in Seq(LogEntries)
  PROVE  SubSeq(log, 1, Len(log)) = log
<1>1. /\ SubSeq(log, 1, Len(log)) \in Seq(LogEntries) /\ Len(SubSeq(log, 1, Len(log))) = Len(log)
      /\ \A i \in 1..Len(log) : SubSeq(log, 1, Len(log))[i] = log[i]
  BY PrefixOfLog
<1> QED
  BY <1>1, SeqEqual

LEMMA DecisionsAreSound ==
  ASSUME NEW now \in Rooms, NEW room, Earlier(room, now), NEW request \in Requests
  PROVE  StateOK(Decision(request, room), now)
<1>1. now # NoRoom /\ now.log \in Seq(LogEntries) /\ room.log \in Seq(LogEntries)
  BY RoomsAreNotNull DEF Earlier
<1>2. CASE Decision(request, room) = Idle
  BY <1>2 DEF StateOK, Idle
<1>3. CASE Decision(request, room) = Answered(request) /\ Replays(request, room)
  <2>1. PICK i \in DOMAIN room.log :
            room.log[i].key = request.key /\ room.log[i].command = request.command
    BY <1>3 DEF Replays
  <2>2. Len(room.log) <= Len(now.log) /\ room.log = SubSeq(now.log, 1, Len(room.log))
    BY <1>1 DEF Earlier
  <2>3. i \in 1..Len(room.log) /\ i \in DOMAIN now.log /\ Len(room.log) \in Nat
    BY <1>1, <2>1, <2>2
  <2>4. room.log[i] = now.log[i]
    BY <1>1, <2>2, <2>3, PrefixOfLog
  <2>5. Recorded(request, now.log)
    BY <2>1, <2>3, <2>4 DEF Recorded
  <2> QED
    BY <1>3, <2>5 DEF StateOK, Answered
<1>4. CASE /\ Decision(request, room) = [phase |-> "write", request |-> request, room |-> room]
           /\ Expects(request, room) /\ Accepts(room, request.command)
  BY <1>4 DEF StateOK
<1> QED
  BY <1>2, <1>3, <1>4 DEF Decision

LEMMA ReadsGoOn ==
  ASSUME NEW now \in Rooms, NEW room, Earlier(room, now), NEW s \in Slots, HasRead(s, room)
  PROVE  \E state : StateOK(state, now) /\ Becomes(s, state)
<1>1. CASE \E request \in Requests : Becomes(s, Decision(request, room))
  BY <1>1, DecisionsAreSound
<1>2. CASE \E expected \in Expectations : Becomes(s, CancelDecision(expected, room))
  <2>1. PICK expected \in Expectations : Becomes(s, CancelDecision(expected, room))
    BY <1>2
  <2>2. StateOK(CancelDecision(expected, room), now)
    BY DEF StateOK, CancelDecision, Idle
  <2> QED
    BY <2>1, <2>2
<1>3. CASE Becomes(s, [phase |-> "read", room |-> room])
  <2>1. StateOK([phase |-> "read", room |-> room], now)
    BY DEF StateOK
  <2> QED
    BY <1>3, <2>1
<1> QED
  BY <1>1, <1>2, <1>3 DEF HasRead

-----------------------------------------------------------------------------
(* Every step keeps StoreInv, and is one of the log's or none.             *)

StepOK == StoreInv' /\ (FirstLife' => [Log!Next]_CommittedRoom)

LEMMA Goings ==
  ASSUME NEW s \in Slots, NEW state, Goes(s, state), DOMAIN slots = Slots
  PROVE  /\ DOMAIN slots' = Slots
         /\ \A t \in Slots : slots'[t] = IF t = s THEN state ELSE slots[t]
BY DEF Goes

LEMMA FirstLifeStored ==
  ASSUME StoreInv, FirstLife, row # NoRoom
  PROVE  /\ Stored(row.projection) /\ creations = 1
         /\ Room = row.projection /\ Room \in Rooms /\ CommittedRoom = Room
<1>1. Stored(row.projection) /\ creations = 1
  BY DEF StoreInv, NothingStored
<1> QED
  BY <1>1, StoredIsCommitted DEF Stored, Consistent

LEMMA QuietStep ==
  ASSUME StoreInv, UNCHANGED <<row, snapshots, events, creations>>,
         DOMAIN slots' = Slots,
         FirstLife => \A s \in Slots : StateOK(slots'[s], Room),
         creations = 0 => \A s \in Slots : slots'[s].phase \in {"idle", "insert"}
  PROVE  StepOK
<1>1. /\ Room' = Room /\ CommittedRoom' = CommittedRoom
      /\ NothingStored' = NothingStored /\ FirstLife' = FirstLife
  BY DEF Room, CommittedRoom, Hydrated, Base, Oldest, NothingStored, FirstLife
<1>2. Stored(row.projection) => Stored(row.projection)'
  BY DEF Stored, SnapshotsShow
<1>3. StoreInv'
  BY <1>1, <1>2 DEF StoreInv
<1> QED
  BY <1>1, <1>3 DEF StepOK

LEMMA QuietRequest ==
  ASSUME StoreInv, NEW s \in Slots, NEW state, Becomes(s, state),
         FirstLife => StateOK(state, Room),
         creations = 0 => state.phase \in {"idle", "insert"}
  PROVE  StepOK
<1>1. /\ DOMAIN slots' = Slots
      /\ \A t \in Slots : slots'[t] = IF t = s THEN state ELSE slots[t]
  BY Goings DEF Becomes, StoreInv
<1>2. FirstLife => \A t \in Slots : StateOK(slots'[t], Room)
  BY <1>1 DEF StoreInv
<1>3. creations = 0 => \A t \in Slots : slots'[t].phase \in {"idle", "insert"}
  BY <1>1 DEF StoreInv, FirstLife
<1> QED
  BY <1>1, <1>2, <1>3, QuietStep DEF Becomes

LEMMA IdleIsFine ==
  ASSUME NEW now
  PROVE  StateOK(Idle, now) /\ Idle.phase = "idle"
BY DEF StateOK, Idle

LEMMA LaterLives ==
  ASSUME StoreInv, creations' \in Nat, DOMAIN slots' = Slots, ~FirstLife'
  PROVE  StepOK
BY DEF StoreInv, StepOK

LEMMA ReadNewestOK ==
  ASSUME StoreInv, NEW s \in Slots, ReadNewest(s)
  PROVE  StepOK
<1>1. CASE ~FirstLife
  <2>1. UNCHANGED <<row, snapshots, events, creations>> /\ \E state : Goes(s, state)
    BY DEF ReadNewest, HasRead, Becomes
  <2>2. DOMAIN slots' = Slots
    BY <2>1, Goings DEF StoreInv
  <2> QED
    BY <1>1, <2>1, <2>2, LaterLives DEF FirstLife, StoreInv
<1>2. CASE FirstLife
  <2> DEFINE now == row.projection
  <2>1. /\ row # NoRoom /\ Stored(now) /\ creations = 1
        /\ Room = now /\ now \in Rooms /\ CommittedRoom = now
    BY <1>2, FirstLifeStored DEF ReadNewest
  <2>2. Newest = SnapshotOf(now, Len(now.log)) /\ Len(now.log) \in Nat /\ Len(now.log) >= 1
    BY <2>1, NewestAndOldest, RoomsAreNotNull DEF Stored, Consistent
  <2>3. SubSeq(now.log, 1, Len(now.log)) = now.log /\ now.log \in Seq(LogEntries)
    BY <2>1, WholeLog, RoomsAreNotNull
  <2> HIDE DEF now
  <2>4. CASE Newest.base # NoRoom
    <3>1. Newest.status = now.status
      BY <2>1, <2>2, <2>3 DEF SnapshotOf, Stored, Consistent
    <3>2. Hydrated(Newest.status, events) = CommittedRoom
      BY <2>1, <3>1 DEF CommittedRoom, Hydrated, Stored
    <3>3. Earlier(now, now)
      <4>1. now = [status |-> now.status, base |-> now.base, log |-> now.log]
        BY <2>1 DEF Rooms
      <4>2. now.status = StatusThrough(now.log)
        BY <2>1 DEF Stored, Consistent
      <4> QED
        BY <2>1, <2>2, <2>3, <4>1, <4>2 DEF Earlier
    <3>4. HasRead(s, now)
      BY <2>1, <2>4, <3>2 DEF ReadNewest
    <3>5. PICK state : StateOK(state, now) /\ Becomes(s, state)
      BY <2>1, <3>3, <3>4, ReadsGoOn
    <3> QED
      BY <2>1, <3>5, QuietRequest
  <2>5. CASE Newest.base = NoRoom
    <3> DEFINE state == [phase |-> "base", revision |-> Newest.revision, status |-> Newest.status]
    <3>1. StateOK(state, now)
      BY <2>2 DEF StateOK, SnapshotOf
    <3>2. Becomes(s, state)
      BY <2>5 DEF ReadNewest
    <3> HIDE DEF state
    <3> QED
      BY <2>1, <3>1, <3>2, QuietRequest
  <2> QED
    BY <2>4, <2>5
<1> QED
  BY <1>1, <1>2

LEMMA ReadBaseOK ==
  ASSUME StoreInv, NEW s \in Slots, ReadBase(s)
  PROVE  StepOK
<1> DEFINE state == IF Base = NoRoom THEN Idle
                    ELSE [phase |-> "events", base |-> Base,
                          revision |-> slots[s].revision, status |-> slots[s].status]
<1>1. Becomes(s, state)
  BY DEF ReadBase
<1>2. ASSUME FirstLife PROVE StateOK(state, Room)
  <2>1. CASE Base = NoRoom
    BY <2>1, IdleIsFine
  <2>2. CASE Base # NoRoom
    <3>1. StateOK(slots[s], Room) /\ slots[s].phase = "base"
      BY <1>2 DEF ReadBase, StoreInv
    <3>2. row # NoRoom
      <4>1. snapshots # {}
        BY <2>2 DEF Base
      <4>2. Stored(row.projection)
        BY <1>2, <4>1 DEF StoreInv, NothingStored
      <4> QED
        BY <4>2, StoredIsCommitted
    <3>3. Base = Room.base
      BY <1>2, <3>2, FirstLifeStored, StoredIsCommitted
    <3> QED
      BY <2>2, <3>1, <3>3 DEF StateOK
  <2> QED
    BY <2>1, <2>2
<1>3. ASSUME creations = 0 PROVE FALSE
  BY <1>3 DEF ReadBase, StoreInv, FirstLife
<1> HIDE DEF state
<1> QED
  BY <1>1, <1>2, <1>3, QuietRequest

LEMMA ReadEventsOK ==
  ASSUME StoreInv, NEW s \in Slots, ReadEvents(s)
  PROVE  StepOK
<1>1. ASSUME creations = 0 PROVE FALSE
  BY <1>1 DEF ReadEvents, StoreInv, FirstLife
<1>2. CASE Len(events) < slots[s].revision
  BY <1>1, <1>2, IdleIsFine, QuietRequest DEF ReadEvents
<1>3. CASE ~(Len(events) < slots[s].revision) /\ ~FirstLife
  <2>1. UNCHANGED <<row, snapshots, events, creations>> /\ \E state : Goes(s, state)
    BY <1>3 DEF ReadEvents, HasRead, Becomes
  <2>2. DOMAIN slots' = Slots
    BY <2>1, Goings DEF StoreInv
  <2> QED
    BY <1>3, <2>1, <2>2, LaterLives DEF FirstLife, StoreInv
<1>4. CASE ~(Len(events) < slots[s].revision) /\ FirstLife
  <2> DEFINE now == row.projection
             n == slots[s].revision
             room == [status |-> slots[s].status, base |-> slots[s].base, log |-> SubSeq(events, 1, n)]
  <2>1. StateOK(slots[s], Room) /\ slots[s].phase = "events"
    BY <1>4 DEF ReadEvents, StoreInv
  <2>2. n \in Nat \ {0}
    BY <2>1 DEF StateOK
  <2>3. row # NoRoom
    <3>1. events # << >>
      BY <1>4, <2>2
    <3>2. Stored(row.projection)
      BY <1>4, <3>1 DEF StoreInv, NothingStored
    <3> QED
      BY <3>2, StoredIsCommitted
  <2>4. Stored(now) /\ creations = 1 /\ Room = now /\ now \in Rooms
    BY <1>4, <2>3, FirstLifeStored
  <2>5. /\ events = now.log /\ now # NoRoom /\ now.log \in Seq(LogEntries)
        /\ n <= Len(now.log) /\ n <= Len(now.log)
        /\ slots[s].status = StatusThrough(SubSeq(now.log, 1, n)) /\ slots[s].base = now.base
    BY <2>1, <2>4, RoomsAreNotNull DEF StateOK, Stored
  <2> HIDE DEF now, n
  <2>6. SubSeq(now.log, 1, n) \in Seq(LogEntries) /\ Len(SubSeq(now.log, 1, n)) = n
    BY <2>2, <2>5, PrefixOfLog
  <2>7. Earlier(room, now)
    <3>1. /\ room.log = SubSeq(now.log, 1, n)
          /\ room.status = StatusThrough(room.log) /\ room.base = now.base
      BY <2>5
    <3> QED
      BY <2>2, <2>5, <2>6, <3>1 DEF Earlier
  <2>8. HasRead(s, room)
    BY <1>4 DEF ReadEvents, n
  <2> HIDE DEF room
  <2>9. PICK state : StateOK(state, now) /\ Becomes(s, state)
    BY <2>4, <2>7, <2>8, ReadsGoOn
  <2> QED
    BY <2>4, <2>9, QuietRequest
<1> QED
  BY <1>2, <1>3, <1>4

LEMMA BeginCreateOK ==
  ASSUME StoreInv, NEW s \in Slots, BeginCreate(s)
  PROVE  StepOK
<1>1. PICK new \in Bases : Becomes(s, [phase |-> "insert", base |-> new])
  BY DEF BeginCreate
<1>2. StateOK([phase |-> "insert", base |-> new], Room)
  BY DEF StateOK
<1> QED
  BY <1>1, <1>2, QuietRequest

LEMMA LocksOK ==
  ASSUME StoreInv, UNCHANGED <<row, snapshots, events, slots, creations>>
  PROVE  StepOK
<1>1. FirstLife => \A s \in Slots : StateOK(slots'[s], Room)
  BY DEF StoreInv
<1>2. creations = 0 => \A s \in Slots : slots'[s].phase \in {"idle", "insert"}
  BY DEF StoreInv, FirstLife
<1> QED
  BY <1>1, <1>2, QuietStep DEF StoreInv

-----------------------------------------------------------------------------
(* The three statements that change what is stored.                        *)

LEMMA NewRooms ==
  ASSUME NEW base \in Bases
  PROVE  /\ Consistent(Log!Created(base)) /\ Len(Log!Created(base).log) = 1
         /\ Snapshot(Log!Created(base)) = SnapshotOf(Log!Created(base), 1)
<1> DEFINE new == Log!Created(base)
<1>1. /\ new.log \in Seq(LogEntries) /\ Len(new.log) = 1
      /\ new.status = NewStatus /\ new.base = base /\ new \in Rooms
  BY BoundsTyped DEF Log!Created, Log!Event, LogEntries, Rooms
<1>2. StatusThrough(new.log) = NewStatus
  BY <1>1, StatusOfNew
<1> HIDE DEF new
<1>3. Consistent(new)
  BY <1>1, <1>2 DEF Consistent
<1>4. SubSeq(new.log, 1, 1) = new.log
  BY <1>1, WholeLog
<1>5. Snapshot(new) = SnapshotOf(new, 1)
  BY <1>1, <1>2, <1>4 DEF Snapshot, SnapshotOf
<1> QED
  BY <1>1, <1>3, <1>5 DEF new

\* StoredIsCommitted of the next state.
LEMMA StoredIsCommittedAlways == \A room : Stored(room) => CommittedRoom = room
BY StoredIsCommitted

LEMMA StoredIsCommittedNext == (\A room : Stored(room) => CommittedRoom = room)'
BY StoredIsCommittedAlways, PTL

LEMMA InsertOK ==
  ASSUME StoreInv, NEW s \in Slots, InsertRoom(s)
  PROVE  StepOK
<1>1. Goes(s, Idle)
  BY DEF InsertRoom
<1>2. CASE row # NoRoom
  <2>1. Becomes(s, Idle)
    BY <1>1, <1>2 DEF InsertRoom, Becomes
  <2> QED
    BY <2>1, IdleIsFine, QuietRequest
<1>3. CASE row = NoRoom
  <2> DEFINE new == Log!Created(slots[s].base)
  <2>1. /\ creations' = creations + 1
        /\ row' = [revision |-> 1, status |-> new.status, projection |-> new]
        /\ snapshots' = {Snapshot(new)}
        /\ events' = new.log
    BY <1>3 DEF InsertRoom
  <2>2. /\ DOMAIN slots' = Slots
        /\ \A t \in Slots : slots'[t] = IF t = s THEN Idle ELSE slots[t]
    BY <1>1, Goings DEF StoreInv
  <2>3. CASE ~FirstLife'
    BY <2>1, <2>2, <2>3, LaterLives DEF StoreInv
  <2>4. CASE FirstLife'
    <3>1. creations = 0 /\ creations' = 1 /\ FirstLife
      BY <2>1, <2>4 DEF StoreInv, FirstLife
    <3>2. slots[s].base \in Bases
      BY <3>1 DEF StoreInv, StateOK, InsertRoom
    <3>3. Consistent(new) /\ Len(new.log) = 1 /\ Snapshot(new) = SnapshotOf(new, 1)
      BY <3>2, NewRooms
    <3>4. PICK room : room = new
      OBVIOUS
    <3> HIDE DEF new
    <3>5. Stored(room)'
      <4>1. Consistent(room) /\ Len(room.log) = 1 /\ snapshots' = {SnapshotOf(room, 1)}
        BY <2>1, <3>3, <3>4
      <4>2. SnapshotsShow(room)'
        <5>1. SnapshotOf(room, 1).revision = 1
          BY DEF SnapshotOf
        <5> QED
          BY <4>1, <5>1 DEF SnapshotsShow
      <4> QED
        BY <2>1, <3>4, <4>1, <4>2 DEF Stored
    <3>6. row'.projection = room
      BY <2>1, <3>4
    <3>7. ASSUME NEW t \in Slots
          PROVE  StateOK(slots'[t], Room') /\ slots'[t].phase \in {"idle", "insert"}
      <4>1. StateOK(slots[t], Room) /\ slots[t].phase \in {"idle", "insert"}
        BY <3>1 DEF StoreInv
      <4>2. CASE t = s
        BY <2>2, <4>2, IdleIsFine
      <4>3. CASE t # s
        <5>1. slots'[t] = slots[t]
          BY <2>2, <4>3
        <5>2. StateOK(slots[t], Room')
          BY <4>1 DEF StateOK
        <5> QED
          BY <4>1, <5>1, <5>2
      <4> QED
        BY <4>2, <4>3
    <3>8. StoreInv'
      BY <2>2, <3>1, <3>4, <3>5, <3>6, <3>7 DEF StoreInv
    <3>9. CommittedRoom = NoRoom /\ CommittedRoom' = room
      BY <1>3, <3>5, StoredIsCommittedNext DEF CommittedRoom
    <3>10. Log!Create
      BY <3>2, <3>4, <3>9 DEF Log!Create, new
    <3> QED
      BY <3>8, <3>10 DEF StepOK, Log!Next
  <2> QED
    BY <2>3, <2>4
<1> QED
  BY <1>2, <1>3

LEMMA DeleteOK ==
  ASSUME StoreInv, NEW s \in Slots, DeleteRoom(s)
  PROVE  StepOK
<1>1. Goes(s, Idle) /\ UNCHANGED creations
  BY DEF DeleteRoom
<1>2. /\ DOMAIN slots' = Slots
      /\ \A t \in Slots : slots'[t] = IF t = s THEN Idle ELSE slots[t]
  BY <1>1, Goings DEF StoreInv
<1>3. CASE UNCHANGED <<row, snapshots, events>>
  <2>1. Becomes(s, Idle)
    BY <1>1, <1>3 DEF Becomes
  <2> QED
    BY <2>1, IdleIsFine, QuietRequest
<1>4. CASE /\ row # NoRoom /\ Cancellable(CommittedRoom)
           /\ row' = NoRoom /\ snapshots' = {} /\ events' = << >>
  <2>1. CASE ~FirstLife'
    BY <1>1, <1>2, <2>1, LaterLives DEF StoreInv
  <2>2. CASE FirstLife'
    <3>1. FirstLife /\ creations = 1
      BY <1>1, <1>4, <2>2, FirstLifeStored DEF FirstLife
    <3>2. Room' = NoRoom /\ CommittedRoom' = NoRoom
      BY <1>4 DEF Room, CommittedRoom
    <3>3. ASSUME NEW t \in Slots PROVE StateOK(slots'[t], NoRoom)
      <4>1. StateOK(slots[t], Room)
        BY <3>1 DEF StoreInv
      <4>2. StateOK(slots[t], NoRoom)
        BY <4>1 DEF StateOK, Earlier
      <4> QED
        BY <1>2, <4>2, IdleIsFine
    <3>4. StoreInv'
      BY <1>1, <1>2, <1>4, <3>1, <3>2, <3>3 DEF StoreInv, NothingStored
    <3>5. CommittedRoom # NoRoom
      BY <1>4, <3>1, FirstLifeStored, StoredIsCommitted
    <3>6. Log!Cancel
      BY <1>4, <3>2, <3>5 DEF Log!Cancel
    <3> QED
      BY <3>4, <3>6 DEF StepOK, Log!Next
  <2> QED
    BY <2>1, <2>2
<1> QED
  BY <1>3, <1>4 DEF DeleteRoom

LEMMA Appends ==
  ASSUME NEW log \in Seq(LogEntries), NEW event \in LogEntries
  PROVE  /\ Append(log, event) \in Seq(LogEntries) /\ Len(Append(log, event)) = Len(log) + 1
         /\ Append(log, event)[Len(log) + 1] = event
         /\ \A i \in 1..Len(log) : Append(log, event)[i] = log[i]
         /\ \A n \in 1..Len(log) : SubSeq(Append(log, event), 1, n) = SubSeq(log, 1, n)
<1> DEFINE longer == Append(log, event)
<1>1. /\ longer \in Seq(LogEntries) /\ Len(longer) = Len(log) + 1 /\ Len(log) \in Nat
      /\ longer[Len(log) + 1] = event
      /\ \A i \in 1..Len(log) : longer[i] = log[i]
  OBVIOUS
<1> HIDE DEF longer
<1>2. ASSUME NEW n \in 1..Len(log) PROVE SubSeq(longer, 1, n) = SubSeq(log, 1, n)
  <2>1. /\ SubSeq(longer, 1, n) \in Seq(LogEntries) /\ Len(SubSeq(longer, 1, n)) = n
        /\ \A i \in 1..n : SubSeq(longer, 1, n)[i] = longer[i]
    BY <1>1, PrefixOfLog
  <2>2. /\ SubSeq(log, 1, n) \in Seq(LogEntries) /\ Len(SubSeq(log, 1, n)) = n
        /\ \A i \in 1..n : SubSeq(log, 1, n)[i] = log[i]
    BY <1>1, PrefixOfLog
  <2> QED
    BY <1>1, <2>1, <2>2, SeqEqual
<1> QED
  BY <1>1, <1>2 DEF longer

\* A new event on a consistent room makes a consistent room, of which every
\* request still holds an earlier state.
LEMMA RoomAfterEvent ==
  ASSUME NEW room, Consistent(room), NEW event \in LogEntries, event.command \in Commands,
         event.key \notin Log!KeysOf(room.log)
  PROVE  LET new == Log!After(room, event)
         IN  /\ Consistent(new) /\ new.log = Append(room.log, event) /\ new.base = room.base
             /\ \A state : StateOK(state, room) => StateOK(state, new)
<1> DEFINE new == Log!After(room, event)
<1>1. /\ room \in Rooms /\ room # NoRoom /\ room.log \in Seq(LogEntries)
      /\ Len(room.log) \in Nat /\ Len(room.log) >= 1
  BY RoomsAreNotNull DEF Consistent
<1>2. /\ new.log = Append(room.log, event) /\ new.base = room.base
      /\ new.status = StatusAfter(room.status, event.command)
  BY DEF Log!After
<1>3. /\ new.log \in Seq(LogEntries) /\ Len(new.log) = Len(room.log) + 1
      /\ new.log[Len(room.log) + 1] = event
      /\ \A i \in 1..Len(room.log) : new.log[i] = room.log[i]
      /\ \A n \in 1..Len(room.log) : SubSeq(new.log, 1, n) = SubSeq(room.log, 1, n)
  BY <1>1, <1>2, Appends
<1>4. new.status = StatusThrough(new.log)
  BY <1>1, <1>2, StatusOfLonger DEF Consistent
<1>5. new \in Rooms
  <2>1. room.status \in Statuses /\ room.base \in Bases
    BY <1>1 DEF Rooms
  <2>2. StatusAfter(room.status, event.command) \in Statuses
    BY <2>1, BoundsTyped
  <2> QED
    BY <2>1, <2>2, <1>2, <1>3 DEF Log!After, Rooms
<1> HIDE DEF new
<1>6. ASSUME NEW i \in DOMAIN new.log, NEW j \in DOMAIN new.log, new.log[i].key = new.log[j].key
      PROVE  i = j
  <2>1. i \in 1..(Len(room.log) + 1) /\ j \in 1..(Len(room.log) + 1)
    BY <1>3
  <2>2. \A k \in 1..Len(room.log) : new.log[k].key # event.key
    BY <1>1, <1>3 DEF Log!KeysOf
  <2>3. CASE i \in 1..Len(room.log) /\ j \in 1..Len(room.log)
    BY <1>1, <1>3, <1>6, <2>3 DEF Consistent
  <2> QED
    BY <1>1, <1>3, <1>6, <2>1, <2>2, <2>3
<1>7. Consistent(new)
  BY <1>1, <1>3, <1>4, <1>5, <1>6 DEF Consistent
<1>8. ASSUME NEW state, StateOK(state, room) PROVE StateOK(state, new)
  <2>1. new # NoRoom
    BY <1>5, RoomsAreNotNull
  <2>2. ASSUME state.phase \in {"base", "events"}
        PROVE  /\ state.revision <= Len(new.log)
               /\ state.status = StatusThrough(SubSeq(new.log, 1, state.revision))
    <3>1. PICK n \in 1..Len(room.log) :
              state.revision = n /\ state.status = StatusThrough(SubSeq(room.log, 1, n))
      BY <1>1, <1>8, <2>2 DEF StateOK
    <3>2. n <= Len(new.log) /\ SubSeq(new.log, 1, n) = SubSeq(room.log, 1, n)
      BY <1>1, <1>3
    <3> QED
      BY <3>1, <3>2
  <2>3. ASSUME state.phase \in {"read", "write"} PROVE Earlier(state.room, new)
    <3>1. Earlier(state.room, room)
      BY <1>8, <2>3 DEF StateOK
    <3>2. /\ Len(state.room.log) \in 1..Len(room.log)
          /\ state.room.log = SubSeq(room.log, 1, Len(state.room.log))
      BY <1>1, <3>1 DEF Earlier
    <3>3. /\ Len(state.room.log) <= Len(new.log)
          /\ state.room.log = SubSeq(new.log, 1, Len(state.room.log))
      BY <1>1, <1>3, <3>2
    <3> QED
      BY <1>1, <1>2, <3>1, <3>3 DEF Earlier
  <2>4. ASSUME state.phase = "answered" PROVE Recorded(state.request, new.log)
    <3>1. Recorded(state.request, room.log)
      BY <1>1, <1>8, <2>4 DEF StateOK
    <3> QED
      BY <1>1, <1>3, <3>1 DEF Recorded
  <2> QED
    BY <1>1, <1>2, <1>8, <2>1, <2>2, <2>3, <2>4 DEF StateOK
<1> QED
  BY <1>2, <1>7, <1>8 DEF new

LEMMA SnapshotsAfterEvent ==
  ASSUME NEW room, Stored(room), NEW event \in LogEntries,
         NEW new, Consistent(new), new.log = Append(room.log, event), new.base = room.base,
         snapshots' = SnapshotsWith(new)
  PROVE  SnapshotsShow(new)'
<1>1. /\ room.log \in Seq(LogEntries) /\ Len(room.log) \in Nat /\ Len(room.log) >= 1
      /\ Oldest = SnapshotOf(room, 1)
  BY NewestAndOldest, RoomsAreNotNull DEF Stored, Consistent
<1>2. /\ new.log \in Seq(LogEntries) /\ Len(new.log) = Len(room.log) + 1
      /\ \A n \in 1..Len(room.log) : SubSeq(new.log, 1, n) = SubSeq(room.log, 1, n)
  BY <1>1, Appends
<1>3. \A n \in 1..Len(room.log) : SnapshotOf(new, n) = SnapshotOf(room, n)
  BY <1>2 DEF SnapshotOf
<1>4. Snapshot(new) = SnapshotOf(new, Len(new.log))
  BY <1>1, <1>2, WholeLog DEF Snapshot, SnapshotOf, Consistent
<1>5. \A n : SnapshotOf(new, n).revision = n
  BY DEF SnapshotOf
<1>6. Oldest = SnapshotOf(new, 1) /\ Oldest \in snapshots
  BY <1>1, <1>3 DEF Stored, SnapshotsShow
<1>7. \A s \in snapshots : s.revision \in 1..Len(room.log) /\ s = SnapshotOf(room, s.revision)
  BY DEF Stored, SnapshotsShow
<1>8. {SnapshotOf(new, 1), SnapshotOf(new, Len(new.log))} \subseteq snapshots'
  BY <1>1, <1>2, <1>4, <1>5, <1>6 DEF SnapshotsWith, SnapshotWindow
<1>9. ASSUME NEW s \in snapshots'
      PROVE  /\ s.revision \in 1..Len(new.log) /\ s = SnapshotOf(new, s.revision)
             /\ s.revision = 1 \/ s.revision >= Len(new.log) - SnapshotWindow + 1
  <2>1. s \in snapshots \/ s = SnapshotOf(new, Len(new.log))
    BY <1>4 DEF SnapshotsWith
  <2>2. s.revision \in 1..Len(new.log) /\ s = SnapshotOf(new, s.revision)
    BY <1>1, <1>2, <1>3, <1>5, <1>7, <2>1
  <2>3. s = Oldest \/ s.revision >= Len(new.log) - SnapshotWindow + 1
    BY DEF SnapshotsWith
  <2> QED
    BY <1>5, <1>6, <2>2, <2>3
<1> QED
  BY <1>8, <1>9 DEF SnapshotsShow

LEMMA WriteOK ==
  ASSUME StoreInv, NEW s \in Slots, WriteEvent(s)
  PROVE  StepOK
<1> DEFINE request == slots[s].request
           event == EventOf(s)
           written == Log!After(slots[s].room, event)
<1>1. CASE Becomes(s, Idle)
  BY <1>1, IdleIsFine, QuietRequest
<1>2. CASE /\ row # NoRoom /\ row.revision = Len(slots[s].room.log)
           /\ request.key \notin Log!KeysOf(events)
           /\ row' = [revision |-> Len(written.log), status |-> written.status,
                      projection |-> written]
           /\ events' = Append(events, event)
           /\ Goes(s, Answered(request))
           /\ snapshots' = SnapshotsWith(written)
           /\ UNCHANGED creations
  <2>1. /\ DOMAIN slots' = Slots
        /\ \A t \in Slots : slots'[t] = IF t = s THEN Answered(request) ELSE slots[t]
    BY <1>2, Goings DEF StoreInv
  <2>2. CASE ~FirstLife'
    BY <1>2, <2>1, <2>2, LaterLives DEF StoreInv
  <2>3. CASE FirstLife'
    <3> DEFINE now == row.projection
    <3>1. FirstLife
      BY <1>2, <2>3 DEF FirstLife
    <3>2. /\ Stored(now) /\ creations = 1 /\ Room = now /\ CommittedRoom = now
          /\ now \in Rooms /\ Consistent(now) /\ events = now.log /\ row.revision = Len(now.log)
      BY <1>2, <3>1, FirstLifeStored DEF Stored
    <3>3. StateOK(slots[s], now) /\ slots[s].phase = "write"
      BY <3>1, <3>2 DEF StoreInv, WriteEvent
    <3>4. now # NoRoom /\ now.log \in Seq(LogEntries)
      BY <3>2, RoomsAreNotNull
    <3>5. slots[s].room = now
      <4>1. Earlier(slots[s].room, now)
        BY <3>3 DEF StateOK
      <4>2. slots[s].room.log = now.log
        BY <1>2, <3>2, <3>4, <4>1, WholeLog DEF Earlier
      <4>3. now = [status |-> now.status, base |-> now.base, log |-> now.log]
        BY <3>2 DEF Rooms
      <4> QED
        BY <3>2, <3>4, <4>1, <4>2, <4>3 DEF Earlier, Consistent
    <3>6. request \in Requests /\ Expects(request, now) /\ Accepts(now, request.command)
      BY <3>3, <3>5 DEF StateOK
    <3>7. event = Log!Event(request.command, request.key, Len(now.log))
      <4>1. CASE request.command \in SeasonCommands
        BY <3>5, <4>1 DEF EventOf
      <4>2. CASE request.command \notin SeasonCommands
        <5>1. request.expected \in Nat
          BY <3>6, <4>2, BoundsTyped DEF Requests
        <5>2. request.expected = Len(now.log)
          BY <3>6, <5>1, BoundsTyped DEF Expects
        <5> QED
          BY <4>2, <5>2 DEF EventOf
      <4> QED
        BY <4>1, <4>2
    <3>8. request.command \in Commands /\ request.key \in Keys
      BY <3>6, BoundsTyped DEF Requests
    <3>9. /\ event \in LogEntries /\ event.command = request.command /\ event.key = request.key
      BY <3>4, <3>7, <3>8 DEF Log!Event, LogEntries
    <3>10. written = Log!After(now, event)
      BY <3>5
    <3>11. PICK room, e, new, r : room = now /\ e = event /\ new = Log!After(room, e) /\ r = request
      OBVIOUS
    <3> HIDE DEF now, event, request
    <3>12. /\ Consistent(new) /\ new.log = Append(room.log, e) /\ new.base = room.base
           /\ \A state : StateOK(state, room) => StateOK(state, new)
      BY <1>2, <3>2, <3>8, <3>9, <3>11, RoomAfterEvent
    <3>13. new = written
      BY <3>10, <3>11
    <3> HIDE DEF written
    <3>14. SnapshotsShow(new)'
      BY <1>2, <3>2, <3>9, <3>11, <3>12, <3>13, SnapshotsAfterEvent
    <3>15. Stored(new)' /\ row'.projection = new
      BY <1>2, <3>2, <3>11, <3>12, <3>13, <3>14 DEF Stored
    <3>16. CommittedRoom' = new
      BY <3>15, StoredIsCommittedNext
    <3>17. Room' = new
      <4>1. row' # NoRoom
        <5>1. new \in Rooms /\ Len(new.log) \in Nat
          BY <3>12, RoomsAreNotNull DEF Consistent
        <5>2. row' = [revision |-> Len(new.log), status |-> new.status, projection |-> new]
          BY <1>2, <3>13
        <5>3. row' \in [revision : Nat, status : Statuses, projection : Rooms]
          BY <5>1, <5>2 DEF Rooms
        <5> QED
          BY <5>3, NullIsNoRoom
      <4> QED
        BY <3>15, <4>1 DEF Room
    <3>18. Recorded(r, new.log)
      <4>1. /\ Append(room.log, e) \in Seq(LogEntries)
            /\ Len(Append(room.log, e)) = Len(room.log) + 1
            /\ Append(room.log, e)[Len(room.log) + 1] = e /\ Len(room.log) \in Nat
        BY <3>4, <3>9, <3>11, Appends
      <4> QED
        BY <3>9, <3>11, <3>12, <4>1 DEF Recorded
    <3>19. ASSUME NEW t \in Slots PROVE StateOK(slots'[t], new)
      <4>1. CASE t = s
        <5>1. StateOK(Answered(r), new)
          BY <3>18 DEF StateOK, Answered
        <5> QED
          BY <2>1, <3>11, <4>1, <5>1
      <4>2. CASE t # s
        BY <2>1, <3>1, <3>2, <3>11, <3>12, <4>2 DEF StoreInv
      <4> QED
        BY <4>1, <4>2
    <3>20. StoreInv'
      BY <1>2, <2>1, <3>2, <3>15, <3>17, <3>19 DEF StoreInv
    <3>21. Log!Record
      <4>1. CommittedRoom = room /\ room # NoRoom
        BY <3>2, <3>4, <3>11
      <4>2. r.key \notin Log!KeysOf(room.log) /\ Accepts(room, r.command)
        BY <1>2, <3>2, <3>6, <3>11
      <4>3. CommittedRoom' = Log!After(room, Log!Event(r.command, r.key, Len(room.log)))
        BY <3>7, <3>11, <3>16
      <4> QED
        BY <3>8, <3>11, <4>1, <4>2, <4>3 DEF Log!Record
    <3> QED
      BY <3>20, <3>21 DEF StepOK, Log!Next
  <2> QED
    BY <2>2, <2>3
<1> QED
  BY <1>1, <1>2 DEF WriteEvent

-----------------------------------------------------------------------------
(* The theorems.                                                           *)

LEMMA InitOK == Init => StoreInv /\ Log!Init
<1> SUFFICES ASSUME Init PROVE StoreInv /\ Log!Init
  OBVIOUS
<1>1. \A s \in Slots : slots[s] = Idle
  BY DEF Init
<1>2. StoreInv
  BY <1>1, IdleIsFine DEF Init, StoreInv, NothingStored
<1> QED
  BY <1>2 DEF Init, Log!Init, CommittedRoom

LEMMA NextOK == StoreInv /\ [Next]_vars => StepOK
<1> SUFFICES ASSUME StoreInv, [Next]_vars PROVE StepOK
  OBVIOUS
<1>1. CASE UNCHANGED vars
  BY <1>1, LocksOK DEF vars
<1>2. ASSUME NEW s \in Slots, TakeSeasonLock(s) \/ MissSeasonLock(s) PROVE StepOK
  BY <1>2, LocksOK DEF TakeSeasonLock, MissSeasonLock
<1>3. ASSUME NEW s \in Slots, Abort(s) PROVE StepOK
  BY <1>3, IdleIsFine, QuietRequest DEF Abort
<1>4. CASE Next
  BY <1>2, <1>3, <1>4, ReadNewestOK, ReadBaseOK, ReadEventsOK, BeginCreateOK, InsertOK, WriteOK,
     DeleteOK DEF Next
<1> QED
  BY <1>1, <1>4

\* StoreInv, from which the other theorems follow, is an invariant of the store:
\* row, log and snapshots are of one room (insertDraftRoom, updateDraftRoomRevision,
\* insertDraftRoomSnapshot), and what requests have read is an earlier state of it.
THEOREM StoreInvariant == Spec => []StoreInv
<1>1. Init => StoreInv
  BY InitOK
<1>2. StoreInv /\ [Next]_vars => StoreInv'
  BY NextOK DEF StepOK
<1> QED
  BY <1>1, <1>2, PTL DEF Spec

\* The store implements RoomLog: however the statements of requests interleave,
\* retry and die, the room that the full snapshot and the events amount to takes
\* only the steps of one log, until its id is used again.
THEOREM StoreImplementsLog == Spec /\ []FirstLife => ImplementsLog
<1>1. Init => Log!Init
  BY InitOK
<1>2. StoreInv /\ [Next]_vars => (FirstLife' => [Log!Next]_CommittedRoom)
  BY NextOK DEF StepOK
<1> QED
  BY <1>1, <1>2, StoreInvariant, PTL DEF Spec, ImplementsLog, Log!Spec

\* The stored projection is the room that the snapshot and the log replay to.
THEOREM ProjectionsReplay == Spec => [](FirstLife => ProjectionIsReplay)
<1>1. StoreInv => (FirstLife => ProjectionIsReplay)
  BY FirstLifeStored DEF ProjectionIsReplay
<1> QED
  BY <1>1, StoreInvariant, PTL

\* The snapshots that are left while the draft goes on suffice to read the room,
\* and they are never more than the window and the first.
THEOREM RoomsAreReadable == Spec => [](FirstLife => RoomsStayReadable)
<1>1. ASSUME StoreInv, FirstLife, row # NoRoom PROVE RoomsStayReadable
  <2> DEFINE now == row.projection
             last == Len(now.log)
             kept == {1, last - 1, last}
  <2>1. Stored(now) /\ now \in Rooms /\ last \in Nat
    BY <1>1, FirstLifeStored, RoomsAreNotNull
  <2>2. Newest = SnapshotOf(now, last) /\ Oldest = SnapshotOf(now, 1) /\ Base = now.base
    BY <2>1, NewestAndOldest, StoredIsCommitted
  <2>3. SubSeq(now.log, 1, last) = now.log
    BY <2>1, WholeLog, RoomsAreNotNull
  <2>4. Newest.revision = row.revision /\ Newest.status = row.status
    <3>1. row.revision = last /\ row.status = now.status /\ now.status = StatusThrough(now.log)
      BY <2>1 DEF Stored, Consistent
    <3>2. Newest.revision = last /\ Newest.status = StatusThrough(SubSeq(now.log, 1, last))
      BY <2>2 DEF SnapshotOf
    <3> HIDE DEF now, last
    <3> QED
      BY <2>3, <3>1, <3>2
  <2>5. Oldest.revision = 1 /\ Base # NoRoom
    BY <2>1, <2>2, RoomsAreNotNull DEF SnapshotOf
  <2>6. Cardinality(snapshots) <= SnapshotWindow + 1
    <3>1. \A s \in snapshots : s.revision \in kept /\ s = SnapshotOf(now, s.revision)
      BY <2>1 DEF Stored, SnapshotsShow, SnapshotWindow
    <3>2. IsFiniteSet(kept) /\ Cardinality(kept) <= 3
      <4>1. IsFiniteSet({1}) /\ Cardinality({1}) = 1
        BY FS_Singleton
      <4> DEFINE two == {1} \cup {last - 1}
      <4>2. IsFiniteSet(two) /\ Cardinality(two) \in Nat /\ Cardinality(two) <= 2
        BY <4>1, FS_AddElement
      <4>3. kept = two \cup {last}
        OBVIOUS
      <4> HIDE DEF two, kept
      <4>4. IsFiniteSet(two \cup {last}) /\ Cardinality(two \cup {last}) <= Cardinality(two) + 1
        BY <4>2, FS_AddElement
      <4>5. Cardinality(two \cup {last}) \in Nat
        BY <4>4, FS_CardinalityType
      <4> QED
        BY <4>2, <4>3, <4>4, <4>5
    <3> DEFINE f == [s \in snapshots |-> s.revision]
    <3>3. f \in Injection(snapshots, kept)
      BY <3>1 DEF Injection, IsInjective
    <3>4. IsFiniteSet(snapshots) /\ Cardinality(snapshots) <= Cardinality(kept)
      BY <3>2, <3>3, FS_Injection
    <3>5. Cardinality(snapshots) \in Nat /\ Cardinality(kept) \in Nat
      BY <3>2, <3>4, FS_CardinalityType
    <3> QED
      BY <3>2, <3>4, <3>5 DEF SnapshotWindow
  <2> QED
    BY <2>4, <2>5, <2>6 DEF RoomsStayReadable
<1>2. StoreInv => (FirstLife => RoomsStayReadable)
  BY <1>1 DEF RoomsStayReadable
<1> QED
  BY <1>2, StoreInvariant, PTL

\* A room read in three statements is a room that was committed at one moment.
THEOREM ReadsAreCommitted == Spec => [](FirstLife => ReadsWereCommitted)
<1>1. ASSUME StoreInv, FirstLife, NEW s \in Slots, slots[s].phase = "read"
      PROVE  LET room == slots[s].room
             IN  /\ room.status = StatusThrough(room.log)
                 /\ row # NoRoom => room.base = Base /\ Prefix(room.log, events)
  <2>1. Earlier(slots[s].room, Room)
    BY <1>1 DEF StoreInv, StateOK
  <2>2. slots[s].room.status = StatusThrough(slots[s].room.log)
    BY <2>1 DEF Earlier
  <2>3. ASSUME row # NoRoom
        PROVE  slots[s].room.base = Base /\ Prefix(slots[s].room.log, events)
    <3>1. /\ Stored(row.projection) /\ Room = row.projection
          /\ events = Room.log /\ Base = Room.base /\ Room # NoRoom
      BY <1>1, <2>3, FirstLifeStored, StoredIsCommitted DEF Stored
    <3> QED
      BY <2>1, <3>1 DEF Earlier, Prefix
  <2> QED
    BY <2>2, <2>3
<1>2. StoreInv => (FirstLife => ReadsWereCommitted)
  BY <1>1 DEF ReadsWereCommitted
<1> QED
  BY <1>2, StoreInvariant, PTL

\* A request answered as done is in the log exactly once.
THEOREM AnswersAreOnce == Spec => [](FirstLife => AnsweredOnce)
<1>1. ASSUME StoreInv, FirstLife, NEW s \in Slots, slots[s].phase = "answered", row # NoRoom
      PROVE  LET request == slots[s].request
             IN  Cardinality({i \in DOMAIN events :
                    events[i].key = request.key /\ events[i].command = request.command}) = 1
  <2> DEFINE request == slots[s].request
             found == {i \in DOMAIN events :
                        events[i].key = request.key /\ events[i].command = request.command}
  <2>1. /\ Stored(row.projection) /\ Room = row.projection /\ events = Room.log /\ Room # NoRoom
        /\ \A i, j \in DOMAIN events : events[i].key = events[j].key => i = j
    BY <1>1, FirstLifeStored, StoredIsCommitted DEF Stored, Consistent
  <2>2. Recorded(request, events)
    BY <1>1, <2>1 DEF StoreInv, StateOK
  <2>3. PICK i \in found : TRUE
    BY <2>2 DEF Recorded
  <2>4. found = {i}
    BY <2>1, <2>3
  <2> QED
    BY <2>4, FS_Singleton
<1>2. StoreInv => (FirstLife => AnsweredOnce)
  BY <1>1 DEF AnsweredOnce
<1> QED
  BY <1>2, StoreInvariant, PTL
=============================================================================
