------------------------- MODULE MockSessions_proofs -------------------------
(***************************************************************************)
(* For any seasons, requests, commands, drafts, limits and times: the      *)
(* types, the limits on open sessions, the rate of creations and the       *)
(* replays of checked commands, as theorems of MockSpec.                   *)
(*                                                                         *)
(* The rate is one of stored sessions, and the property one of creations.  *)
(* It needs that a session is deleted only when its creation left the      *)
(* window, which follows from the retention being longer, and from the     *)
(* dates in a row being in order; hence History.  A replay is of the log a *)
(* request loaded, and what it says of the log the command is appended to  *)
(* needs that a log only grows within a revision, and revisions within a   *)
(* session; hence what RequestOK says of revision, log and count.          *)
(***************************************************************************)
EXTENDS MockSessions, FiniteSetTheorems, TLAPS

Ended == {"abandoned", "completed"}
Dated(row) ==
    /\ row.createdAt <= row.updatedAt
    /\ row.status \in Ended => row.createdAt <= row.endedAt

\* A row, if there is one, is of the creation with its number, and a creation
\* whose row is gone left the window of all transactions to come.
History ==
    /\ Len(creations) <= MaxSessions
    /\ \A i \in DOMAIN creations : creations[i].at <= pruned
    /\ pruned <= clock
    /\ \A s \in Ids : sessions[s].status # "none" =>
        /\ s \in DOMAIN creations
        /\ sessions[s].createdAt = creations[s].at
        /\ Dated(sessions[s])
    /\ \A i \in DOMAIN creations :
        sessions[i].status = "none" => creations[i].at + Window <= pruned

IsPrefixOf(short, log) ==
    Len(short) <= Len(log) /\ \A i \in 1..Len(short) : short[i] = log[i]

Lookups == {"retry"}
Writes == {"append", "complete", "reset", "abandon"}

\* What a request knows of the session it is about.
RequestOK(r) ==
    /\ r \in Requests
    /\ r.now <= clock
    /\ r.op \in Lookups \cup Writes => r.session \in DOMAIN creations
    /\ r.op \in Writes => creations[r.session].at <= r.now
    /\ r.op \in {"retry", "append"} => r.command \in Commands
    /\ r.op = "retry" /\ sessions[r.session].status # "none" =>
        /\ r.revision <= sessions[r.session].revision
        /\ r.revision = sessions[r.session].revision => IsPrefixOf(r.log, sessions[r.session].log)
    /\ r.op = "append" /\ r.command.checked /\ sessions[r.session].status # "none" =>
        /\ r.revision <= sessions[r.session].revision
        /\ r.revision = sessions[r.session].revision =>
            /\ r.count <= Len(sessions[r.session].log)
            /\ r.count = Len(sessions[r.session].log) =>
                Replays(Append(TextsOf(sessions[r.session].log), r.command.text))

LogReplays(log) ==
    \A i \in DOMAIN log : log[i].checked => Replays(TextsOf(SubSeq(log, 1, i)))

MockInv ==
    /\ MockTypeOK
    /\ History
    /\ \A p \in Slots : RequestOK(requests[p])
    /\ ActiveWithinLimits
    /\ CreationsWithinRate
    /\ CheckedCommandsReplay

-----------------------------------------------------------------------------
(* What a transaction may make of a row.                                   *)

\* It deletes the row when the creation left the window, or keeps its dates in
\* order; the log grows, or starts over under a higher revision.
Follows(s, old, new, time) ==
    /\ new \in Sessions
    /\ Len(new.log) <= MaxCommands
    /\ LogReplays(new.log)
    /\ \/ new.status = "none" /\ (old.status = "none" \/ old.createdAt + Window <= time)
       \/ /\ old.status # "none" /\ new.status # "none"
          /\ new.createdAt = old.createdAt
          /\ Dated(new)
          /\ \/ new.revision = old.revision /\ IsPrefixOf(old.log, new.log)
             \/ new.revision > old.revision

LEMMA NoSessionTyped == NoSession \in Sessions /\ Len(NoSession.log) = 0 /\ NoSession.log = << >>
  BY DEF NoSession, Sessions

\* A row that is pruned keeps all that the properties look at, or is gone.
LEMMA PrunedRow ==
    ASSUME MockInv, NEW now \in Nat, NEW s \in Ids
    PROVE  /\ Pruned(now)[s] \in Sessions
           /\ \/ Pruned(now)[s].status = "none"
              \/ /\ sessions[s].status # "none"
                 /\ Pruned(now)[s].season = sessions[s].season
                 /\ Pruned(now)[s].revision = sessions[s].revision
                 /\ Pruned(now)[s].log = sessions[s].log
                 /\ Pruned(now)[s].createdAt = sessions[s].createdAt
                 /\ Dated(Pruned(now)[s])
           /\ Pruned(now)[s].status \in Open => sessions[s].status \in Open
           /\ Follows(s, sessions[s], Pruned(now)[s], now)
<1> DEFINE old == sessions[s]
           lapsed == Lapsed(old, now)
           new == Pruned(now)[s]
<1>1. old \in Sessions /\ Len(old.log) <= MaxCommands /\ LogReplays(old.log)
  BY DEF MockInv, MockTypeOK, CheckedCommandsReplay, LogReplays
<1>2. old.status # "none" => Dated(old)
  BY DEF MockInv, History
<1>3. InactiveTtl \in Nat
  BY PolicyTyped
<1>4. /\ lapsed \in Sessions
      /\ lapsed.season = old.season /\ lapsed.revision = old.revision /\ lapsed.log = old.log
      /\ lapsed.createdAt = old.createdAt
      /\ lapsed.status = "none" <=> old.status = "none"
      /\ lapsed.status \in Open => old.status \in Open
      /\ lapsed.status # "none" => Dated(lapsed)
  <2>1. CASE old.status \in Open /\ old.updatedAt + InactiveTtl <= now
    <3>1. lapsed = [old EXCEPT !.status = "abandoned", !.endedAt = old.updatedAt + InactiveTtl,
                               !.updatedAt = old.updatedAt + InactiveTtl]
      BY <2>1 DEF Lapsed
    <3>2. /\ lapsed.status = "abandoned"
          /\ lapsed.endedAt = old.updatedAt + InactiveTtl
          /\ lapsed.updatedAt = old.updatedAt + InactiveTtl
          /\ lapsed.season = old.season /\ lapsed.revision = old.revision /\ lapsed.log = old.log
          /\ lapsed.createdAt = old.createdAt
          /\ old.status = "open"
      BY <1>1, <2>1, <3>1 DEF Sessions, Open
    <3>3. lapsed \in Sessions
      <4>1. old.updatedAt + InactiveTtl \in Nat
        BY <1>1, <1>3 DEF Sessions
      <4>2. lapsed = [season |-> old.season, status |-> "abandoned", revision |-> old.revision,
                      log |-> old.log, createdAt |-> old.createdAt,
                      updatedAt |-> old.updatedAt + InactiveTtl,
                      endedAt |-> old.updatedAt + InactiveTtl]
        BY <1>1, <3>1 DEF Sessions
      <4> QED
        BY <1>1, <4>1, <4>2 DEF Sessions
    <3>4. Dated(lapsed)
      BY <1>1, <1>2, <1>3, <3>2 DEF Dated, Sessions
    <3> QED
      BY <3>2, <3>3, <3>4 DEF Open
  <2>2. CASE ~(old.status \in Open /\ old.updatedAt + InactiveTtl <= now)
    <3>1. lapsed = old
      BY <2>2 DEF Lapsed
    <3> QED
      BY <1>1, <1>2, <3>1
  <2> QED
    BY <2>1, <2>2
<1>5. new = IF Forgotten(lapsed, now) THEN NoSession ELSE lapsed
  BY DEF Pruned
<1>6. CASE Forgotten(lapsed, now)
  <2>1. new = NoSession /\ NoSession.status = "none" /\ NoSession \in Sessions
    BY <1>5, <1>6, NoSessionTyped DEF NoSession
  <2>2. lapsed.status \in Ended
    BY <1>6 DEF Forgotten, Ended
  <2>3. lapsed.createdAt <= lapsed.endedAt
    BY <1>4, <2>2 DEF Dated, Ended
  <2>4. lapsed.createdAt \in Nat /\ lapsed.endedAt \in Nat
    BY <1>4 DEF Sessions
  <2>5. /\ AbandonedRetention \in Nat /\ CompletedRetention \in Nat /\ Window \in Nat
        /\ Window <= AbandonedRetention /\ Window <= CompletedRetention
    BY PolicyTyped, RetentionCoversWindow
  <2>6. old.createdAt + Window <= now
    <3>1. lapsed.endedAt + AbandonedRetention <= now \/ lapsed.endedAt + CompletedRetention <= now
      BY <1>6 DEF Forgotten
    <3>2. lapsed.createdAt + Window <= now
      BY <2>3, <2>4, <2>5, <3>1
    <3> QED
      BY <1>4, <3>2
  <2>7. 0 <= MaxCommands /\ LogReplays(NoSession.log)
    BY PolicyTyped, NoSessionTyped DEF LogReplays
  <2>8. Follows(s, old, new, now)
    BY <2>1, <2>6, <2>7, NoSessionTyped DEF Follows
  <2> QED
    BY <2>1, <2>8 DEF Open
<1>7. CASE ~Forgotten(lapsed, now)
  <2>1. new = lapsed
    BY <1>5, <1>7
  <2>2. IsPrefixOf(old.log, new.log)
    BY <1>1, <1>4, <2>1 DEF IsPrefixOf, Sessions
  <2>3. Follows(s, old, new, now)
    BY <1>1, <1>4, <2>1, <2>2 DEF Follows
  <2> QED
    BY <1>4, <2>1, <2>3
<1> QED
  BY <1>6, <1>7

LEMMA CreatedIds ==
    ASSUME MockInv
    PROVE  /\ DOMAIN creations = 1..Len(creations) /\ Len(creations) \in Nat
           /\ DOMAIN creations \subseteq Ids
           /\ \A i \in DOMAIN creations : creations[i].at \in Nat /\ creations[i].at <= pruned
<1>1. DOMAIN creations = 1..Len(creations) /\ Len(creations) \in Nat
  BY DEF MockInv, MockTypeOK
<1>2. Len(creations) <= MaxSessions /\ MaxSessions \in Nat
  BY PolicyTyped DEF MockInv, History
<1>3. \A i \in 1..Len(creations) : creations[i].at \in Nat
  <2> DEFINE Made == [at : Nat, late : BOOLEAN]
  <2>1. creations \in Seq(Made)
    BY DEF MockInv, MockTypeOK
  <2> HIDE DEF Made
  <2>2. \A i \in 1..Len(creations) : creations[i] \in Made
    BY <2>1
  <2> QED
    BY <2>2 DEF Made
<1> QED
  BY <1>1, <1>2, <1>3 DEF Ids, MockInv, History

-----------------------------------------------------------------------------
(* What a transaction does to what the other requests know.                *)

LEMMA PrefixTransitive ==
    ASSUME NEW a \in Seq(Commands), NEW b \in Seq(Commands), NEW c \in Seq(Commands),
           IsPrefixOf(a, b), IsPrefixOf(b, c)
    PROVE  IsPrefixOf(a, c)
<1>1. Len(a) \in Nat /\ Len(b) \in Nat /\ Len(c) \in Nat
  OBVIOUS
<1>2. \A i \in 1..Len(a) : i \in 1..Len(b)
  BY <1>1 DEF IsPrefixOf
<1> QED
  BY <1>1, <1>2 DEF IsPrefixOf

\* Two logs of one length, one the start of the other, say the same.
LEMMA SameTexts ==
    ASSUME NEW a \in Seq(Commands), NEW b \in Seq(Commands), IsPrefixOf(a, b), Len(a) = Len(b)
    PROVE  TextsOf(a) = TextsOf(b)
<1>1. DOMAIN a = 1..Len(a) /\ DOMAIN b = 1..Len(a)
  OBVIOUS
<1>2. \A i \in 1..Len(a) : a[i].text = b[i].text
  BY DEF IsPrefixOf
<1> QED
  BY <1>1, <1>2 DEF TextsOf

\* The numbers of a request and of a row.
LEMMA RequestNumbers ==
    ASSUME NEW r \in Requests
    PROVE  r.revision \in Nat /\ r.count \in Nat
  BY DEF Requests

LEMMA RowNumbers ==
    ASSUME NEW row \in Sessions
    PROVE  row.revision \in Nat /\ row.log \in Seq(Commands) /\ Len(row.log) \in Nat
  BY DEF Sessions

\* A request that knew its session before a transaction knows it after.
LEMMA RequestKept ==
    ASSUME MockInv, NEW r, RequestOK(r), NEW time,
           sessions' \in [Ids -> Sessions], clock' \in Nat, clock <= clock',
           DOMAIN creations \subseteq DOMAIN creations',
           \A i \in DOMAIN creations : creations'[i] = creations[i],
           \A s \in DOMAIN creations : Follows(s, sessions[s], sessions'[s], time)
    PROVE  RequestOK(r)'
<1> DEFINE id == r.session
           old == sessions[id]
           new == sessions'[id]
<1>1. /\ r \in Requests
      /\ r.op \in {"retry", "append"} => r.command \in Commands
      /\ r.now \in Nat /\ clock \in Nat
  BY DEF RequestOK, Requests, MockInv, MockTypeOK
<1>2. r.now <= clock'
  BY <1>1 DEF RequestOK
<1>3. /\ r.op \in Lookups \cup Writes => id \in DOMAIN creations'
      /\ r.op \in Writes => creations'[id].at <= r.now
  BY DEF RequestOK, Lookups, Writes
<1>4. ASSUME r.op \in {"retry", "append"}, new.status # "none"
      PROVE  /\ old.status # "none"
             /\ old \in Sessions /\ new \in Sessions
             /\ \/ new.revision = old.revision /\ IsPrefixOf(old.log, new.log)
                \/ new.revision > old.revision
  <2>1. id \in DOMAIN creations
    BY <1>4 DEF RequestOK, Lookups, Writes
  <2>2. id \in Ids
    BY <2>1, CreatedIds
  <2>3. Follows(id, old, new, time)
    BY <2>1
  <2> QED
    BY <1>4, <2>2, <2>3 DEF Follows, MockInv, MockTypeOK
<1>5. ASSUME r.op = "retry", new.status # "none"
      PROVE  /\ r.revision <= new.revision
             /\ r.revision = new.revision => IsPrefixOf(r.log, new.log)
  <2>1. /\ old.status # "none"
        /\ r.revision <= old.revision
        /\ r.revision = old.revision => IsPrefixOf(r.log, old.log)
    BY <1>4, <1>5 DEF RequestOK
  <2>2. r.revision \in Nat /\ old.revision \in Nat /\ new.revision \in Nat
    BY <1>1, <1>4, <1>5, RequestNumbers, RowNumbers
  <2>3. r.log \in Seq(Commands) /\ old.log \in Seq(Commands) /\ new.log \in Seq(Commands)
    BY <1>1, <1>4, <1>5 DEF Requests, Sessions
  <2>4. CASE new.revision = old.revision /\ IsPrefixOf(old.log, new.log)
    BY <2>1, <2>3, <2>4, PrefixTransitive
  <2>5. CASE new.revision > old.revision
    BY <2>1, <2>2, <2>5
  <2> QED
    BY <1>4, <1>5, <2>4, <2>5
<1>6. ASSUME r.op = "append", r.command.checked, new.status # "none"
      PROVE  /\ r.revision <= new.revision
             /\ r.revision = new.revision =>
                 /\ r.count <= Len(new.log)
                 /\ r.count = Len(new.log) => Replays(Append(TextsOf(new.log), r.command.text))
  <2>1. /\ old.status # "none"
        /\ r.revision <= old.revision
        /\ r.revision = old.revision =>
            /\ r.count <= Len(old.log)
            /\ r.count = Len(old.log) => Replays(Append(TextsOf(old.log), r.command.text))
    BY <1>4, <1>6 DEF RequestOK
  <2>2. r.revision \in Nat /\ old.revision \in Nat /\ new.revision \in Nat /\ r.count \in Nat
    BY <1>1, <1>4, <1>6, RequestNumbers, RowNumbers
  <2>3. /\ old.log \in Seq(Commands) /\ new.log \in Seq(Commands)
        /\ Len(old.log) \in Nat /\ Len(new.log) \in Nat
    BY <1>4, <1>6, RowNumbers
  <2>4. CASE new.revision = old.revision /\ IsPrefixOf(old.log, new.log)
    <3>1. Len(old.log) <= Len(new.log)
      BY <2>4 DEF IsPrefixOf
    <3>2. Len(old.log) = Len(new.log) => TextsOf(old.log) = TextsOf(new.log)
      BY <2>3, <2>4, SameTexts
    <3> QED
      BY <2>1, <2>2, <2>3, <2>4, <3>1, <3>2
  <2>5. CASE new.revision > old.revision
    BY <2>1, <2>2, <2>5
  <2> QED
    BY <1>4, <1>6, <2>4, <2>5
<1> QED
  BY <1>1, <1>2, <1>3, <1>5, <1>6 DEF RequestOK

-----------------------------------------------------------------------------
(* A transaction that creates nothing.                                     *)

LEMMA CreatesNothing ==
    ASSUME MockInv, NEW now \in Nat, now <= clock, NEW rows \in [Ids -> Sessions],
           Commits(now, rows), UNCHANGED creations,
           \A s \in Ids : Follows(s, sessions[s], rows[s], now)
    PROVE  /\ sessions' \in [Ids -> Sessions]
           /\ \A s \in Ids : Len(sessions'[s].log) <= MaxCommands
           /\ clock' \in Nat /\ pruned' \in Nat
           /\ creations' \in Seq([at : Nat, late : BOOLEAN])
           /\ History'
           /\ CreationsWithinRate'
           /\ CheckedCommandsReplay'
           /\ \A r : RequestOK(r) => RequestOK(r)'
<1>1. /\ sessions' = rows /\ clock' = clock /\ creations' = creations
      /\ pruned' = IF now > pruned THEN now ELSE pruned
  BY DEF Commits
<1>2. /\ sessions \in [Ids -> Sessions] /\ clock \in Nat /\ pruned \in Nat /\ pruned <= clock
      /\ creations \in Seq([at : Nat, late : BOOLEAN])
  BY DEF MockInv, MockTypeOK, History
<1>3. pruned' \in Nat /\ pruned <= pruned' /\ now <= pruned' /\ pruned' <= clock'
  BY <1>1, <1>2
<1>4. /\ \A s \in Ids : Len(sessions'[s].log) <= MaxCommands
      /\ \A s \in Ids : LogReplays(sessions'[s].log)
  BY <1>1 DEF Follows
<1>5. CheckedCommandsReplay'
  BY <1>1, <1>4 DEF CheckedCommandsReplay, LogReplays
<1>6. CreationsWithinRate'
  BY <1>1 DEF MockInv, CreationsWithinRate, CreatedBetween
<1>7. ASSUME NEW s \in Ids, sessions'[s].status # "none"
      PROVE  /\ s \in DOMAIN creations'
             /\ sessions'[s].createdAt = creations'[s].at
             /\ Dated(sessions'[s])
  BY <1>1, <1>7 DEF Follows, MockInv, History
<1>8. ASSUME NEW i \in DOMAIN creations', sessions'[i].status = "none"
      PROVE  creations'[i].at + Window <= pruned'
  <2>1. i \in Ids /\ i \in DOMAIN creations
    BY <1>1, CreatedIds
  <2>2. creations[i].at \in Nat /\ Window \in Nat
    BY <2>1, CreatedIds, PolicyTyped
  <2>3. sessions[i].status = "none" \/ sessions[i].createdAt + Window <= now
    BY <1>1, <1>8, <2>1 DEF Follows
  <2>4. CASE sessions[i].status = "none"
    <3>1. creations[i].at + Window <= pruned
      BY <2>1, <2>4 DEF MockInv, History
    <3> QED
      BY <1>1, <1>2, <1>3, <2>2, <3>1
  <2>5. CASE sessions[i].status # "none" /\ sessions[i].createdAt + Window <= now
    <3>1. sessions[i].createdAt = creations[i].at
      BY <2>1, <2>5 DEF MockInv, History
    <3> QED
      BY <1>1, <1>2, <1>3, <2>2, <2>5, <3>1
  <2> QED
    BY <2>3, <2>4, <2>5
<1>9. \A i \in DOMAIN creations' : creations'[i].at <= pruned'
  <2> SUFFICES ASSUME NEW i \in DOMAIN creations
      PROVE creations[i].at <= pruned'
    BY <1>1
  <2>1. creations[i].at \in Nat /\ creations[i].at <= pruned
    BY CreatedIds
  <2> QED
    BY <1>2, <1>3, <2>1
<1>10. Len(creations') <= MaxSessions
  BY <1>1 DEF MockInv, History
<1>11. History'
  BY <1>3, <1>7, <1>8, <1>9, <1>10 DEF History
<1>12. ASSUME NEW r, RequestOK(r) PROVE RequestOK(r)'
  <2>1. /\ \A s \in DOMAIN creations : Follows(s, sessions[s], sessions'[s], now)
        /\ DOMAIN creations \subseteq DOMAIN creations'
        /\ \A i \in DOMAIN creations : creations'[i] = creations[i]
        /\ clock' \in Nat /\ clock <= clock' /\ sessions' \in [Ids -> Sessions]
    BY <1>1, <1>2, CreatedIds
  <2> QED
    BY <1>12, <2>1, RequestKept
<1> QED
  BY <1>1, <1>2, <1>3, <1>4, <1>5, <1>6, <1>11, <1>12

-----------------------------------------------------------------------------
(* The limits.                                                             *)

LimitsOn(rows) ==
    /\ Cardinality(OpenIn(rows)) <= MaxActive
    /\ \A season \in Seasons :
        Cardinality({s \in OpenIn(rows) : rows[s].season = season}) <= MaxActiveOfSeason

LEMMA IdsFinite ==
    /\ IsFiniteSet(Ids)
    /\ \A S \in SUBSET Ids : IsFiniteSet(S) /\ Cardinality(S) \in Nat
<1>1. IsFiniteSet(Ids)
  BY FS_Interval, PolicyTyped DEF Ids
<1> QED
  BY <1>1, FS_Subset, FS_CardinalityType

\* Closing sessions and leaving the others in their seasons keeps the limits.
LEMMA FewerOpen ==
    ASSUME NEW before, NEW after, LimitsOn(before),
           \A s \in OpenIn(after) : s \in OpenIn(before) /\ after[s].season = before[s].season
    PROVE  LimitsOn(after)
<1>1. MaxActive \in Nat /\ MaxActiveOfSeason \in Nat
  BY PolicyTyped
<1>2. OpenIn(before) \in SUBSET Ids /\ OpenIn(after) \in SUBSET Ids
  BY DEF OpenIn
<1>3. Cardinality(OpenIn(after)) <= MaxActive
  <2>1. OpenIn(after) \subseteq OpenIn(before)
    OBVIOUS
  <2>2. Cardinality(OpenIn(after)) <= Cardinality(OpenIn(before))
    BY <1>2, <2>1, IdsFinite, FS_Subset
  <2> QED
    BY <1>1, <1>2, <2>2, IdsFinite DEF LimitsOn
<1>4. ASSUME NEW season \in Seasons
      PROVE  Cardinality({s \in OpenIn(after) : after[s].season = season}) <= MaxActiveOfSeason
  <2> DEFINE new == {s \in OpenIn(after) : after[s].season = season}
             old == {s \in OpenIn(before) : before[s].season = season}
  <2>1. new \subseteq old /\ old \in SUBSET Ids /\ new \in SUBSET Ids
    BY <1>2
  <2>2. Cardinality(new) <= Cardinality(old)
    BY <2>1, IdsFinite, FS_Subset
  <2>3. Cardinality(old) <= MaxActiveOfSeason
    BY DEF LimitsOn
  <2>4. Cardinality(new) \in Nat /\ Cardinality(old) \in Nat
    BY <2>1, IdsFinite
  <2> HIDE DEF new, old
  <2>5. Cardinality(new) <= MaxActiveOfSeason
    BY <1>1, <2>2, <2>3, <2>4
  <2> QED
    BY <2>5 DEF new
<1> QED
  BY <1>3, <1>4 DEF LimitsOn

\* One session that opens where there is room keeps them.
LEMMA OneMoreOpen ==
    ASSUME NEW before, NEW after, NEW id \in Ids, NEW except, except \subseteq {id},
           NEW season, id \in OpenIn(before) => id \in except,
           LimitsOn(before), HasRoom(before, season, except), after[id].season = season,
           \A s \in OpenIn(after) \ {id} : s \in OpenIn(before) /\ after[s].season = before[s].season
    PROVE  LimitsOn(after)
<1> DEFINE others == OpenIn(before) \ except
           ofSeason == {s \in others : before[s].season = season}
<1>1. MaxActive \in Nat /\ MaxActiveOfSeason \in Nat
  BY PolicyTyped
<1>2. /\ others \in SUBSET Ids /\ ofSeason \in SUBSET Ids
      /\ OpenIn(after) \in SUBSET Ids /\ OpenIn(before) \in SUBSET Ids
  BY DEF OpenIn
<1>3. Cardinality(others) < MaxActive /\ Cardinality(ofSeason) < MaxActiveOfSeason
  BY DEF HasRoom
<1>4. id \notin others /\ id \notin ofSeason
  OBVIOUS
<1>5. \A S \in SUBSET Ids : id \notin S =>
          /\ IsFiniteSet(S \cup {id}) /\ Cardinality(S \cup {id}) = Cardinality(S) + 1
          /\ Cardinality(S) \in Nat
  BY IdsFinite, FS_AddElement
<1>6. Cardinality(OpenIn(after)) <= MaxActive
  <2>1. OpenIn(after) \subseteq others \cup {id}
    OBVIOUS
  <2>2. Cardinality(OpenIn(after)) <= Cardinality(others \cup {id})
    BY <1>2, <1>4, <1>5, <2>1, FS_Subset
  <2>3. Cardinality(others \cup {id}) = Cardinality(others) + 1 /\ Cardinality(others) \in Nat
    BY <1>2, <1>4, <1>5
  <2>4. Cardinality(OpenIn(after)) \in Nat
    BY <1>2, IdsFinite
  <2> HIDE DEF others
  <2> QED
    BY <1>1, <1>3, <2>2, <2>3, <2>4
<1>7. ASSUME NEW any \in Seasons
      PROVE  Cardinality({s \in OpenIn(after) : after[s].season = any}) <= MaxActiveOfSeason
  <2> DEFINE new == {s \in OpenIn(after) : after[s].season = any}
             old == {s \in OpenIn(before) : before[s].season = any}
  <2>1. new \in SUBSET Ids /\ old \in SUBSET Ids
    BY <1>2
  <2>2. Cardinality(new) \in Nat /\ Cardinality(old) \in Nat
    BY <2>1, IdsFinite
  <2>3. CASE any = season
    <3>1. new \subseteq ofSeason \cup {id}
      BY <2>3
    <3>2. Cardinality(new) <= Cardinality(ofSeason \cup {id})
      BY <1>2, <1>4, <1>5, <3>1, FS_Subset
    <3>3. Cardinality(ofSeason \cup {id}) = Cardinality(ofSeason) + 1 /\ Cardinality(ofSeason) \in Nat
      BY <1>2, <1>4, <1>5
    <3> HIDE DEF new, ofSeason
    <3>4. Cardinality(new) <= MaxActiveOfSeason
      BY <1>1, <1>3, <2>2, <3>2, <3>3
    <3> QED
      BY <3>4 DEF new
  <2>4. CASE any # season
    <3>1. new \subseteq old
      BY <2>4
    <3>2. Cardinality(new) <= Cardinality(old)
      BY <2>1, <3>1, IdsFinite, FS_Subset
    <3>3. Cardinality(old) <= MaxActiveOfSeason
      BY DEF LimitsOn
    <3> HIDE DEF new, old
    <3>4. Cardinality(new) <= MaxActiveOfSeason
      BY <1>1, <2>2, <3>2, <3>3
    <3> QED
      BY <3>4 DEF new
  <2> QED
    BY <2>3, <2>4
<1> QED
  BY <1>6, <1>7 DEF LimitsOn

-----------------------------------------------------------------------------
(* The parts of the invariant a transaction that creates nothing keeps.    *)

LEMMA Pruning ==
    ASSUME MockInv, NEW now \in Nat
    PROVE  /\ Pruned(now) \in [Ids -> Sessions]
           /\ \A s \in Ids : Follows(s, sessions[s], Pruned(now)[s], now)
           /\ LimitsOn(Pruned(now))
<1>1. Pruned(now) \in [Ids -> Sessions]
  <2>1. Pruned(now) = [s \in Ids |-> Pruned(now)[s]]
    BY DEF Pruned
  <2> QED
    BY <2>1, PrunedRow
<1>2. \A s \in OpenIn(Pruned(now)) :
          s \in OpenIn(sessions) /\ Pruned(now)[s].season = sessions[s].season
  BY PrunedRow DEF OpenIn, Open
<1>3. LimitsOn(sessions)
  BY DEF MockInv, ActiveWithinLimits, LimitsOn
<1>4. LimitsOn(Pruned(now))
  BY <1>2, <1>3, FewerOpen
<1> QED
  BY <1>1, <1>4, PrunedRow

\* The row a request writes, on top of a pruning.
LEMMA WrittenRow ==
    ASSUME MockInv, NEW now \in Nat, now <= clock, NEW id \in Ids, NEW row \in Sessions,
           Pruned(now)[id].status # "none", row.status # "none",
           row.createdAt = Pruned(now)[id].createdAt, Dated(row),
           Len(row.log) <= MaxCommands, LogReplays(row.log),
           \/ row.revision = Pruned(now)[id].revision /\ IsPrefixOf(Pruned(now)[id].log, row.log)
           \/ row.revision > Pruned(now)[id].revision
    PROVE  /\ [Pruned(now) EXCEPT ![id] = row] \in [Ids -> Sessions]
           /\ \A s \in Ids : Follows(s, sessions[s], [Pruned(now) EXCEPT ![id] = row][s], now)
<1> DEFINE rows == Pruned(now)
           written == [rows EXCEPT ![id] = row]
<1>1. rows \in [Ids -> Sessions] /\ \A s \in Ids : Follows(s, sessions[s], rows[s], now)
  BY Pruning
<1>2. written \in [Ids -> Sessions]
  BY <1>1
<1>3. written[id] = row /\ \A s \in Ids \ {id} : written[s] = rows[s]
  BY <1>1
<1>4. Follows(id, sessions[id], row, now)
  <2>1. /\ sessions[id].status # "none"
        /\ rows[id].revision = sessions[id].revision
        /\ rows[id].log = sessions[id].log
        /\ rows[id].createdAt = sessions[id].createdAt
    BY PrunedRow
  <2> QED
    BY <2>1 DEF Follows
<1> QED
  BY <1>1, <1>2, <1>3, <1>4

\* What is left to show of an action whose transaction creates nothing: the
\* limits, and what its request knows next.
LEMMA Kept ==
    ASSUME MockInv, NEW now \in Nat, now <= clock, NEW rows \in [Ids -> Sessions],
           Commits(now, rows), UNCHANGED creations,
           \A s \in Ids : Follows(s, sessions[s], rows[s], now),
           LimitsOn(rows),
           NEW p \in Slots, NEW request, GoesOn(p, request), RequestOK(request)'
    PROVE  MockInv'
<1>1. requests' \in [Slots -> Requests]
  <2>1. request \in Requests /\ requests \in [Slots -> Requests]
    BY DEF RequestOK, Requests, Ids, MockInv, MockTypeOK
  <2> QED
    BY <2>1 DEF GoesOn
<1>2. /\ sessions' \in [Ids -> Sessions]
      /\ \A s \in Ids : Len(sessions'[s].log) <= MaxCommands
      /\ clock' \in Nat /\ pruned' \in Nat
      /\ creations' \in Seq([at : Nat, late : BOOLEAN])
      /\ History' /\ CreationsWithinRate' /\ CheckedCommandsReplay'
      /\ \A r : RequestOK(r) => RequestOK(r)'
  BY CreatesNothing
<1>3. MockTypeOK'
  BY <1>1, <1>2 DEF MockTypeOK
<1>4. ASSUME NEW q \in Slots PROVE RequestOK(requests[q])'
  <2>1. PICK r : r = IF q = p THEN request ELSE requests[q]
    OBVIOUS
  <2>2. requests'[q] = r
    BY <2>1 DEF GoesOn, MockInv, MockTypeOK
  <2>3. RequestOK(r)'
    <3>1. CASE q = p
      BY <2>1, <3>1
    <3>2. CASE q # p
      <4>1. RequestOK(requests[q]) /\ r = requests[q]
        BY <2>1, <3>2 DEF MockInv
      <4>2. RequestOK(r)
        BY <4>1 DEF RequestOK
      <4> QED
        BY <1>2, <4>2
    <3> QED
      BY <3>1, <3>2
  <2> QED
    BY <2>2, <2>3 DEF RequestOK
<1>5. ActiveWithinLimits'
  BY DEF Commits, ActiveWithinLimits, LimitsOn
<1> QED
  BY <1>2, <1>3, <1>4, <1>5 DEF MockInv

-----------------------------------------------------------------------------
(* Creating a session.                                                     *)

\* The sessions stored when one is created are all that count against it.
LEMMA RecentAreStored ==
    ASSUME MockInv, NEW now \in Nat, pruned <= now,
           NEW j \in DOMAIN creations, now - Window < creations[j].at, creations[j].at <= now
    PROVE  j \in RecentIn(Pruned(now), now)
<1>1. /\ j \in Ids /\ creations[j].at \in Nat /\ Window \in Nat /\ pruned \in Nat
  BY CreatedIds, PolicyTyped DEF MockInv, MockTypeOK
<1>2. sessions[j].status # "none"
  <2>1. SUFFICES ASSUME sessions[j].status = "none" PROVE FALSE
    OBVIOUS
  <2>2. creations[j].at + Window <= pruned
    BY <2>1 DEF MockInv, History
  <2> QED
    BY <1>1, <2>2
<1>3. sessions[j].createdAt = creations[j].at
  BY <1>1, <1>2 DEF MockInv, History
<1>4. Pruned(now)[j].status # "none"
  <2>1. SUFFICES ASSUME Pruned(now)[j].status = "none" PROVE FALSE
    OBVIOUS
  <2>2. sessions[j].createdAt + Window <= now
    BY <1>1, <1>2, <2>1, PrunedRow DEF Follows
  <2> QED
    BY <1>1, <1>3, <2>2
<1>5. Pruned(now)[j].createdAt = creations[j].at
  BY <1>1, <1>3, <1>4, PrunedRow
<1> QED
  BY <1>1, <1>4, <1>5 DEF RecentIn

LEMMA CreateKeepsRate ==
    ASSUME MockInv, NEW now \in Nat, NEW season,
           Len(creations) + 1 \in Ids, CreationAllowed(Pruned(now), season, now),
           creations' = Append(creations, [at |-> now, late |-> now < pruned])
    PROVE  CreationsWithinRate'
<1> DEFINE id == Len(creations) + 1
<1>1. /\ DOMAIN creations = 1..Len(creations) /\ Len(creations) \in Nat
      /\ DOMAIN creations' = DOMAIN creations \cup {id} /\ id \notin DOMAIN creations
      /\ \A i \in DOMAIN creations : creations'[i] = creations[i]
      /\ creations'[id] = [at |-> now, late |-> now < pruned]
      /\ DOMAIN creations \subseteq Ids
      /\ \A i \in DOMAIN creations : creations[i].at \in Nat /\ creations[i].at <= pruned
  <2>1. DOMAIN creations = 1..Len(creations) /\ Len(creations) \in Nat
    BY CreatedIds
  <2>2. creations \in Seq([at : Nat, late : BOOLEAN])
    BY DEF MockInv, MockTypeOK
  <2> DEFINE Made == [at : Nat, late : BOOLEAN]
             made == [at |-> now, late |-> now < pruned]
  <2>3. made \in Made
    OBVIOUS
  <2>4. creations \in Seq(Made) /\ creations' = Append(creations, made)
    BY <2>2
  <2> HIDE DEF Made, made
  <2>5. /\ DOMAIN creations' = 1..(Len(creations) + 1)
        /\ \A i \in 1..Len(creations) : creations'[i] = creations[i]
        /\ creations'[Len(creations) + 1] = made
    BY <2>3, <2>4
  <2>6. 1..(Len(creations) + 1) = (1..Len(creations)) \cup {Len(creations) + 1}
    BY <2>1
  <2>7. Len(creations) + 1 \notin 1..Len(creations)
    BY <2>1
  <2> QED
    BY <2>1, <2>5, <2>6, <2>7, CreatedIds DEF made
<1> HIDE DEF id
<1>2. /\ pruned \in Nat /\ Window \in Nat /\ MaxCreations \in Nat
  BY PolicyTyped DEF MockInv, MockTypeOK
<1>3. SUFFICES ASSUME \A i \in DOMAIN creations' : ~creations'[i].late,
                      NEW i \in DOMAIN creations'
               PROVE  Cardinality({j \in DOMAIN creations' :
                                     /\ creations'[i].at - Window < creations'[j].at
                                     /\ creations'[j].at <= creations'[i].at}) <= MaxCreations
  BY DEF CreationsWithinRate, CreatedBetween
<1> DEFINE window == {j \in DOMAIN creations' : /\ creations'[i].at - Window < creations'[j].at
                                               /\ creations'[j].at <= creations'[i].at}
<1>4. pruned <= now
  <2>1. ~(now < pruned)
    <3>1. ~creations'[id].late
      BY <1>1, <1>3
    <3>2. creations'[id].late = (now < pruned)
      BY <1>1
    <3> QED
      BY <3>1, <3>2
  <2> QED
    BY <1>2, <2>1
<1>5. CASE creations'[i].at = now
  <2> DEFINE recent == RecentIn(Pruned(now), now)
  <2>1. window \subseteq recent \cup {id}
    <3> SUFFICES ASSUME NEW j \in window, j # id PROVE j \in recent
      OBVIOUS
    <3>1. j \in DOMAIN creations /\ creations'[j] = creations[j]
      BY <1>1
    <3>2. now - Window < creations[j].at /\ creations[j].at <= now
      BY <1>5, <3>1
    <3> QED
      BY <1>4, <3>1, <3>2, RecentAreStored
  <2>2. recent \in SUBSET Ids /\ recent \cup {id} \in SUBSET Ids
    BY DEF RecentIn, id
  <2>3. Cardinality(recent) < MaxCreations
    BY DEF CreationAllowed
  <2> HIDE DEF window, recent
  <2>4. Cardinality(recent \cup {id}) <= Cardinality(recent) + 1
    <3>1. IsFiniteSet(recent) /\ Cardinality(recent) \in Nat
      BY <2>2, IdsFinite
    <3>2. \/ Cardinality(recent \cup {id}) = Cardinality(recent)
          \/ Cardinality(recent \cup {id}) = Cardinality(recent) + 1
      BY <3>1, FS_AddElement
    <3> QED
      BY <3>1, <3>2
  <2>5. Cardinality(window) <= Cardinality(recent \cup {id}) /\ window \in SUBSET Ids
    BY <2>1, <2>2, IdsFinite, FS_Subset
  <2>6. Cardinality(window) \in Nat /\ Cardinality(recent) \in Nat /\ Cardinality(recent \cup {id}) \in Nat
    BY <2>2, <2>5, IdsFinite
  <2>7. Cardinality(window) <= MaxCreations
    BY <1>2, <2>3, <2>4, <2>5, <2>6
  <2> QED
    BY <2>7 DEF window
<1>6. CASE creations'[i].at # now
  <2>1. i \in DOMAIN creations /\ creations'[i] = creations[i] /\ creations[i].at < now
    <3>1. i \in DOMAIN creations
      BY <1>1, <1>6
    <3>2. creations'[i] = creations[i] /\ creations[i].at \in Nat /\ creations[i].at <= pruned
      BY <1>1, <3>1
    <3> QED
      BY <1>2, <1>4, <1>6, <3>1, <3>2
  <2>2. window = CreatedBetween(creations[i].at - Window, creations[i].at)
    <3>1. id \notin window
      <4>1. creations'[id].at = now
        BY <1>1
      <4> QED
        BY <1>1, <2>1, <4>1
    <3> QED
      BY <1>1, <2>1, <3>1 DEF CreatedBetween
  <2>3. \A k \in DOMAIN creations : ~creations[k].late
    BY <1>1, <1>3
  <2>4. Cardinality(CreatedBetween(creations[i].at - Window, creations[i].at)) <= MaxCreations
    BY <2>1, <2>3 DEF MockInv, CreationsWithinRate
  <2> QED
    BY <2>2, <2>4
<1> QED
  BY <1>5, <1>6

LEMMA IdleKnows == ASSUME clock' \in Nat PROVE RequestOK(Idle)'
<1>1. Idle \in Requests
  BY DEF Idle, Requests
<1>2. Idle.op = "idle" /\ Idle.now = 0
  BY DEF Idle
<1> QED
  BY <1>1, <1>2 DEF RequestOK, Lookups, Writes

NewRow(season, now) ==
    [NoSession EXCEPT !.season = season, !.status = "open", !.revision = 1,
                      !.createdAt = now, !.updatedAt = now]

LEMMA NewRowTyped ==
    ASSUME NEW season \in Seasons \cup {NoSeason}, NEW now \in Nat
    PROVE  LET row == NewRow(season, now) IN
           /\ row \in Sessions /\ row.status = "open" /\ row.season = season
           /\ row.createdAt = now /\ Dated(row)
           /\ Len(row.log) = 0 /\ LogReplays(row.log)
<1> DEFINE row == NewRow(season, now)
<1>1. NoSession \in Sessions /\ NoSession.log = << >>
  BY NoSessionTyped
<1>2. row \in Sessions
  BY <1>1 DEF Sessions, NewRow
<1>3. /\ row.status = "open" /\ row.season = season /\ row.log = << >>
      /\ row.createdAt = now /\ row.updatedAt = now
  BY <1>1 DEF Sessions, NewRow
<1> HIDE DEF row
<1>4. Dated(row)
  BY <1>3 DEF Dated, Ended
<1>5. Len(row.log) = 0 /\ LogReplays(row.log)
  BY <1>3 DEF LogReplays
<1> QED
  BY <1>2, <1>3, <1>4, <1>5 DEF row

LEMMA CreateSessionKeeps ==
    ASSUME MockInv, NEW p \in Slots, CreateSession(p)
    PROVE  MockInv'
<1>1. PICK r : r = requests[p]
  OBVIOUS
<1>2. PICK id : id = Len(creations) + 1
  OBVIOUS
<1> DEFINE now == r.now
           row == NewRow(r.season, now)
           made == [at |-> now, late |-> now < pruned]
<1>3. /\ id \in Ids
      /\ CreationAllowed(Pruned(now), r.season, now)
      /\ Commits(now, [Pruned(now) EXCEPT ![id] = row])
      /\ creations' = Append(creations, made)
      /\ Ends(p)
  BY <1>1, <1>2 DEF CreateSession, NewRow
<1>4. /\ now \in Nat /\ now <= clock /\ r.season \in Seasons \cup {NoSeason}
      /\ clock \in Nat /\ pruned \in Nat /\ pruned <= clock
  <2>1. RequestOK(requests[p])
    BY DEF MockInv
  <2> QED
    BY <1>1, <2>1 DEF RequestOK, Requests, MockInv, MockTypeOK, History
<1>6. /\ row \in Sessions /\ Len(row.log) = 0 /\ Dated(row) /\ LogReplays(row.log)
      /\ row.status = "open" /\ row.createdAt = now /\ row.season = r.season
  <2> HIDE DEF now
  <2>1. LET typed == NewRow(r.season, now) IN
        /\ typed \in Sessions /\ typed.status = "open" /\ typed.season = r.season
        /\ typed.createdAt = now /\ Dated(typed)
        /\ Len(typed.log) = 0 /\ LogReplays(typed.log)
    BY <1>4, NewRowTyped, Zenon
  <2> QED
    BY <2>1
<1> HIDE DEF row, made
<1>8. /\ Pruned(now) \in [Ids -> Sessions]
      /\ \A s \in Ids : Follows(s, sessions[s], Pruned(now)[s], now)
      /\ LimitsOn(Pruned(now))
  BY <1>4, Pruning
<1>9. /\ sessions' = [Pruned(now) EXCEPT ![id] = row]
      /\ sessions' \in [Ids -> Sessions]
      /\ sessions'[id] = row /\ \A s \in Ids \ {id} : sessions'[s] = Pruned(now)[s]
      /\ clock' = clock /\ pruned' = IF now > pruned THEN now ELSE pruned
  BY <1>3, <1>6, <1>8 DEF Commits
<1>10. pruned' \in Nat /\ pruned <= pruned' /\ now <= pruned' /\ pruned' <= clock'
  BY <1>4, <1>9
<1>11. /\ DOMAIN creations = 1..Len(creations) /\ Len(creations) \in Nat
       /\ DOMAIN creations' = DOMAIN creations \cup {id} /\ id \notin DOMAIN creations
       /\ \A i \in DOMAIN creations : creations'[i] = creations[i]
       /\ creations'[id] = made /\ made.at = now
       /\ creations' \in Seq([at : Nat, late : BOOLEAN])
       /\ Len(creations') = id
       /\ DOMAIN creations \subseteq Ids
       /\ \A i \in DOMAIN creations : creations[i].at \in Nat /\ creations[i].at <= pruned
  <2> DEFINE Made == [at : Nat, late : BOOLEAN]
  <2>1. made \in Made /\ made.at = now
    BY <1>4 DEF made
  <2>2. DOMAIN creations = 1..Len(creations) /\ Len(creations) \in Nat
    BY CreatedIds
  <2>3. creations \in Seq(Made)
    BY DEF MockInv, MockTypeOK
  <2> HIDE DEF Made
  <2>4. /\ creations' \in Seq(Made)
        /\ DOMAIN creations' = 1..id /\ Len(creations') = id
        /\ \A i \in 1..Len(creations) : creations'[i] = creations[i]
        /\ creations'[id] = made
    BY <1>2, <1>3, <2>1, <2>3
  <2>5. 1..id = (1..Len(creations)) \cup {id} /\ id \notin 1..Len(creations)
    BY <1>2, <2>2
  <2>6. creations' \in Seq([at : Nat, late : BOOLEAN])
    BY <2>4 DEF Made
  <2> QED
    BY <2>1, <2>2, <2>4, <2>5, <2>6, CreatedIds
<1>12. sessions[id].status = "none" /\ Pruned(now)[id].status = "none"
  <2>1. sessions[id].status = "none"
    BY <1>3, <1>11 DEF MockInv, History
  <2> QED
    BY <1>3, <1>4, <2>1, PrunedRow
<1>13. \A s \in DOMAIN creations : Follows(s, sessions[s], sessions'[s], now)
  BY <1>8, <1>9, <1>11
<1>14. ASSUME NEW q \in Slots PROVE RequestOK(requests[q])'
  <2>1. PICK other : other = requests'[q]
    OBVIOUS
  <2>2. RequestOK(other)'
    <3>1. CASE q = p
      <4>1. other = Idle
        BY <2>1, <1>3, <3>1 DEF Ends, GoesOn, MockInv, MockTypeOK
      <4> QED
        BY <1>4, <1>9, <4>1, IdleKnows
    <3>2. CASE q # p
      <4>1. other = requests[q] /\ RequestOK(requests[q])
        BY <2>1, <1>3, <3>2 DEF Ends, GoesOn, MockInv, MockTypeOK
      <4>2. RequestOK(other)
        BY <4>1 DEF RequestOK
      <4>3. /\ clock' \in Nat /\ clock <= clock' /\ DOMAIN creations \subseteq DOMAIN creations'
            /\ \A i \in DOMAIN creations : creations'[i] = creations[i]
        BY <1>4, <1>9, <1>11
      <4> QED
        BY <1>9, <1>13, <4>2, <4>3, RequestKept
    <3> QED
      BY <3>1, <3>2
  <2> QED
    BY <2>1, <2>2 DEF RequestOK
<1>15. MockTypeOK'
  <2>1. requests' \in [Slots -> Requests]
    <3>1. Idle \in Requests
      BY DEF Idle, Requests
    <3> QED
      BY <1>3, <3>1 DEF Ends, GoesOn, MockInv, MockTypeOK
  <2>2. \A s \in Ids : Len(sessions'[s].log) <= MaxCommands
    <3>1. 0 <= MaxCommands
      BY PolicyTyped
    <3> QED
      BY <1>6, <1>8, <1>9, <3>1 DEF Follows
  <2> QED
    BY <1>4, <1>9, <1>10, <1>11, <2>1, <2>2 DEF MockTypeOK
<1>16. History'
  <2>1. Len(creations') <= MaxSessions
    BY <1>3, <1>11, PolicyTyped DEF Ids
  <2>2. \A i \in DOMAIN creations' : creations'[i].at <= pruned'
    <3>1. ASSUME NEW i \in DOMAIN creations PROVE creations[i].at <= pruned'
      <4>1. creations[i].at \in Nat /\ creations[i].at <= pruned
        BY <1>11
      <4> QED
        BY <1>4, <1>10, <4>1
    <3> QED
      BY <1>10, <1>11, <3>1
  <2>3. ASSUME NEW s \in Ids, sessions'[s].status # "none"
        PROVE  /\ s \in DOMAIN creations'
               /\ sessions'[s].createdAt = creations'[s].at
               /\ Dated(sessions'[s])
    <3>1. CASE s = id
      BY <1>6, <1>9, <1>11, <3>1
    <3>2. CASE s # id
      <4>1. Pruned(now)[s].status # "none" /\ sessions'[s] = Pruned(now)[s]
        BY <1>9, <2>3, <3>2
      <4>2. /\ sessions[s].status # "none"
            /\ Pruned(now)[s].createdAt = sessions[s].createdAt
            /\ Dated(Pruned(now)[s])
        BY <1>4, <4>1, PrunedRow
      <4>3. s \in DOMAIN creations /\ sessions[s].createdAt = creations[s].at
        BY <4>2 DEF MockInv, History
      <4> QED
        BY <1>11, <4>1, <4>2, <4>3
    <3> QED
      BY <3>1, <3>2
  <2>4. ASSUME NEW i \in DOMAIN creations', sessions'[i].status = "none"
        PROVE  creations'[i].at + Window <= pruned'
    <3>1. i \in DOMAIN creations /\ i \in Ids /\ i # id
      BY <1>6, <1>9, <1>11, <2>4
    <3>2. creations'[i] = creations[i] /\ creations[i].at \in Nat /\ Window \in Nat
      BY <1>11, <3>1, PolicyTyped
    <3>3. Pruned(now)[i].status = "none"
      BY <1>9, <2>4, <3>1
    <3>4. sessions[i].status = "none" \/ sessions[i].createdAt + Window <= now
      BY <1>8, <3>1, <3>3 DEF Follows
    <3>5. CASE sessions[i].status = "none"
      <4>1. creations[i].at + Window <= pruned
        BY <3>1, <3>5 DEF MockInv, History
      <4> QED
        BY <1>4, <1>10, <3>2, <4>1
    <3>6. CASE sessions[i].status # "none" /\ sessions[i].createdAt + Window <= now
      <4>1. sessions[i].createdAt = creations[i].at
        BY <3>1, <3>6 DEF MockInv, History
      <4> QED
        BY <1>4, <1>10, <3>2, <3>6, <4>1
    <3> QED
      BY <3>4, <3>5, <3>6
  <2> QED
    BY <1>10, <2>1, <2>2, <2>3, <2>4 DEF History
<1>17. ActiveWithinLimits'
  <2>1. \A s \in OpenIn(sessions') \ {id} :
            s \in OpenIn(Pruned(now)) /\ sessions'[s].season = Pruned(now)[s].season
    BY <1>9 DEF OpenIn
  <2>2. id \notin OpenIn(Pruned(now))
    BY <1>12 DEF OpenIn, Open
  <2>3. HasRoom(Pruned(now), r.season, {}) /\ sessions'[id].season = r.season
    BY <1>3, <1>6, <1>9 DEF CreationAllowed
  <2>4. LimitsOn(sessions')
    BY <1>3, <1>8, <2>1, <2>2, <2>3, OneMoreOpen
  <2> QED
    BY <2>4 DEF LimitsOn, ActiveWithinLimits
<1>18. CreationsWithinRate'
  BY <1>2, <1>3, <1>4, CreateKeepsRate DEF made
<1>19. CheckedCommandsReplay'
  <2>1. \A s \in Ids : LogReplays(sessions'[s].log)
    BY <1>6, <1>8, <1>9 DEF Follows
  <2> QED
    BY <2>1 DEF CheckedCommandsReplay, LogReplays
<1> QED
  BY <1>14, <1>15, <1>16, <1>17, <1>18, <1>19 DEF MockInv

-----------------------------------------------------------------------------
(* Steps that only look, or only change what a request is about to do.     *)

LEMMA OnlyRequests ==
    ASSUME MockInv, NEW p \in Slots, NEW request, RequestOK(request), GoesOn(p, request),
           UNCHANGED <<sessions, clock, pruned, creations>>
    PROVE  MockInv'
<1>1. ASSUME NEW q \in Slots PROVE RequestOK(requests[q])'
  <2>1. PICK r : r = IF q = p THEN request ELSE requests[q]
    OBVIOUS
  <2>2. requests'[q] = r
    BY <2>1 DEF GoesOn, MockInv, MockTypeOK
  <2>3. RequestOK(requests[q])
    BY DEF MockInv
  <2>4. RequestOK(r)
    BY <2>1, <2>3 DEF RequestOK
  <2>5. sessions' = sessions /\ clock' = clock /\ creations' = creations
    OBVIOUS
  <2> QED
    BY <2>2, <2>4, <2>5 DEF RequestOK
<1>2. MockTypeOK'
  <2>1. request \in Requests
    BY DEF RequestOK
  <2> QED
    BY <2>1 DEF GoesOn, MockInv, MockTypeOK
<1>3. History' /\ ActiveWithinLimits' /\ CreationsWithinRate' /\ CheckedCommandsReplay'
  BY DEF MockInv, History, ActiveWithinLimits, OpenIn, CreationsWithinRate, CreatedBetween,
         CheckedCommandsReplay
<1> QED
  BY <1>1, <1>2, <1>3 DEF MockInv

LEMMA LookupKeeps ==
    ASSUME MockInv, Commits(clock, Pruned(clock)), UNCHANGED creations,
           NEW p \in Slots, NEW request, GoesOn(p, request), RequestOK(request)'
    PROVE  MockInv'
<1>1. PICK now : now = clock
  OBVIOUS
<1>2. now \in Nat /\ now <= clock
  BY <1>1 DEF MockInv, MockTypeOK
<1>3. Commits(now, Pruned(now))
  BY <1>1 DEF Commits, Pruned, Lapsed, Forgotten
<1> QED
  BY <1>2, <1>3, Pruning, Kept

LEMMA FailsKeeps == ASSUME MockInv, NEW p \in Slots, Fails(p) PROVE MockInv'
<1>1. RequestOK(Idle)
  <2>1. Idle \in Requests /\ Idle.op = "idle" /\ Idle.now = 0
    BY DEF Idle, Requests
  <2>2. clock \in Nat
    BY DEF MockInv, MockTypeOK
  <2> QED
    BY <2>1, <2>2 DEF RequestOK, Lookups, Writes
<1> QED
  BY <1>1, OnlyRequests DEF Fails, Ends

LEMMA TickKeeps == ASSUME MockInv, Tick PROVE MockInv'
<1>1. /\ clock \in Nat /\ clock' = clock + 1 /\ pruned \in Nat /\ pruned <= clock
      /\ sessions' = sessions /\ requests' = requests /\ pruned' = pruned /\ creations' = creations
  BY DEF Tick, MockInv, MockTypeOK, History
<1>2. ASSUME NEW q \in Slots PROVE RequestOK(requests[q])'
  <2>1. RequestOK(requests[q]) /\ requests[q].now \in Nat
    BY DEF MockInv, RequestOK, Requests
  <2>2. requests[q].now <= clock
    BY <2>1 DEF RequestOK
  <2>3. requests[q].now <= clock'
    BY <1>1, <2>1, <2>2
  <2> QED
    BY <1>1, <2>1, <2>3 DEF RequestOK
<1>3. MockTypeOK'
  BY <1>1 DEF MockInv, MockTypeOK
<1>4. History'
  <2>1. pruned <= clock'
    BY <1>1
  <2> QED
    BY <1>1, <2>1 DEF MockInv, History
<1>5. ActiveWithinLimits' /\ CreationsWithinRate' /\ CheckedCommandsReplay'
  BY <1>1 DEF MockInv, ActiveWithinLimits, OpenIn, CreationsWithinRate, CreatedBetween,
         CheckedCommandsReplay
<1> QED
  BY <1>2, <1>3, <1>4, <1>5 DEF MockInv

-----------------------------------------------------------------------------
(* Steps that write the row of a session.                                  *)

LEMMA Subject ==
    ASSUME MockInv, NEW p \in Slots, NEW r, r = requests[p], r.op \in Writes,
           Pruned(r.now)[r.session].status # "none"
    PROVE  /\ r \in Requests /\ r.session \in Ids /\ r.now \in Nat /\ r.now <= clock
           /\ LET row == Pruned(r.now)[r.session] IN
              /\ row \in Sessions /\ Dated(row)
              /\ row.createdAt <= r.now
              /\ Len(row.log) <= MaxCommands /\ LogReplays(row.log)
              /\ IsPrefixOf(row.log, row.log)
              /\ sessions[r.session].status # "none"
              /\ row.revision = sessions[r.session].revision
              /\ row.log = sessions[r.session].log
<1>1. RequestOK(r)
  <2>1. RequestOK(requests[p])
    BY DEF MockInv
  <2> QED
    BY <2>1 DEF RequestOK
<1>2. /\ r \in Requests /\ r.now \in Nat /\ r.now <= clock
      /\ r.session \in DOMAIN creations /\ creations[r.session].at <= r.now
  BY <1>1 DEF RequestOK, Requests
<1>3. r.session \in Ids
  BY <1>2, CreatedIds
<1> DEFINE row == Pruned(r.now)[r.session]
<1>4. /\ row \in Sessions /\ Dated(row)
      /\ sessions[r.session].status # "none"
      /\ row.revision = sessions[r.session].revision
      /\ row.log = sessions[r.session].log
      /\ row.createdAt = sessions[r.session].createdAt
      /\ Follows(r.session, sessions[r.session], row, r.now)
  BY <1>2, <1>3, PrunedRow
<1>5. row.createdAt <= r.now
  BY <1>2, <1>3, <1>4 DEF MockInv, History
<1>6. Len(row.log) <= MaxCommands /\ LogReplays(row.log)
  BY <1>4 DEF Follows
<1>7. IsPrefixOf(row.log, row.log)
  BY <1>4 DEF IsPrefixOf, Sessions
<1> QED
  BY <1>2, <1>3, <1>4, <1>5, <1>6, <1>7

LEMMA WriteKeeps ==
    ASSUME MockInv, NEW p \in Slots, NEW now \in Nat, now <= clock, NEW id \in Ids,
           NEW row \in Sessions,
           Pruned(now)[id].status # "none", row.status # "none",
           row.createdAt = Pruned(now)[id].createdAt, Dated(row),
           Len(row.log) <= MaxCommands, LogReplays(row.log),
           \/ row.revision = Pruned(now)[id].revision /\ IsPrefixOf(Pruned(now)[id].log, row.log)
           \/ row.revision > Pruned(now)[id].revision,
           LimitsOn([Pruned(now) EXCEPT ![id] = row]),
           Commits(now, [Pruned(now) EXCEPT ![id] = row]), UNCHANGED creations, Ends(p)
    PROVE  MockInv'
<1>1. /\ [Pruned(now) EXCEPT ![id] = row] \in [Ids -> Sessions]
      /\ \A s \in Ids : Follows(s, sessions[s], [Pruned(now) EXCEPT ![id] = row][s], now)
  BY WrittenRow
<1>2. PICK rows : rows = [Pruned(now) EXCEPT ![id] = row]
  OBVIOUS
<1>3. /\ rows \in [Ids -> Sessions]
      /\ \A s \in Ids : Follows(s, sessions[s], rows[s], now)
      /\ LimitsOn(rows)
      /\ Commits(now, rows)
  BY <1>1, <1>2 DEF Commits
<1>4. RequestOK(Idle)' /\ GoesOn(p, Idle)
  BY IdleKnows DEF MockInv, MockTypeOK, Commits, Ends
<1> QED
  BY <1>3, <1>4, Kept

\* The limits after a write that opens nothing.
LEMMA WriteWithinLimits ==
    ASSUME MockInv, NEW now \in Nat, NEW id \in Ids, NEW row,
           row.status \in Open => Pruned(now)[id].status \in Open,
           row.season = Pruned(now)[id].season
    PROVE  LimitsOn([Pruned(now) EXCEPT ![id] = row])
<1> DEFINE after == [Pruned(now) EXCEPT ![id] = row]
<1>1. Pruned(now) \in [Ids -> Sessions] /\ LimitsOn(Pruned(now))
  BY Pruning
<1>2. after[id] = row /\ \A s \in Ids \ {id} : after[s] = Pruned(now)[s]
  BY <1>1
<1> HIDE DEF after
<1>3. \A s \in OpenIn(after) : s \in OpenIn(Pruned(now)) /\ after[s].season = Pruned(now)[s].season
  BY <1>2 DEF OpenIn
<1>4. LimitsOn(after)
  BY <1>1, <1>3, FewerOpen
<1> QED
  BY <1>4 DEF after

LEMMA CompletedRow ==
    ASSUME NEW session \in Sessions, NEW now \in Nat, session.createdAt <= now
    PROVE  LET row == Completed(session, now) IN
           /\ row \in Sessions /\ row.status = "completed" /\ Dated(row)
           /\ row.season = session.season /\ row.createdAt = session.createdAt
           /\ row.revision = session.revision /\ row.log = session.log
<1> DEFINE row == Completed(session, now)
<1>1. row \in Sessions
  BY DEF Sessions, Completed
<1>2. /\ row.status = "completed" /\ row.endedAt = now /\ row.updatedAt = now
      /\ row.season = session.season /\ row.createdAt = session.createdAt
      /\ row.revision = session.revision /\ row.log = session.log
  BY DEF Sessions, Completed
<1> HIDE DEF row
<1>3. Dated(row)
  BY <1>2 DEF Dated
<1> QED
  BY <1>1, <1>2, <1>3 DEF row

LEMMA CompleteSessionKeeps ==
    ASSUME MockInv, NEW p \in Slots, CompleteSession(p)
    PROVE  MockInv'
<1>1. PICK r : r = requests[p]
  OBVIOUS
<1>2. PICK session : session = Pruned(r.now)[r.session]
  OBVIOUS
<1>3. /\ r.op = "complete" /\ session.status \in Open \cup {"completed"}
      /\ Commits(r.now, [Pruned(r.now) EXCEPT ![r.session] = Completed(@, r.now)])
      /\ Ends(p) /\ UNCHANGED creations
  BY <1>1, <1>2 DEF CompleteSession
<1>4. /\ r.session \in Ids /\ r.now \in Nat /\ r.now <= clock
      /\ session \in Sessions /\ session.createdAt <= r.now
      /\ Len(session.log) <= MaxCommands /\ LogReplays(session.log)
      /\ IsPrefixOf(session.log, session.log)
  BY <1>1, <1>2, <1>3, Subject DEF Writes, Open
<1>5. PICK row : row = Completed(session, r.now)
  OBVIOUS
<1>6. /\ row \in Sessions /\ row.status = "completed" /\ Dated(row)
      /\ row.season = session.season /\ row.createdAt = session.createdAt
      /\ row.revision = session.revision /\ row.log = session.log
  BY <1>4, <1>5, CompletedRow
<1>7. Commits(r.now, [Pruned(r.now) EXCEPT ![r.session] = row])
  BY <1>2, <1>3, <1>4, <1>5, Pruning DEF Commits
<1>8. LimitsOn([Pruned(r.now) EXCEPT ![r.session] = row])
  BY <1>2, <1>4, <1>6, WriteWithinLimits DEF Open
<1> QED
  BY <1>2, <1>3, <1>4, <1>6, <1>7, <1>8, WriteKeeps DEF Open

LEMMA AppendRetriedKeeps ==
    ASSUME MockInv, NEW p \in Slots, AppendRetried(p)
    PROVE  MockInv'
<1>1. PICK r : r = requests[p]
  OBVIOUS
<1>2. PICK session : session = Pruned(r.now)[r.session]
  OBVIOUS
<1>3. PICK row : row = IF r.finishes /\ session.status # "completed"
                       THEN Completed(session, r.now) ELSE session
  OBVIOUS
<1>4. /\ r.op = "append" /\ session.status # "none"
      /\ Commits(r.now, [Pruned(r.now) EXCEPT ![r.session] =
             IF r.finishes /\ session.status # "completed" THEN Completed(session, r.now) ELSE @])
      /\ Ends(p) /\ UNCHANGED creations
  BY <1>1, <1>2 DEF AppendRetried
<1>5. /\ r.session \in Ids /\ r.now \in Nat /\ r.now <= clock
      /\ session \in Sessions /\ session.createdAt <= r.now /\ Dated(session)
      /\ Len(session.log) <= MaxCommands /\ LogReplays(session.log)
      /\ IsPrefixOf(session.log, session.log)
  BY <1>1, <1>2, <1>4, Subject DEF Writes
<1>6. /\ row \in Sessions /\ Dated(row)
      /\ row.season = session.season /\ row.createdAt = session.createdAt
      /\ row.revision = session.revision /\ row.log = session.log
      /\ row.status # "none" /\ (row.status \in Open => session.status \in Open)
  <2>1. CASE r.finishes /\ session.status # "completed"
    <3>1. row = Completed(session, r.now)
      BY <1>3, <2>1
    <3> QED
      BY <1>5, <3>1, CompletedRow DEF Open
  <2>2. CASE ~(r.finishes /\ session.status # "completed")
    <3>1. row = session
      BY <1>3, <2>2
    <3> QED
      BY <1>4, <1>5, <3>1
  <2> QED
    BY <2>1, <2>2
<1>7. Commits(r.now, [Pruned(r.now) EXCEPT ![r.session] = row])
  BY <1>2, <1>3, <1>4, <1>5, Pruning DEF Commits
<1>8. LimitsOn([Pruned(r.now) EXCEPT ![r.session] = row])
  BY <1>2, <1>5, <1>6, WriteWithinLimits
<1> QED
  BY <1>2, <1>4, <1>5, <1>6, <1>7, <1>8, WriteKeeps

LEMMA AbandonSessionKeeps ==
    ASSUME MockInv, NEW p \in Slots, AbandonSession(p)
    PROVE  MockInv'
<1>1. PICK r : r = requests[p]
  OBVIOUS
<1>2. PICK session : session = Pruned(r.now)[r.session]
  OBVIOUS
<1>3. PICK row : row = [session EXCEPT !.status = "abandoned", !.endedAt = r.now, !.updatedAt = r.now]
  OBVIOUS
<1>4. /\ r.op = "abandon" /\ session.status \in Open
      /\ Commits(r.now, [Pruned(r.now) EXCEPT ![r.session] = row])
      /\ Ends(p) /\ UNCHANGED creations
  BY <1>1, <1>2, <1>3 DEF AbandonSession, Commits
<1>5. /\ r.session \in Ids /\ r.now \in Nat /\ r.now <= clock
      /\ session \in Sessions /\ session.createdAt <= r.now
      /\ Len(session.log) <= MaxCommands /\ LogReplays(session.log)
      /\ IsPrefixOf(session.log, session.log)
  BY <1>1, <1>2, <1>4, Subject DEF Writes, Open
<1>6. row \in Sessions
  BY <1>3, <1>5 DEF Sessions
<1>7. /\ row.status = "abandoned" /\ row.endedAt = r.now /\ row.updatedAt = r.now
      /\ row.season = session.season /\ row.createdAt = session.createdAt
      /\ row.revision = session.revision /\ row.log = session.log
  BY <1>3, <1>5 DEF Sessions
<1>8. Dated(row)
  BY <1>5, <1>7 DEF Dated
<1>9. LimitsOn([Pruned(r.now) EXCEPT ![r.session] = row])
  BY <1>2, <1>5, <1>7, WriteWithinLimits DEF Open
<1> QED
  BY <1>2, <1>4, <1>5, <1>6, <1>7, <1>8, <1>9, WriteKeeps DEF Open

LEMMA ResetSessionKeeps ==
    ASSUME MockInv, NEW p \in Slots, ResetSession(p)
    PROVE  MockInv'
<1>1. PICK r : r = requests[p]
  OBVIOUS
<1>2. PICK session : session = Pruned(r.now)[r.session]
  OBVIOUS
<1>3. PICK row : row = [session EXCEPT !.status = "open", !.revision = @ + 1, !.log = << >>,
                                       !.endedAt = 0, !.updatedAt = r.now]
  OBVIOUS
<1>4. /\ r.op = "reset" /\ session.status \in Open \cup {"completed"}
      /\ HasRoom(Pruned(r.now), session.season, {r.session})
      /\ Commits(r.now, [Pruned(r.now) EXCEPT ![r.session] = row])
      /\ Ends(p) /\ UNCHANGED creations
  BY <1>1, <1>2, <1>3 DEF ResetSession, Commits
<1>5. /\ r.session \in Ids /\ r.now \in Nat /\ r.now <= clock
      /\ session \in Sessions /\ session.createdAt <= r.now
  BY <1>1, <1>2, <1>4, Subject DEF Writes, Open
<1>6. session.revision + 1 \in Nat /\ session.revision + 1 > session.revision
  <2>1. session.revision \in Nat
    BY <1>5 DEF Sessions
  <2> QED
    BY <2>1
<1>7. row \in Sessions
  <2>1. PICK next : next = session.revision + 1
    OBVIOUS
  <2>2. PICK none : none = << >>
    OBVIOUS
  <2>3. none \in Seq(Commands) /\ next \in Nat
    BY <1>6, <2>1, <2>2
  <2>4. row = [session EXCEPT !.status = "open", !.revision = next, !.log = none,
                              !.endedAt = 0, !.updatedAt = r.now]
    BY <1>3, <2>1, <2>2
  <2>5. row = [season |-> session.season, status |-> "open", revision |-> next, log |-> none,
               createdAt |-> session.createdAt, updatedAt |-> r.now, endedAt |-> 0]
    BY <1>5, <2>3, <2>4 DEF Sessions
  <2> QED
    BY <1>5, <2>3, <2>5 DEF Sessions
<1>8. /\ row.status = "open" /\ row.updatedAt = r.now
      /\ row.season = session.season /\ row.createdAt = session.createdAt
      /\ row.revision = session.revision + 1 /\ row.log = << >>
  BY <1>3, <1>5 DEF Sessions
<1>9. Dated(row) /\ Len(row.log) <= MaxCommands /\ LogReplays(row.log)
  <2>1. 0 <= MaxCommands
    BY PolicyTyped
  <2> QED
    BY <1>5, <1>8, <2>1 DEF Dated, Ended, LogReplays
<1>10. LimitsOn([Pruned(r.now) EXCEPT ![r.session] = row])
  <2> DEFINE before == Pruned(r.now)
             after == [before EXCEPT ![r.session] = row]
  <2>1. before \in [Ids -> Sessions] /\ LimitsOn(before)
    BY <1>5, Pruning
  <2>2. after[r.session] = row /\ \A s \in Ids \ {r.session} : after[s] = before[s]
    BY <1>5, <2>1
  <2> HIDE DEF after, before
  <2>3. \A s \in OpenIn(after) \ {r.session} : s \in OpenIn(before) /\ after[s].season = before[s].season
    BY <2>2 DEF OpenIn
  <2>4. HasRoom(before, session.season, {r.session}) /\ after[r.session].season = session.season
    BY <1>4, <1>8, <2>2 DEF before
  <2>5. LimitsOn(after)
    BY <1>5, <2>1, <2>3, <2>4, OneMoreOpen
  <2> QED
    BY <2>5 DEF after, before
<1>11. session.status # "none" /\ row.status # "none" /\ row.revision > session.revision
  BY <1>4, <1>6, <1>8 DEF Open
<1> QED
  BY <1>2, <1>4, <1>5, <1>7, <1>8, <1>9, <1>10, <1>11, WriteKeeps

-----------------------------------------------------------------------------
(* Appending.                                                              *)

\* The start of a log with one command more is a start of the log, or is all.
LEMMA AppendedLog ==
    ASSUME NEW log \in Seq(Commands), NEW command \in Commands, LogReplays(log),
           command.checked => Replays(Append(TextsOf(log), command.text))
    PROVE  /\ Append(log, command) \in Seq(Commands)
           /\ Len(Append(log, command)) = Len(log) + 1
           /\ IsPrefixOf(log, Append(log, command))
           /\ LogReplays(Append(log, command))
<1>1. PICK new : new = Append(log, command)
  OBVIOUS
<1>2. /\ new \in Seq(Commands) /\ Len(new) = Len(log) + 1 /\ Len(log) \in Nat
      /\ DOMAIN new = 1..(Len(log) + 1) /\ DOMAIN log = 1..Len(log)
      /\ \A i \in 1..Len(log) : new[i] = log[i]
      /\ new[Len(log) + 1] = command
  BY <1>1
<1>3. IsPrefixOf(log, new)
  BY <1>2 DEF IsPrefixOf
<1>4. ASSUME NEW i \in DOMAIN new, new[i].checked
      PROVE  Replays(TextsOf(SubSeq(new, 1, i)))
  <2>1. CASE i \in 1..Len(log)
    <3>1. SubSeq(new, 1, i) = SubSeq(log, 1, i)
      BY <1>2, <2>1
    <3>2. i \in DOMAIN log /\ log[i].checked
      BY <1>2, <1>4, <2>1
    <3> QED
      BY <3>1, <3>2 DEF LogReplays
  <2>2. CASE i = Len(log) + 1
    <3>1. SubSeq(new, 1, i) = new
      BY <1>2, <2>2
    <3>2. TextsOf(new) = Append(TextsOf(log), command.text)
      <4>1. TextsOf(new) = [k \in 1..(Len(log) + 1) |-> new[k].text]
        BY <1>2 DEF TextsOf
      <4>2. TextsOf(log) = [k \in 1..Len(log) |-> log[k].text]
        BY <1>2 DEF TextsOf
      <4>3. \A k \in 1..Len(log) : new[k].text = log[k].text
        BY <1>2
      <4>4. new[Len(log) + 1].text = command.text
        BY <1>2
      <4>5. Len(TextsOf(log)) = Len(log)
        BY <1>2, <4>2
      <4> QED
        BY <1>2, <4>1, <4>2, <4>3, <4>4, <4>5
    <3>3. command.checked
      BY <1>2, <1>4, <2>2
    <3> QED
      BY <3>1, <3>2, <3>3
  <2> QED
    BY <1>2, <2>1, <2>2
<1> QED
  BY <1>1, <1>2, <1>3, <1>4 DEF LogReplays

LEMMA AppendCommandKeeps ==
    ASSUME MockInv, NEW p \in Slots, AppendCommand(p)
    PROVE  MockInv'
<1>1. PICK r : r = requests[p]
  OBVIOUS
<1>2. PICK session : session = Pruned(r.now)[r.session]
  OBVIOUS
<1>3. PICK appended : appended = [session EXCEPT !.log = Append(@, r.command), !.updatedAt = r.now]
  OBVIOUS
<1>4. PICK row : row = IF r.finishes THEN Completed(appended, r.now) ELSE appended
  OBVIOUS
<1>5. /\ r.op = "append" /\ session.status \in Open
      /\ session.revision = r.revision
      /\ Len(session.log) = r.count /\ Len(session.log) < MaxCommands
      /\ Commits(r.now, [Pruned(r.now) EXCEPT ![r.session] = row])
      /\ Ends(p) /\ UNCHANGED creations
  BY <1>1, <1>2, <1>3, <1>4 DEF AppendCommand, Commits
<1>6. /\ r \in Requests /\ r.session \in Ids /\ r.now \in Nat /\ r.now <= clock
      /\ session \in Sessions /\ session.createdAt <= r.now
      /\ LogReplays(session.log)
      /\ sessions[r.session].status # "none"
      /\ session.revision = sessions[r.session].revision
      /\ session.log = sessions[r.session].log
  BY <1>1, <1>2, <1>5, Subject DEF Writes, Open
<1>7. r.command \in Commands /\ (r.command.checked => Replays(Append(TextsOf(session.log), r.command.text)))
  <2>1. RequestOK(requests[p])
    BY DEF MockInv
  <2>2. RequestOK(r)
    BY <1>1, <2>1 DEF RequestOK
  <2>3. r.command \in Commands
    BY <1>5, <2>2 DEF RequestOK
  <2>4. ASSUME r.command.checked PROVE Replays(Append(TextsOf(session.log), r.command.text))
    BY <1>5, <1>6, <2>2, <2>4 DEF RequestOK
  <2> QED
    BY <2>3, <2>4
<1>8. PICK log : log = Append(session.log, r.command)
  OBVIOUS
<1>9. session.log \in Seq(Commands) /\ Len(session.log) \in Nat
  BY <1>6 DEF Sessions
<1>10. /\ log \in Seq(Commands) /\ Len(log) = Len(session.log) + 1
       /\ IsPrefixOf(session.log, log) /\ LogReplays(log)
  BY <1>6, <1>7, <1>8, <1>9, AppendedLog
<1>11. appended = [session EXCEPT !.log = log, !.updatedAt = r.now]
  BY <1>3, <1>8
<1>12. appended \in Sessions
  BY <1>6, <1>10, <1>11 DEF Sessions
<1>13. /\ appended.status = session.status /\ appended.log = log /\ appended.updatedAt = r.now
       /\ appended.season = session.season /\ appended.createdAt = session.createdAt
       /\ appended.revision = session.revision
  BY <1>6, <1>11 DEF Sessions
<1>14. Dated(appended)
  BY <1>5, <1>6, <1>13 DEF Dated, Open, Ended
<1>15. /\ row \in Sessions /\ Dated(row)
       /\ row.season = session.season /\ row.createdAt = session.createdAt
       /\ row.revision = session.revision /\ row.log = log
       /\ row.status # "none" /\ (row.status \in Open => session.status \in Open)
  <2>1. CASE r.finishes
    <3>1. row = Completed(appended, r.now)
      BY <1>4, <2>1
    <3> QED
      BY <1>6, <1>12, <1>13, <3>1, CompletedRow DEF Open
  <2>2. CASE ~r.finishes
    <3>1. row = appended
      BY <1>4, <2>2
    <3> QED
      BY <1>5, <1>12, <1>13, <1>14, <3>1 DEF Open
  <2> QED
    BY <2>1, <2>2
<1>16. Len(row.log) <= MaxCommands
  <2>1. MaxCommands \in Nat
    BY PolicyTyped
  <2> QED
    BY <1>5, <1>9, <1>10, <1>15, <2>1
<1>17. LimitsOn([Pruned(r.now) EXCEPT ![r.session] = row])
  BY <1>2, <1>6, <1>15, WriteWithinLimits
<1> QED
  BY <1>2, <1>5, <1>6, <1>10, <1>15, <1>16, <1>17, WriteKeeps DEF Open

-----------------------------------------------------------------------------
(* Asking, and looking up what a command needs.                            *)

LEMMA IdleTyped ==
    /\ Idle \in Requests /\ Idle.op = "idle" /\ Idle.now = 0
    /\ Idle.log = << >> /\ Idle.revision = 0 /\ Idle.session = 0
  BY DEF Idle, Requests

LEMMA AskToCreateKeeps ==
    ASSUME MockInv, NEW p \in Slots, NEW season \in Seasons,
           AskToCreate(p, season) \/ AssertCreationAllowed(p, season)
    PROVE  MockInv'
<1>1. PICK request : request = [Idle EXCEPT !.op = "create", !.now = clock, !.season = season]
  OBVIOUS
<1>2. clock \in Nat
  BY DEF MockInv, MockTypeOK
<1>3. request \in Requests /\ request.op = "create" /\ request.now = clock
  BY <1>1, <1>2, IdleTyped DEF Requests
<1>4. RequestOK(request)
  BY <1>2, <1>3 DEF RequestOK, Lookups, Writes
<1>5. CASE AskToCreate(p, season)
  <2>1. GoesOn(p, request) /\ UNCHANGED <<sessions, clock, pruned, creations>>
    BY <1>1, <1>5 DEF AskToCreate, Asks, GoesOn
  <2> QED
    BY <1>4, <2>1, OnlyRequests
<1>6. CASE AssertCreationAllowed(p, season)
  <2>1. Commits(clock, Pruned(clock)) /\ GoesOn(p, request) /\ UNCHANGED creations
    BY <1>1, <1>6 DEF AssertCreationAllowed, GoesOn
  <2>2. clock' = clock
    BY <2>1 DEF Commits
  <2>3. RequestOK(request)'
    BY <1>2, <1>3, <2>2 DEF RequestOK, Lookups, Writes
  <2> QED
    BY <2>1, <2>3, LookupKeeps
<1> QED
  BY <1>5, <1>6

LEMMA KnownCreated ==
    ASSUME MockInv, NEW s, Known(s)
    PROVE  s \in DOMAIN creations /\ s \in Ids /\ creations[s].at <= clock
<1>1. s \in DOMAIN creations /\ s \in Ids
  BY CreatedIds DEF Known
<1>2. creations[s].at \in Nat /\ creations[s].at <= pruned
  BY <1>1, CreatedIds
<1>3. pruned \in Nat /\ clock \in Nat /\ pruned <= clock
  BY DEF MockInv, MockTypeOK, History
<1> QED
  BY <1>1, <1>2, <1>3

LEMMA CommandTyped ==
    ASSUME NEW submission \in Submissions, NEW checked \in BOOLEAN
    PROVE  /\ Command(submission, checked) \in Commands
           /\ Command(submission, checked).checked = checked
  BY PolicyTyped DEF Command, Commands

LEMMA AskToAppendKeeps ==
    ASSUME MockInv, NEW p \in Slots, NEW s \in Played, NEW submission \in Submissions,
           AskToAppend(p, s, submission)
    PROVE  MockInv'
<1>1. PICK command : command = Command(submission, FALSE)
  OBVIOUS
<1>2. PICK revision : revision = sessions[s].revision
  OBVIOUS
<1>3. PICK count : count = Len(sessions[s].log)
  OBVIOUS
<1>4. PICK request : request = [Idle EXCEPT !.op = "append", !.now = clock, !.session = s,
                                           !.revision = revision, !.count = count,
                                           !.command = command]
  OBVIOUS
<1>5. /\ s \in DOMAIN creations /\ s \in Ids /\ creations[s].at <= clock /\ clock \in Nat
  BY KnownCreated DEF AskToAppend, MockInv, MockTypeOK
<1>6. command \in Commands /\ command.checked = FALSE
  BY <1>1, CommandTyped
<1>7. revision \in Nat /\ count \in Nat
  <2>1. sessions[s] \in Sessions
    BY <1>5 DEF MockInv, MockTypeOK
  <2>2. sessions[s].revision \in Nat /\ sessions[s].log \in Seq(Commands)
    BY <2>1 DEF Sessions
  <2> QED
    BY <1>2, <1>3, <2>2
<1>8. request \in Requests
  BY <1>4, <1>5, <1>6, <1>7, IdleTyped DEF Requests
<1>9. request.op = "append" /\ request.now = clock /\ request.session = s /\ request.command = command
  BY <1>4, <1>5, <1>6, <1>7, IdleTyped DEF Requests
<1>10. RequestOK(request)
  BY <1>5, <1>6, <1>8, <1>9 DEF RequestOK, Lookups, Writes
<1>11. GoesOn(p, request) /\ UNCHANGED <<sessions, clock, pruned, creations>>
  BY <1>1, <1>2, <1>3, <1>4 DEF AskToAppend, Asks, GoesOn
<1> QED
  BY <1>10, <1>11, OnlyRequests

LEMMA AskToEndKeeps ==
    ASSUME MockInv, NEW p \in Slots, NEW s \in Played, NEW op \in {"reset", "abandon"},
           AskToEnd(p, s, op)
    PROVE  MockInv'
<1>1. PICK revision : revision = sessions[s].revision
  OBVIOUS
<1>2. PICK request : request = [Idle EXCEPT !.op = op, !.now = clock, !.session = s,
                                           !.revision = revision]
  OBVIOUS
<1>3. /\ s \in DOMAIN creations /\ s \in Ids /\ creations[s].at <= clock /\ clock \in Nat
  BY KnownCreated DEF AskToEnd, MockInv, MockTypeOK
<1>4. revision \in Nat
  <2>1. sessions[s] \in Sessions
    BY <1>3 DEF MockInv, MockTypeOK
  <2> QED
    BY <1>1, <2>1 DEF Sessions
<1>5. request \in Requests
  BY <1>2, <1>3, <1>4, IdleTyped DEF Requests
<1>6. request.op = op /\ request.now = clock /\ request.session = s
  BY <1>2, <1>3, <1>4, IdleTyped DEF Requests
<1>7. RequestOK(request)
  BY <1>3, <1>5, <1>6 DEF RequestOK, Lookups, Writes
<1>8. GoesOn(p, request) /\ UNCHANGED <<sessions, clock, pruned, creations>>
  BY <1>1, <1>2 DEF AskToEnd, Asks, GoesOn
<1> QED
  BY <1>7, <1>8, OnlyRequests

LEMMA FindSessionKeeps ==
    ASSUME MockInv, NEW p \in Slots, NEW s \in Played, NEW submission \in Submissions,
           FindSession(p, s, submission)
    PROVE  MockInv'
<1>1. PICK command : command = Command(submission, TRUE)
  OBVIOUS
<1>2. PICK found : found = Pruned(clock)[s]
  OBVIOUS
<1>3. PICK request : request = [Idle EXCEPT !.op = "retry", !.session = s, !.command = command,
                                           !.revision = found.revision, !.log = found.log]
  OBVIOUS
<1>4. /\ found.status # "none" /\ Commits(clock, Pruned(clock))
      /\ GoesOn(p, request) /\ UNCHANGED creations
  BY <1>1, <1>2, <1>3 DEF FindSession, GoesOn
<1>5. s \in Ids /\ clock \in Nat
  BY PolicyTyped DEF Ids, MockInv, MockTypeOK
<1>6. found \in Sessions /\ sessions[s].status # "none"
  BY <1>2, <1>4, <1>5, PrunedRow
<1>7. s \in DOMAIN creations
  BY <1>5, <1>6 DEF MockInv, History
<1>8. command \in Commands
  BY <1>1, CommandTyped
<1>9. found.revision \in Nat /\ found.log \in Seq(Commands) /\ IsPrefixOf(found.log, found.log)
  BY <1>6 DEF Sessions, IsPrefixOf
<1>10. request \in Requests
  BY <1>3, <1>5, <1>8, <1>9, IdleTyped DEF Requests
<1>11. /\ request.op = "retry" /\ request.now = 0 /\ request.session = s /\ request.command = command
       /\ request.revision = found.revision /\ request.log = found.log
  BY <1>3, <1>5, <1>8, <1>9, IdleTyped DEF Requests
<1>12. sessions'[s] = found /\ clock' = clock /\ creations' = creations
  BY <1>2, <1>4 DEF Commits
<1>13. RequestOK(request)'
  BY <1>5, <1>7, <1>8, <1>9, <1>10, <1>11, <1>12 DEF RequestOK, Lookups, Writes
<1> QED
  BY <1>4, <1>13, LookupKeeps

\* What a request that is about to look its command up still knows then.
LEMMA LookedUp ==
    ASSUME MockInv, NEW p \in Slots, NEW r, r = requests[p], r.op = "retry",
           Commits(clock, Pruned(clock)), UNCHANGED creations
    PROVE  /\ r \in Requests /\ r.session \in Ids /\ r.command \in Commands
           /\ r.session \in DOMAIN creations /\ creations[r.session].at <= clock
           /\ clock \in Nat /\ clock' = clock
           /\ sessions' = Pruned(clock) /\ sessions'[r.session] \in Sessions
           /\ RequestOK(r)'
<1>1. RequestOK(r)
  <2>1. RequestOK(requests[p])
    BY DEF MockInv
  <2> QED
    BY <2>1 DEF RequestOK
<1>2. r \in Requests /\ r.command \in Commands /\ r.session \in DOMAIN creations
  BY <1>1 DEF RequestOK, Lookups, Writes
<1>3. r.session \in Ids /\ creations[r.session].at <= clock /\ clock \in Nat
  <2>1. Known(r.session)
    BY <1>2, CreatedIds DEF Known
  <2> QED
    BY <2>1, KnownCreated DEF MockInv, MockTypeOK
<1>4. clock' = clock /\ sessions' = Pruned(clock)
  BY DEF Commits
<1>5. sessions'[r.session] \in Sessions
  BY <1>3, <1>4, PrunedRow
<1>6. RequestOK(r)'
  <2>1. PICK now : now = clock
    OBVIOUS
  <2>2. PICK rows : rows = Pruned(clock)
    OBVIOUS
  <2>3. now \in Nat /\ now <= clock /\ rows \in [Ids -> Sessions]
    BY <1>3, <2>1, <2>2, Pruning
  <2>4. \A s \in Ids : Follows(s, sessions[s], rows[s], now)
    BY <1>3, <2>1, <2>2, Pruning
  <2>5. Commits(now, rows)
    BY <2>1, <2>2 DEF Commits
  <2> QED
    BY <1>1, <2>3, <2>4, <2>5, CreatesNothing
<1> QED
  BY <1>2, <1>3, <1>4, <1>5, <1>6

LEMMA FindStoredRetryKeeps ==
    ASSUME MockInv, NEW p \in Slots, FindStoredRetry(p)
    PROVE  MockInv'
<1>1. PICK r : r = requests[p]
  OBVIOUS
<1>2. PICK session : session = Pruned(clock)[r.session]
  OBVIOUS
<1>3. PICK request : request = [r EXCEPT !.op = "complete", !.now = clock, !.log = << >>,
                                        !.revision = session.revision]
  OBVIOUS
<1>4. /\ r.op = "retry" /\ Commits(clock, Pruned(clock)) /\ UNCHANGED creations
      /\ GoesOn(p, request) \/ GoesOn(p, Idle)
  BY <1>1, <1>2, <1>3 DEF FindStoredRetry, Ends, GoesOn
<1>5. /\ r \in Requests /\ r.session \in Ids
      /\ r.session \in DOMAIN creations /\ creations[r.session].at <= clock
      /\ clock \in Nat /\ clock' = clock /\ creations' = creations
      /\ session \in Sessions
  BY <1>1, <1>2, <1>4, LookedUp
<1>6. session.revision \in Nat /\ << >> \in Seq(Commands)
  BY <1>5 DEF Sessions
<1>7. request \in Requests
  BY <1>3, <1>5, <1>6 DEF Requests
<1>8. request.op = "complete" /\ request.now = clock /\ request.session = r.session
  BY <1>3, <1>5, <1>6 DEF Requests
<1>9. RequestOK(request)'
  BY <1>5, <1>7, <1>8 DEF RequestOK, Lookups, Writes
<1>10. RequestOK(Idle)'
  BY <1>5, IdleKnows
<1> QED
  BY <1>4, <1>9, <1>10, LookupKeeps

LEMMA ReplayWithCommandKeeps ==
    ASSUME MockInv, NEW p \in Slots, ReplayWithCommand(p)
    PROVE  MockInv'
<1>1. PICK r : r = requests[p]
  OBVIOUS
<1>2. PICK texts : texts = Append(TextsOf(r.log), r.command.text)
  OBVIOUS
<1>3. PICK finishes : finishes = Finishes(texts)
  OBVIOUS
<1>4. PICK request : request = [r EXCEPT !.op = "append", !.now = clock, !.log = << >>,
                                        !.count = Len(r.log), !.finishes = finishes]
  OBVIOUS
<1>5. /\ r.op = "retry" /\ Commits(clock, Pruned(clock)) /\ UNCHANGED creations
      /\ IF Replays(texts) THEN GoesOn(p, request) ELSE GoesOn(p, Idle)
  BY <1>1, <1>2, <1>3, <1>4 DEF ReplayWithCommand, Ends, GoesOn
<1>6. /\ r \in Requests /\ r.session \in Ids /\ r.command \in Commands
      /\ r.session \in DOMAIN creations /\ creations[r.session].at <= clock
      /\ clock \in Nat /\ clock' = clock /\ creations' = creations
      /\ sessions'[r.session] \in Sessions
      /\ RequestOK(r)'
  BY <1>1, <1>5, LookedUp
<1>7. CASE Replays(texts)
  <2>1. r.log \in Seq(Commands) /\ Len(r.log) \in Nat /\ << >> \in Seq(Commands)
    BY <1>6 DEF Requests
  <2>2. request \in Requests
    <3>1. finishes \in BOOLEAN
      BY <1>3 DEF Finishes
    <3>2. PICK count : count = Len(r.log)
      OBVIOUS
    <3>3. PICK none : none = << >>
      OBVIOUS
    <3>4. count \in Nat /\ none \in Seq(Commands)
      BY <2>1, <3>2, <3>3
    <3>5. request = [r EXCEPT !.op = "append", !.now = clock, !.log = none,
                              !.count = count, !.finishes = finishes]
      BY <1>4, <3>2, <3>3
    <3> QED
      BY <1>6, <3>1, <3>4, <3>5 DEF Requests
  <2>3. /\ request.op = "append" /\ request.now = clock /\ request.session = r.session
        /\ request.command = r.command /\ request.revision = r.revision /\ request.count = Len(r.log)
    BY <1>4, <1>6, <2>1 DEF Requests
  <2>4. ASSUME sessions'[r.session].status # "none"
        PROVE  /\ r.revision <= sessions'[r.session].revision
               /\ r.revision = sessions'[r.session].revision =>
                   /\ Len(r.log) <= Len(sessions'[r.session].log)
                   /\ Len(r.log) = Len(sessions'[r.session].log) =>
                       Replays(Append(TextsOf(sessions'[r.session].log), r.command.text))
    <3>1. /\ r.revision <= sessions'[r.session].revision
          /\ r.revision = sessions'[r.session].revision => IsPrefixOf(r.log, sessions'[r.session].log)
      BY <1>5, <1>6, <2>4 DEF RequestOK
    <3>2. ASSUME IsPrefixOf(r.log, sessions'[r.session].log)
          PROVE  /\ Len(r.log) <= Len(sessions'[r.session].log)
                 /\ Len(r.log) = Len(sessions'[r.session].log) =>
                     Replays(Append(TextsOf(sessions'[r.session].log), r.command.text))
      <4>1. PICK log : log = sessions'[r.session].log
        OBVIOUS
      <4>2. log \in Seq(Commands) /\ IsPrefixOf(r.log, log)
        BY <1>6, <3>2, <4>1 DEF Sessions
      <4>3. Len(r.log) <= Len(log)
        BY <4>2 DEF IsPrefixOf
      <4>4. ASSUME Len(r.log) = Len(log) PROVE Replays(Append(TextsOf(log), r.command.text))
        <5>1. TextsOf(r.log) = TextsOf(log)
          BY <2>1, <4>2, <4>4, SameTexts
        <5> QED
          BY <1>2, <1>7, <5>1
      <4> QED
        BY <4>1, <4>3, <4>4
    <3> QED
      BY <3>1, <3>2
  <2>5. RequestOK(request)'
    BY <1>6, <2>2, <2>3, <2>4 DEF RequestOK, Lookups, Writes
  <2> QED
    BY <1>5, <1>7, <2>5, LookupKeeps
<1>8. CASE ~Replays(texts)
  <2>1. RequestOK(Idle)'
    BY <1>6, IdleKnows
  <2> QED
    BY <1>5, <1>8, <2>1, LookupKeeps
<1> QED
  BY <1>7, <1>8

LEMMA ReadSessionsKeeps == ASSUME MockInv, ReadSessions PROVE MockInv'
<1>1. PICK now : now = clock
  OBVIOUS
<1>2. PICK rows : rows = Pruned(clock)
  OBVIOUS
<1>3. /\ now \in Nat /\ now <= clock /\ rows \in [Ids -> Sessions]
      /\ \A s \in Ids : Follows(s, sessions[s], rows[s], now)
      /\ LimitsOn(rows)
  <2>1. clock \in Nat
    BY DEF MockInv, MockTypeOK
  <2> QED
    BY <1>1, <1>2, <2>1, Pruning
<1>4. Commits(now, rows) /\ requests' = requests /\ creations' = creations
  BY <1>1, <1>2 DEF ReadSessions, Commits
<1>5. /\ sessions' \in [Ids -> Sessions]
      /\ \A s \in Ids : Len(sessions'[s].log) <= MaxCommands
      /\ clock' \in Nat /\ pruned' \in Nat
      /\ creations' \in Seq([at : Nat, late : BOOLEAN])
      /\ History' /\ CreationsWithinRate' /\ CheckedCommandsReplay'
      /\ \A r : RequestOK(r) => RequestOK(r)'
  BY <1>3, <1>4, CreatesNothing
<1>6. MockTypeOK'
  BY <1>4, <1>5 DEF MockInv, MockTypeOK
<1>7. ASSUME NEW q \in Slots PROVE RequestOK(requests[q])'
  <2>1. PICK r : r = requests[q]
    OBVIOUS
  <2>2. RequestOK(requests[q])
    BY DEF MockInv
  <2>3. RequestOK(r)
    BY <2>1, <2>2 DEF RequestOK
  <2>4. RequestOK(r)' /\ requests'[q] = r
    BY <1>4, <1>5, <2>1, <2>3
  <2> QED
    BY <2>4 DEF RequestOK
<1>8. ActiveWithinLimits'
  BY <1>3, <1>4 DEF Commits, ActiveWithinLimits, LimitsOn
<1> QED
  BY <1>5, <1>6, <1>7, <1>8 DEF MockInv

-----------------------------------------------------------------------------
LEMMA MockInitInv == MockInit => MockInv
<1> SUFFICES ASSUME MockInit PROVE MockInv
  OBVIOUS
<1>1. /\ sessions = [s \in Ids |-> NoSession] /\ requests = [p \in Slots |-> Idle]
      /\ clock = 0 /\ pruned = 0 /\ creations = << >>
  BY DEF MockInit
<1>2. MockTypeOK
  <2>1. /\ sessions \in [Ids -> Sessions] /\ requests \in [Slots -> Requests]
    BY <1>1, NoSessionTyped, IdleTyped
  <2>2. \A s \in Ids : Len(sessions[s].log) <= MaxCommands
    BY <1>1, NoSessionTyped, PolicyTyped
  <2>3. << >> \in Seq([at : Nat, late : BOOLEAN])
    OBVIOUS
  <2> QED
    BY <1>1, <2>1, <2>2, <2>3 DEF MockTypeOK
<1>3. \A s \in Ids : sessions[s].status = "none" /\ sessions[s].log = << >>
  BY <1>1 DEF NoSession
<1>4. DOMAIN creations = {} /\ Len(creations) = 0
  BY <1>1
<1>5. History
  <2>1. 0 <= MaxSessions
    BY PolicyTyped
  <2> QED
    BY <1>1, <1>3, <1>4, <2>1 DEF History
<1>6. ASSUME NEW q \in Slots PROVE RequestOK(requests[q])
  <2>1. requests[q] = Idle
    BY <1>1
  <2> QED
    BY <1>1, <2>1, IdleTyped DEF RequestOK, Lookups, Writes
<1>7. ActiveWithinLimits
  <2>1. OpenIn(sessions) = {}
    BY <1>3 DEF OpenIn, Open
  <2>2. Cardinality({}) = 0
    BY FS_EmptySet
  <2>3. \A season \in Seasons : {s \in OpenIn(sessions) : sessions[s].season = season} = {}
    BY <2>1
  <2>4. 0 <= MaxActive /\ 0 <= MaxActiveOfSeason
    BY PolicyTyped
  <2> QED
    BY <2>1, <2>2, <2>3, <2>4 DEF ActiveWithinLimits
<1>8. CreationsWithinRate
  BY <1>4 DEF CreationsWithinRate
<1>9. CheckedCommandsReplay
  BY <1>3 DEF CheckedCommandsReplay
<1> QED
  BY <1>2, <1>5, <1>6, <1>7, <1>8, <1>9 DEF MockInv

LEMMA MockStepInv == MockInv /\ [MockNext]_mockVars => MockInv'
<1> SUFFICES ASSUME MockInv, [MockNext]_mockVars PROVE MockInv'
  OBVIOUS
<1>1. CASE Tick
  BY <1>1, TickKeeps
<1>2. CASE ReadSessions
  BY <1>2, ReadSessionsKeeps
<1>3. ASSUME NEW p \in Slots, NEW season \in Seasons,
             AskToCreate(p, season) \/ AssertCreationAllowed(p, season)
      PROVE  MockInv'
  BY <1>3, AskToCreateKeeps
<1>4. ASSUME NEW p \in Slots, NEW s \in Played, NEW submission \in Submissions,
             FindSession(p, s, submission) \/ AskToAppend(p, s, submission)
      PROVE  MockInv'
  BY <1>4, FindSessionKeeps, AskToAppendKeeps
<1>5. ASSUME NEW p \in Slots, NEW s \in Played, NEW op \in {"reset", "abandon"}, AskToEnd(p, s, op)
      PROVE  MockInv'
  BY <1>5, AskToEndKeeps
<1>6. ASSUME NEW p \in Slots,
             \/ CreateSession(p) \/ FindStoredRetry(p) \/ ReplayWithCommand(p)
             \/ AppendCommand(p) \/ AppendRetried(p) \/ CompleteSession(p)
             \/ ResetSession(p) \/ AbandonSession(p) \/ Fails(p)
      PROVE  MockInv'
  BY <1>6, CreateSessionKeeps, FindStoredRetryKeeps, ReplayWithCommandKeeps, AppendCommandKeeps,
     AppendRetriedKeeps, CompleteSessionKeeps, ResetSessionKeeps, AbandonSessionKeeps, FailsKeeps
<1>7. CASE UNCHANGED mockVars
  <2>1. /\ sessions' = sessions /\ requests' = requests /\ clock' = clock
        /\ pruned' = pruned /\ creations' = creations
    BY <1>7 DEF mockVars
  <2>2. MockTypeOK' /\ History' /\ ActiveWithinLimits' /\ CreationsWithinRate' /\ CheckedCommandsReplay'
    BY <2>1 DEF MockInv, MockTypeOK, History, ActiveWithinLimits, OpenIn, CreationsWithinRate,
                CreatedBetween, CheckedCommandsReplay
  <2>3. ASSUME NEW q \in Slots PROVE RequestOK(requests[q])'
    <3>1. RequestOK(requests[q])
      BY DEF MockInv
    <3> QED
      BY <2>1, <3>1 DEF RequestOK
  <2> QED
    BY <2>2, <2>3 DEF MockInv
<1> QED
  BY <1>1, <1>2, <1>3, <1>4, <1>5, <1>6, <1>7 DEF MockNext

-----------------------------------------------------------------------------
(* The theorems.                                                           *)

\* Every reachable state satisfies the invariant, whatever the constants.
THEOREM MockInvariant == MockSpec => []MockInv
<1> QED
  BY MockInitInv, MockStepInv, PTL DEF MockSpec

\* Rows, requests, times and the history have their types, and no log outgrows
\* what a session stores.
THEOREM MockTypeCorrect == MockSpec => []MockTypeOK
<1>1. MockInv => MockTypeOK
  BY DEF MockInv
<1> QED
  BY <1>1, MockInvariant, PTL

\* The user never has more sessions open than allowed, in a season or in all,
\* however many requests race (assertActiveMockDraftSessionCapacity).
THEOREM LimitsHold == MockSpec => []ActiveWithinLimits
<1>1. MockInv => ActiveWithinLimits
  BY DEF MockInv
<1> QED
  BY <1>1, MockInvariant, PTL

\* While no creation is overtaken by a later transaction, no window sees more
\* creations than allowed although ended sessions are deleted.
THEOREM RateHolds == MockSpec => []CreationsWithinRate
<1>1. MockInv => CreationsWithinRate
  BY DEF MockInv
<1> QED
  BY <1>1, MockInvariant, PTL

\* A command the season's page stored was replayed with what precedes it.
THEOREM ReplaysHold == MockSpec => []CheckedCommandsReplay
<1>1. MockInv => CheckedCommandsReplay
  BY DEF MockInv
<1> QED
  BY <1>1, MockInvariant, PTL
=============================================================================
