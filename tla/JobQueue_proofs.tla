--------------------------- MODULE JobQueue_proofs ---------------------------
(***************************************************************************)
(* For any jobs, workers, retention and bounds on attempts and faults: the *)
(* types, that attempts are counted, that a requested cancellation sticks, *)
(* and that outcomes come from the worker that held the job.               *)
(*                                                                         *)
(* The inductive invariant adds to these that only a cancelled job carries *)
(* its request into the queue's history (queued rows have none), that a    *)
(* user's second statement is about a job it read as active, and that a    *)
(* worker which still holds the job it is retrying read the attempts the   *)
(* row still has.                                                          *)
(***************************************************************************)
EXTENDS JobQueue, TLAPS

JobRows == [status : Terminal \cup {"none", "queued", "running"},
            worker : Workers \cup {NoWorker},
            lease : {"none", "held", "expired"},
            cancel : BOOLEAN, attempts : 0..MaxAttempts]

RowFits(row) ==
    /\ row.status = "running" <=> row.worker # NoWorker
    /\ row.status = "running" <=> row.lease # "none"
    /\ row.status \in {"none", "queued"} => ~row.cancel
    /\ row.status \in {"queued", "running", "completed"} => row.attempts < MaxAttempts
    /\ row.status = "failed" => row.attempts = MaxAttempts

JobsFit == jobs \in [Jobs -> JobRows] /\ \A j \in Jobs : RowFits(jobs[j])

OrderFits ==
    /\ older \subseteq Jobs \X Jobs
    /\ \A j, k \in Jobs : <<j, k>> \in older \/ <<k, j>> \in older <=>
        j # k /\ jobs[j].status # "none" /\ jobs[k].status # "none"

Handling == [phase : {"handling", "boundary", "failing", "handled", "completing"},
             job : Jobs, cancel : BOOLEAN, late : BOOLEAN]
Retrying == [phase : {"retrying", "boundary"}, job : Jobs, attempts : Nat]

WorkersFit == workers \in [Workers -> {Idle} \cup Handling \cup Retrying]

\* A worker that still holds the job it read counts one attempt more.
RetryFits(w) ==
    workers[w].phase = "retrying" /\ Holds(w) =>
        workers[w].attempts = jobs[workers[w].job].attempts + 1

CallerFits ==
    caller = Idle \/ caller \in [phase : {"cancelling"}, job : Jobs, status : {"queued", "running"}]

QueueInvariant ==
    /\ JobsFit
    /\ OrderFits
    /\ WorkersFit
    /\ \A w \in Workers : RetryFits(w)
    /\ CallerFits
    /\ faults \in 0..MaxFaults

-----------------------------------------------------------------------------
(* Lemmas on what a step changes.                                          *)

\* Busy workers name a job and are not idle.
LEMMA BusyWorker ==
    ASSUME NEW st \in {Idle} \cup Handling \cup Retrying, st.phase # "idle"
    PROVE  /\ st \in Handling \cup Retrying
           /\ st # Idle
           /\ st.job \in Jobs
  BY DEF Idle, Handling, Retrying

\* A worker in the middle of a job remembers what its heartbeats told it.
LEMMA HandlingWorker ==
    ASSUME NEW st \in {Idle} \cup Handling \cup Retrying,
           st.phase \in {"handling", "handled", "completing", "failing"}
    PROVE  st \in Handling
  BY DEF Idle, Handling, Retrying

\* Turning to another phase keeps the rest.
LEMMA TurnedHandling ==
    ASSUME NEW st \in Handling,
           NEW phase \in {"handling", "boundary", "failing", "handled", "completing"}
    PROVE  /\ [st EXCEPT !.phase = phase] \in Handling
           /\ [st EXCEPT !.phase = phase].phase = phase
           /\ [st EXCEPT !.phase = phase].job = st.job
  BY DEF Handling

\* A row that changes without appearing or disappearing keeps rows and order.
LEMMA RowChange ==
    ASSUME JobsFit, OrderFits, NEW j \in Jobs, NEW row \in JobRows, RowFits(row),
           row.status # "none", jobs[j].status # "none",
           jobs' = [jobs EXCEPT ![j] = row], UNCHANGED older
    PROVE  JobsFit' /\ OrderFits'
<1>1. JobsFit'
  BY DEF JobsFit
<1>2. \A k \in Jobs : jobs'[k].status # "none" <=> jobs[k].status # "none"
  BY DEF JobsFit
<1> QED
  BY <1>1, <1>2 DEF OrderFits

\* A retrying worker is not disturbed by a step of another worker that either
\* keeps the attempts and the holder of a row or takes the row from its holder.
LEMMA RetryKept ==
    ASSUME JobsFit, NEW w \in Workers, RetryFits(w), workers[w].job \in Jobs,
           workers'[w] = workers[w],
           LET k == workers[w].job IN
           \/ jobs'[k].worker # w
           \/ jobs'[k].worker = jobs[k].worker /\ jobs'[k].attempts = jobs[k].attempts
              /\ jobs'[k].status = jobs[k].status
    PROVE  RetryFits(w)'
  BY DEF RetryFits, Holds

\* One transaction prunes and queues: the invariant, and what becomes of a row.
LEMMA PruneKeeps ==
    ASSUME QueueInvariant, QueueTyped, NEW new \in SUBSET Jobs, PruneAndQueue(new),
           \A j, k \in new : j = k,
           \A j \in new : jobs[j].status \in Terminal \cup {"none"}
    PROVE  /\ QueueInvariant'
           /\ \A j \in Jobs :
                \/ jobs'[j] = jobs[j] /\ j \notin new
                \/ j \in Outdated /\ jobs'[j] = Row("none")
                \/ j \in new /\ jobs'[j] = Row("queued")
<1> USE DEF QueueInvariant
<1>1. \A s \in {"none", "queued"} : Row(s) \in JobRows /\ RowFits(Row(s)) /\ Row(s).status = s
                                    /\ Row(s).worker = NoWorker
  BY QueueTyped DEF Row, JobRows, RowFits
<1>2. Outdated \subseteq Jobs /\ \A j \in Outdated : jobs[j].status \in Terminal
  BY DEF Outdated
<1>3. \A j \in Jobs :
        jobs'[j] = IF j \in new THEN Row("queued")
                   ELSE IF j \in Outdated THEN Row("none") ELSE jobs[j]
  BY DEF PruneAndQueue
<1>4. JobsFit'
  <2>1. jobs' \in [Jobs -> JobRows]
    <3>1. \A j \in Jobs : jobs'[j] \in JobRows
      BY <1>1, <1>3 DEF JobsFit
    <3>2. \E F : jobs' = [j \in Jobs |-> F[j]]
      BY DEF PruneAndQueue
    <3> QED
      BY <3>1, <3>2
  <2>2. \A j \in Jobs : RowFits(jobs'[j])
    BY <1>1, <1>3 DEF JobsFit
  <2> QED
    BY <2>1, <2>2 DEF JobsFit
<1>5. OrderFits'
  <2> DEFINE kept == {j \in Jobs : jobs[j].status # "none"} \ (Outdated \cup new)
  <2>1. older' = (older \cap (kept \X kept)) \cup (kept \X new)
    BY DEF PruneAndQueue
  <2>2. older' \subseteq Jobs \X Jobs
    BY <2>1
  <2>3. \A j \in Jobs : jobs'[j].status # "none" <=> j \in kept \cup new
    BY <1>1, <1>2, <1>3
  <2>4. \A j, k \in Jobs : <<j, k>> \in older' \/ <<k, j>> \in older' <=>
            j # k /\ j \in kept \cup new /\ k \in kept \cup new
    <3> SUFFICES ASSUME NEW j \in Jobs, NEW k \in Jobs
                 PROVE  <<j, k>> \in older' \/ <<k, j>> \in older' <=>
                          j # k /\ j \in kept \cup new /\ k \in kept \cup new
      OBVIOUS
    <3>1. \A a, b \in Jobs : <<a, b>> \in older' <=>
            a \in kept /\ ((<<a, b>> \in older /\ b \in kept) \/ b \in new)
      BY <2>1
    <3>2. \A a, b \in kept : <<a, b>> \in older \/ <<b, a>> \in older <=> a # b
      BY DEF OrderFits
    <3>3. kept \cap new = {}
      OBVIOUS
    <3> HIDE DEF kept
    <3> QED
      BY <3>1, <3>2, <3>3
  <2> HIDE DEF kept
  <2> QED
    BY <2>2, <2>3, <2>4 DEF OrderFits
<1>6. WorkersFit' /\ faults' = faults /\ workers' = workers
  BY DEF PruneAndQueue, WorkersFit
<1>7. \A w \in Workers : RetryFits(w)'
  <2> SUFFICES ASSUME NEW w \in Workers, (workers[w].phase = "retrying" /\ Holds(w))'
               PROVE  RetryFits(w)'
    BY DEF RetryFits
  <2>1. workers[w].job \in Jobs
    BY <1>6, BusyWorker DEF WorkersFit
  <2>2. jobs'[workers[w].job] = jobs[workers[w].job]
    BY <1>1, <1>3, <1>6, <2>1 DEF Holds
  <2> QED
    BY <1>6, <2>1, <2>2, RetryKept
<1>8. CallerFits'
  BY DEF PruneAndQueue, CallerFits
<1> QED
  BY <1>2, <1>3, <1>4, <1>5, <1>6, <1>7, <1>8
-----------------------------------------------------------------------------
(* What the two action properties say of one job.                          *)

Sticks(j) ==
    jobs[j].cancel =>
        \/ Replaced(j)
        \/ /\ jobs'[j].cancel
           /\ jobs'[j].status \in {jobs[j].status, "canceled"}
           /\ jobs'[j].worker \in {jobs[j].worker, NoWorker}

FromHolder(j) ==
    /\ jobs[j].status \in Terminal => jobs'[j] = jobs[j] \/ Replaced(j)
    /\ jobs[j].status = "running" /\ jobs'[j].status # "running" =>
        /\ workers[jobs[j].worker] # Idle
        /\ workers[jobs[j].worker].job = j
        /\ workers'[jobs[j].worker] = Idle

Good == QueueInvariant' /\ \A j \in Jobs : Sticks(j) /\ FromHolder(j)

\* A job whose row stays is no concern of the properties.
LEMMA SameRow ==
    ASSUME JobsFit, NEW j \in Jobs, jobs'[j] = jobs[j]
    PROVE  Sticks(j) /\ FromHolder(j)
  BY DEF Sticks, FromHolder

\* A worker writes the row of a job it holds or takes.
LEMMA WorkerWrites ==
    ASSUME QueueInvariant, NEW w \in Workers, NEW j \in Jobs,
           NEW row \in JobRows, RowFits(row), row.status # "none",
           jobs[j].status \in {"queued", "running"},
           row.worker \in {w, NoWorker},
           jobs[j].cancel => /\ row.cancel
                             /\ row.status \in {jobs[j].status, "canceled"}
                             /\ row.worker \in {jobs[j].worker, NoWorker},
           NEW st \in {Idle} \cup Handling \cup Retrying, st.phase # "retrying",
           row.status # "running" =>
                jobs[j].worker = w /\ workers[w] # Idle /\ workers[w].job = j /\ st = Idle,
           jobs' = [jobs EXCEPT ![j] = row],
           workers' = [workers EXCEPT ![w] = st],
           UNCHANGED <<older, caller, faults>>
    PROVE  Good
<1> USE DEF QueueInvariant
<1>1. jobs'[j] = row /\ \A k \in Jobs \ {j} : jobs'[k] = jobs[k]
  BY DEF JobsFit
<1>2. workers'[w] = st /\ \A v \in Workers \ {w} : workers'[v] = workers[v]
  BY DEF WorkersFit
<1>3. JobsFit' /\ OrderFits'
  BY RowChange
<1>4. WorkersFit'
  BY DEF WorkersFit
<1>5. \A v \in Workers : RetryFits(v)'
  <2> SUFFICES ASSUME NEW v \in Workers, workers'[v].phase = "retrying"
               PROVE  RetryFits(v)'
    BY DEF RetryFits
  <2>1. v # w /\ workers'[v] = workers[v] /\ workers[v].job \in Jobs
    BY <1>2, BusyWorker DEF WorkersFit
  <2>3. CASE workers[v].job = j /\ row.worker # v
    BY <1>1, <2>1, <2>3, RetryKept
  <2>4. CASE jobs'[workers[v].job] = jobs[workers[v].job]
    BY <2>1, <2>4, RetryKept
  <2>5. CASE workers[v].job = j /\ row.worker = v
    BY <2>1, <2>5, <1>2 DEF JobRows, RowFits, RetryFits, Holds, JobsFit
  <2> QED
    BY <1>1, <2>1, <2>3, <2>4, <2>5
<1>6. CallerFits' /\ (faults \in 0..MaxFaults)'
  BY DEF CallerFits
<1>7. \A k \in Jobs : Sticks(k) /\ FromHolder(k)
  <2>1. Sticks(j) /\ FromHolder(j)
    BY <1>1, <1>2 DEF Sticks, FromHolder, Terminal
  <2> QED
    BY <1>1, <2>1, SameRow
<1> QED
  BY <1>3, <1>4, <1>5, <1>6, <1>7 DEF Good

\* A worker turns to another phase and writes nothing.
LEMMA WorkerTurns ==
    ASSUME QueueInvariant, NEW w \in Workers,
           NEW st \in {Idle} \cup Handling \cup Retrying,
           st.phase = "retrying" =>
                /\ st.attempts = jobs[st.job].attempts + 1,
           workers' = [workers EXCEPT ![w] = st],
           UNCHANGED <<jobs, older, caller>>, faults' \in 0..MaxFaults
    PROVE  Good
<1> USE DEF QueueInvariant
<1>1. workers'[w] = st /\ \A v \in Workers \ {w} : workers'[v] = workers[v]
  BY DEF WorkersFit
<1>2. JobsFit' /\ OrderFits' /\ WorkersFit' /\ CallerFits'
  BY DEF JobsFit, OrderFits, WorkersFit, CallerFits
<1>3. \A v \in Workers : RetryFits(v)'
  BY <1>1 DEF RetryFits, Holds
<1>4. \A k \in Jobs : Sticks(k) /\ FromHolder(k)
  BY SameRow
<1> QED
  BY <1>2, <1>3, <1>4 DEF Good

\* Someone who is no worker writes the row of an active job and leaves it to
\* its holder, or takes it from everybody.
LEMMA OtherWrites ==
    ASSUME QueueInvariant, QueueTyped, NEW j \in Jobs,
           NEW row \in JobRows, RowFits(row), row.status # "none",
           jobs[j].status \in {"queued", "running"},
           \/ row.worker = NoWorker /\ jobs[j].status = "queued"
           \/ row.worker = jobs[j].worker /\ row.attempts = jobs[j].attempts
              /\ row.status = jobs[j].status,
           jobs[j].cancel => row.cancel /\ row.status = jobs[j].status,
           jobs' = [jobs EXCEPT ![j] = row],
           UNCHANGED <<older, workers>>, CallerFits', faults' \in 0..MaxFaults
    PROVE  Good
<1> USE DEF QueueInvariant
<1>1. jobs'[j] = row /\ \A k \in Jobs \ {j} : jobs'[k] = jobs[k]
  BY DEF JobsFit
<1>2. JobsFit' /\ OrderFits'
  BY RowChange
<1>3. WorkersFit'
  BY DEF WorkersFit
<1>4. \A v \in Workers : RetryFits(v)'
  <2> SUFFICES ASSUME NEW v \in Workers, workers'[v].phase = "retrying"
               PROVE  RetryFits(v)'
    BY DEF RetryFits
  <2>1. workers[v].job \in Jobs
    BY BusyWorker DEF WorkersFit
  <2>2. NoWorker # v
    BY QueueTyped
  <2> QED
    BY <1>1, <2>1, <2>2, RetryKept
<1>5. \A k \in Jobs : Sticks(k) /\ FromHolder(k)
  <2>1. Sticks(j) /\ FromHolder(j)
    BY <1>1 DEF Sticks, FromHolder, Terminal, RowFits, JobsFit
  <2> QED
    BY <1>1, <2>1, SameRow
<1> QED
  BY <1>2, <1>3, <1>4, <1>5 DEF Good
-----------------------------------------------------------------------------
(* The operations of users.                                                *)

\* Queueing and pruning replace only rows that ended.
LEMMA PruneGood ==
    ASSUME QueueInvariant, QueueTyped, NEW new \in SUBSET Jobs, PruneAndQueue(new),
           \A j, k \in new : j = k,
           \A j \in new : \/ jobs[j].status = "none"
                          \/ jobs[j].status \in Terminal /\ j \in Reruns \cup Outdated
    PROVE  Good
<1>1. QueueInvariant' /\ \A j \in Jobs :
            \/ jobs'[j] = jobs[j] /\ j \notin new
            \/ j \in Outdated /\ jobs'[j] = Row("none")
            \/ j \in new /\ jobs'[j] = Row("queued")
  BY PruneKeeps
<1>2. Outdated \subseteq Jobs /\ \A j \in Outdated : jobs[j].status \in Terminal
  BY DEF Outdated
<1>3. \A j \in Jobs : Sticks(j) /\ FromHolder(j)
  <2> SUFFICES ASSUME NEW j \in Jobs PROVE Sticks(j) /\ FromHolder(j)
    OBVIOUS
  <2>1. CASE jobs'[j] = jobs[j]
    BY <2>1, SameRow DEF QueueInvariant
  <2>2. CASE j \in Outdated /\ jobs'[j] = Row("none")
    BY <1>2, <2>2 DEF Sticks, FromHolder, Replaced, Terminal
  <2>3. CASE j \in new /\ jobs'[j] = Row("queued") /\ jobs[j].status = "none"
    BY <2>3 DEF Sticks, FromHolder, QueueInvariant, JobsFit, RowFits, JobRows, Terminal
  <2>4. CASE j \in new /\ jobs'[j] = Row("queued") /\ jobs[j].status # "none"
    BY <2>4 DEF Sticks, FromHolder, Replaced, Terminal
  <2> QED
    BY <1>1, <2>1, <2>2, <2>3, <2>4
<1> QED
  BY <1>1, <1>3 DEF Good

LEMMA SubmitGood ==
    ASSUME QueueInvariant, QueueTyped, NEW j \in Jobs, Submit(j)
    PROVE  Good
<1>1. Outdated \subseteq Jobs /\ \A k \in Outdated : jobs[k].status \in Terminal
  BY DEF Outdated
<1>2. PICK new \in SUBSET Jobs :
        /\ PruneAndQueue(new)
        /\ new \subseteq {j}
        /\ j \in new => jobs[j].status = "none" \/ j \in Outdated
  BY DEF Submit
<1> QED
  BY <1>1, <1>2, PruneGood

LEMMA RerunGood ==
    ASSUME QueueInvariant, QueueTyped, NEW j \in Jobs, Rerun(j)
    PROVE  Good
<1>1. RerunRow[j] \in Reruns /\ RerunRow[j] \in Jobs
  BY QueueTyped DEF Rerun, Reruns
<1>2. jobs[RerunRow[j]].status \in Terminal \cup {"none"} /\ PruneAndQueue({RerunRow[j]})
  BY DEF Rerun
<1> QED
  BY <1>1, <1>2, PruneGood

LEMMA ReadToCancelGood ==
    ASSUME QueueInvariant, NEW j \in Jobs, ReadToCancel(j)
    PROVE  Good
<1> USE DEF QueueInvariant, ReadToCancel
<1>1. JobsFit' /\ OrderFits' /\ WorkersFit' /\ CallerFits' /\ (faults \in 0..MaxFaults)'
  BY DEF JobsFit, OrderFits, WorkersFit, CallerFits
<1>2. \A v \in Workers : RetryFits(v)'
  BY DEF RetryFits, Holds
<1>3. \A k \in Jobs : Sticks(k) /\ FromHolder(k)
  BY SameRow
<1> QED
  BY <1>1, <1>2, <1>3 DEF Good

LEMMA CancelGood ==
    ASSUME QueueInvariant, QueueTyped, Cancel
    PROVE  Good
<1> USE DEF QueueInvariant
<1>1. caller.job \in Jobs /\ caller.status \in {"queued", "running"}
  BY DEF Cancel, CallerFits
<1>2. /\ CallerFits' /\ (faults \in 0..MaxFaults)'
      /\ UNCHANGED <<older, workers>>
  BY DEF Cancel, CallerFits
<1>3. CASE jobs[caller.job].status # caller.status
  <2>1. jobs' = jobs
    BY <1>3 DEF Cancel
  <2>2. JobsFit' /\ OrderFits' /\ WorkersFit'
    BY <1>2, <2>1 DEF JobsFit, OrderFits, WorkersFit
  <2>3. \A v \in Workers : RetryFits(v)'
    BY <1>2, <2>1 DEF RetryFits, Holds
  <2>4. \A k \in Jobs : Sticks(k) /\ FromHolder(k)
    BY <2>1, SameRow
  <2> QED
    BY <1>2, <2>2, <2>3, <2>4 DEF Good
<1>4. CASE jobs[caller.job].status = caller.status
  <2> DEFINE old == jobs[caller.job]
             row == [old EXCEPT !.cancel = TRUE,
                                !.status = IF @ = "queued" THEN "canceled" ELSE @]
  <2>1. jobs' = [jobs EXCEPT ![caller.job] = row]
    BY <1>4 DEF Cancel
  <2>2. old \in JobRows /\ RowFits(old)
    BY <1>1 DEF JobsFit
  <2>3. /\ row \in JobRows /\ row.cancel
        /\ row.status = (IF old.status = "queued" THEN "canceled" ELSE old.status)
        /\ row.worker = old.worker /\ row.lease = old.lease /\ row.attempts = old.attempts
    BY <2>2 DEF JobRows, Terminal
  <2>4. RowFits(row) /\ row.status # "none"
    BY <1>1, <1>4, <2>2, <2>3 DEF RowFits
  <2>5. \/ row.worker = NoWorker /\ old.status = "queued"
        \/ row.worker = old.worker /\ row.attempts = old.attempts /\ row.status = old.status
    BY <1>1, <1>4, <2>2, <2>3 DEF RowFits, JobRows
  <2>6. old.cancel => row.cancel /\ row.status = old.status
    BY <2>2, <2>3 DEF RowFits
  <2> HIDE DEF row
  <2> QED
    BY <1>1, <1>2, <1>4, <2>1, <2>3, <2>4, <2>5, <2>6, OtherWrites
<1> QED
  BY <1>3, <1>4
-----------------------------------------------------------------------------
(* The steps of workers.                                                   *)

\* What a worker knows of the job it holds.
LEMMA HeldRow ==
    ASSUME QueueInvariant, NEW w \in Workers, workers[w].phase # "idle", Holds(w)
    PROVE  /\ workers[w].job \in Jobs
           /\ workers[w] # Idle
           /\ jobs[workers[w].job] \in JobRows
           /\ RowFits(jobs[workers[w].job])
           /\ jobs[workers[w].job].status = "running"
           /\ jobs[workers[w].job].worker = w
  BY BusyWorker DEF QueueInvariant, WorkersFit, JobsFit, Holds

\* The holder ends its job, cancelled if that was requested.
LEMMA EndsGood ==
    ASSUME QueueInvariant, QueueTyped, NEW w \in Workers, workers[w].phase # "idle", Holds(w),
           NEW status \in {"queued", "completed", "failed", "canceled"},
           NEW attempts \in 0..MaxAttempts, Ends(w, status, attempts),
           jobs[workers[w].job].cancel => status = "canceled",
           status \in {"queued", "completed"} => attempts < MaxAttempts,
           status = "failed" => attempts = MaxAttempts
    PROVE  Good
<1> DEFINE j == workers[w].job
           row == [Row(status) EXCEPT !.cancel = jobs[j].cancel, !.attempts = attempts]
<1>1. /\ j \in Jobs /\ workers[w] # Idle /\ jobs[j] \in JobRows /\ RowFits(jobs[j])
      /\ jobs[j].status = "running" /\ jobs[j].worker = w
  BY HeldRow
<1>2. /\ Row(status) \in JobRows
      /\ Row(status).status = status /\ Row(status).worker = NoWorker
      /\ Row(status).lease = "none"
  BY QueueTyped DEF Row, JobRows, Terminal
<1>3. row \in JobRows
  BY <1>1, <1>2 DEF JobRows
<1>4. /\ row.status = status /\ row.worker = NoWorker /\ row.lease = "none"
      /\ row.cancel = jobs[j].cancel /\ row.attempts = attempts
  BY <1>1, <1>2 DEF JobRows
<1>5. RowFits(row)
  BY <1>4 DEF RowFits
<1>6. /\ jobs' = [jobs EXCEPT ![j] = row]
      /\ workers' = [workers EXCEPT ![w] = Idle]
      /\ UNCHANGED <<older, caller, faults>>
  BY DEF Ends, Goes
<1>7. Idle.phase # "retrying"
  BY DEF Idle
<1> HIDE DEF row
<1> QED
  BY <1>1, <1>3, <1>4, <1>5, <1>6, <1>7, WorkerWrites

LEMMA ClaimGood ==
    ASSUME QueueInvariant, QueueTyped, NEW w \in Workers, Claim(w)
    PROVE  Good
<1>1. PICK j \in Jobs :
        /\ Claimable(j)
        /\ jobs' = [jobs EXCEPT ![j].status = "running", ![j].worker = w, ![j].lease = "held"]
        /\ Goes(w, [phase |-> "handling", job |-> j, cancel |-> FALSE, late |-> FALSE])
  BY DEF Claim
<1> DEFINE row == [jobs[j] EXCEPT !.status = "running", !.worker = w, !.lease = "held"]
           st == [phase |-> "handling", job |-> j, cancel |-> FALSE, late |-> FALSE]
<1>2. jobs[j] \in JobRows /\ RowFits(jobs[j])
  BY DEF QueueInvariant, JobsFit
<1>3. jobs' = [jobs EXCEPT ![j] = row]
  BY <1>1
<1>4. /\ row \in JobRows
      /\ row.status = "running" /\ row.worker = w /\ row.lease = "held"
      /\ row.cancel = jobs[j].cancel /\ row.attempts = jobs[j].attempts
  BY <1>2 DEF JobRows, Terminal
<1>5. ~jobs[j].cancel /\ jobs[j].status \in {"queued", "running"}
  BY <1>1, <1>2 DEF Claimable, RowFits
<1>6. RowFits(row)
  BY <1>2, <1>4, <1>5, QueueTyped DEF RowFits
<1>7. st \in Handling /\ st.phase = "handling"
  BY DEF Handling
<1>8. workers' = [workers EXCEPT ![w] = st] /\ UNCHANGED <<older, caller, faults>>
  BY <1>1 DEF Goes
<1> HIDE DEF row, st
<1> QED
  BY <1>3, <1>4, <1>5, <1>6, <1>7, <1>8, WorkerWrites

\* The two heartbeats: the lease is renewed and the worker stays with the job.
LEMMA BeatGood ==
    ASSUME QueueInvariant, QueueTyped, NEW w \in Workers, workers[w].phase # "idle", Holds(w),
           jobs' = [jobs EXCEPT ![workers[w].job].lease = "held"],
           NEW st \in Handling, Goes(w, st)
    PROVE  Good
<1> DEFINE j == workers[w].job
           row == [jobs[j] EXCEPT !.lease = "held"]
<1>1. /\ j \in Jobs /\ jobs[j] \in JobRows /\ RowFits(jobs[j])
      /\ jobs[j].status = "running" /\ jobs[j].worker = w
  BY HeldRow
<1>2. jobs' = [jobs EXCEPT ![j] = row]
  OBVIOUS
<1>3. /\ row \in JobRows
      /\ row.status = "running" /\ row.worker = w /\ row.lease = "held"
      /\ row.cancel = jobs[j].cancel /\ row.attempts = jobs[j].attempts
  BY <1>1 DEF JobRows
<1>4. RowFits(row)
  BY <1>1, <1>3, QueueTyped DEF RowFits
<1>5. /\ st.phase # "retrying" /\ st \in {Idle} \cup Handling \cup Retrying
      /\ row.worker \in {w, NoWorker}
  BY <1>3 DEF Handling
<1>6. workers' = [workers EXCEPT ![w] = st] /\ UNCHANGED <<older, caller, faults>>
  BY DEF Goes
<1>7. jobs[j].cancel => /\ row.cancel
                        /\ row.status \in {jobs[j].status, "canceled"}
                        /\ row.worker \in {jobs[j].worker, NoWorker}
  BY <1>1, <1>3
<1>8. /\ row.status # "none" /\ jobs[j].status \in {"queued", "running"}
      /\ row.status = "running"
  BY <1>1, <1>3
<1> HIDE DEF row, j
<1> QED
  BY <1>1, <1>2, <1>3, <1>4, <1>5, <1>6, <1>7, <1>8, WorkerWrites

\* A worker that writes nothing and does not begin a retry.
LEMMA GoesGood ==
    ASSUME QueueInvariant, NEW w \in Workers,
           NEW st \in {Idle} \cup Handling \cup Retrying, st.phase # "retrying",
           Goes(w, st), UNCHANGED jobs
    PROVE  Good
  BY WorkerTurns DEF Goes, QueueInvariant

LEMMA HeartbeatGood ==
    ASSUME QueueInvariant, QueueTyped, NEW w \in Workers, Heartbeat(w)
    PROVE  Good
<1>1. workers[w] \in Handling /\ workers[w].phase = "handling"
  BY HandlingWorker DEF Heartbeat, QueueInvariant, WorkersFit
<1>2. CASE Holds(w)
  <2>1. [workers[w] EXCEPT !.cancel = jobs[workers[w].job].cancel] \in Handling
    BY <1>1, <1>2, HeldRow DEF Handling, JobRows
  <2> QED
    BY <1>1, <1>2, <2>1, BeatGood DEF Heartbeat
<1>3. CASE ~Holds(w)
  <2>1. /\ [workers[w] EXCEPT !.late = TRUE] \in Handling
        /\ [workers[w] EXCEPT !.late = TRUE].phase # "retrying"
    BY <1>1 DEF Handling
  <2> QED
    BY <1>3, <2>1, GoesGood DEF Heartbeat
<1> QED
  BY <1>2, <1>3

\* Turning to another phase of the same job.
LEMMA TurnsGood ==
    ASSUME QueueInvariant, NEW w \in Workers,
           workers[w] \in Handling \cup Retrying,
           NEW phase \in {"boundary", "failing", "handled", "completing"},
           workers[w] \in Handling \/ phase = "boundary",
           Turns(w, phase)
    PROVE  Good
<1>1. [workers[w] EXCEPT !.phase = phase] \in Handling \cup Retrying
  BY DEF Handling, Retrying
<1>2. [workers[w] EXCEPT !.phase = phase].phase # "retrying"
  BY DEF Handling, Retrying
<1> QED
  BY <1>1, <1>2, GoesGood DEF Turns

LEMMA HandlerGood ==
    ASSUME QueueInvariant, NEW w \in Workers, HandlerReturns(w) \/ HandlerThrows(w)
    PROVE  Good
<1>1. workers[w] \in Handling
  BY HandlingWorker DEF HandlerReturns, HandlerThrows, QueueInvariant, WorkersFit
<1> QED
  BY <1>1, TurnsGood DEF HandlerReturns, HandlerThrows

LEMMA LastHeartbeatGood ==
    ASSUME QueueInvariant, QueueTyped, NEW w \in Workers, LastHeartbeat(w)
    PROVE  Good
<1>1. workers[w] \in Handling /\ workers[w].phase = "handled"
  BY HandlingWorker DEF LastHeartbeat, QueueInvariant, WorkersFit
<1>2. CASE Holds(w)
  <2> DEFINE phase == IF jobs[workers[w].job].cancel THEN "boundary" ELSE "completing"
  <2>1. [workers[w] EXCEPT !.phase = phase] \in Handling
    BY <1>1, TurnedHandling
  <2> QED
    BY <1>1, <1>2, <2>1, BeatGood DEF LastHeartbeat
<1>3. CASE ~Holds(w)
  BY <1>1, <1>3, TurnsGood DEF LastHeartbeat
<1> QED
  BY <1>2, <1>3

LEMMA CompleteGood ==
    ASSUME QueueInvariant, QueueTyped, NEW w \in Workers, Complete(w)
    PROVE  Good
<1>1. workers[w] \in Handling /\ workers[w].phase = "completing"
  BY HandlingWorker DEF Complete, QueueInvariant, WorkersFit
<1>2. CASE ~Holds(w) \/ jobs[workers[w].job].cancel
  BY <1>1, <1>2, TurnsGood DEF Complete
<1>3. CASE Holds(w) /\ ~jobs[workers[w].job].cancel
  <2>1. /\ jobs[workers[w].job].attempts \in 0..MaxAttempts
        /\ jobs[workers[w].job].attempts < MaxAttempts
    BY <1>1, <1>3, HeldRow DEF JobRows, RowFits
  <2> QED
    BY <1>1, <1>3, <2>1, EndsGood DEF Complete
<1> QED
  BY <1>2, <1>3

LEMMA BoundaryGood ==
    ASSUME QueueInvariant, QueueTyped, NEW w \in Workers, CancelAtRunBoundary(w)
    PROVE  Good
<1>1. CASE Holds(w) /\ jobs[workers[w].job].cancel
  <2>1. workers[w].phase # "idle"
    BY DEF CancelAtRunBoundary
  <2>2. jobs[workers[w].job].attempts \in 0..MaxAttempts
    BY <1>1, <2>1, HeldRow DEF JobRows
  <2> QED
    BY <1>1, <2>1, <2>2, EndsGood DEF CancelAtRunBoundary
<1>2. CASE ~(Holds(w) /\ jobs[workers[w].job].cancel)
  BY <1>2, GoesGood DEF CancelAtRunBoundary, Idle
<1> QED
  BY <1>1, <1>2

LEMMA ReadToFailGood ==
    ASSUME QueueInvariant, QueueTyped, NEW w \in Workers, ReadToFail(w)
    PROVE  Good
<1>1. workers[w] \in Handling /\ workers[w].phase = "failing"
  BY HandlingWorker DEF ReadToFail, QueueInvariant, WorkersFit
<1>2. CASE ~Holds(w)
  BY <1>2, GoesGood DEF ReadToFail, Idle
<1>3. CASE Holds(w) /\ jobs[workers[w].job].cancel
  BY <1>1, <1>3, TurnsGood DEF ReadToFail
<1>4. CASE Holds(w) /\ ~jobs[workers[w].job].cancel
  <2> DEFINE st == [phase |-> "retrying", job |-> workers[w].job,
                    attempts |-> jobs[workers[w].job].attempts + 1]
  <2>1. jobs[workers[w].job].attempts \in Nat /\ workers[w].job \in Jobs
    BY <1>1, <1>4, HeldRow, QueueTyped DEF JobRows
  <2>2. st \in Retrying /\ st.attempts = jobs[st.job].attempts + 1
    BY <2>1 DEF Retrying
  <2>3. Goes(w, st) /\ UNCHANGED jobs
    BY <1>4 DEF ReadToFail
  <2> HIDE DEF st
  <2> QED
    BY <2>2, <2>3, WorkerTurns DEF Goes, QueueInvariant
<1> QED
  BY <1>2, <1>3, <1>4

LEMMA FailGood ==
    ASSUME QueueInvariant, QueueTyped, NEW w \in Workers, Fail(w)
    PROVE  Good
<1>1. workers[w] \in Retrying /\ workers[w].phase = "retrying"
  BY DEF Fail, QueueInvariant, WorkersFit, Idle, Handling
<1>2. CASE ~Holds(w)
  BY <1>2, GoesGood DEF Fail, Idle
<1>3. CASE Holds(w) /\ jobs[workers[w].job].cancel
  BY <1>1, <1>3, TurnsGood DEF Fail
<1>4. CASE Holds(w) /\ ~jobs[workers[w].job].cancel
  <2>1. /\ jobs[workers[w].job].attempts \in 0..MaxAttempts
        /\ jobs[workers[w].job].attempts < MaxAttempts
    BY <1>1, <1>4, HeldRow DEF JobRows, RowFits
  <2>2. workers[w].attempts = jobs[workers[w].job].attempts + 1
    BY <1>1, <1>4 DEF QueueInvariant, RetryFits
  <2>3. /\ workers[w].attempts \in 0..MaxAttempts
        /\ ~(workers[w].attempts < MaxAttempts) => workers[w].attempts = MaxAttempts
    BY <2>1, <2>2, QueueTyped
  <2> DEFINE status == IF workers[w].attempts < MaxAttempts THEN "queued" ELSE "failed"
  <2>4. Ends(w, status, workers[w].attempts)
    BY <1>4 DEF Fail
  <2> QED
    BY <1>1, <1>4, <2>3, <2>4, EndsGood
<1> QED
  BY <1>2, <1>3, <1>4
-----------------------------------------------------------------------------
(* Time and faults.                                                        *)

\* A lease that runs out leaves the job to its holder.
LEMMA ExpiresGood ==
    ASSUME QueueInvariant, QueueTyped, NEW j \in Jobs, Expires(j), faults' \in 0..MaxFaults
    PROVE  Good
<1> DEFINE row == [jobs[j] EXCEPT !.lease = "expired"]
<1>1. /\ jobs[j] \in JobRows /\ RowFits(jobs[j]) /\ jobs[j].status = "running"
  BY DEF QueueInvariant, JobsFit, Expires, RowFits
<1>2. jobs' = [jobs EXCEPT ![j] = row] /\ UNCHANGED <<older, workers>>
  BY DEF Expires
<1>3. /\ row \in JobRows
      /\ row.status = "running" /\ row.worker = jobs[j].worker /\ row.lease = "expired"
      /\ row.cancel = jobs[j].cancel /\ row.attempts = jobs[j].attempts
  BY <1>1 DEF JobRows
<1>4. RowFits(row)
  BY <1>1, <1>3 DEF RowFits
<1>5. CallerFits'
  BY DEF QueueInvariant, CallerFits, Expires
<1> HIDE DEF row
<1> QED
  BY <1>1, <1>2, <1>3, <1>4, <1>5, OtherWrites

LEMMA CrashGood ==
    ASSUME QueueInvariant, QueueTyped, NEW w \in Workers, Crash(w)
    PROVE  Good
<1>1. faults' \in 0..MaxFaults
  BY QueueTyped DEF Crash, QueueInvariant
<1> QED
  BY <1>1, WorkerTurns DEF Crash, Idle

-----------------------------------------------------------------------------
(* The theorems.                                                           *)

LEMMA InitFits == ASSUME QueueTyped, Init PROVE QueueInvariant
<1>1. Row("none") \in JobRows /\ RowFits(Row("none")) /\ Row("none").status = "none"
  BY QueueTyped DEF Row, JobRows, RowFits
<1>2. JobsFit /\ OrderFits
  BY <1>1 DEF Init, JobsFit, OrderFits
<1>3. WorkersFit /\ CallerFits /\ \A w \in Workers : RetryFits(w)
  BY DEF Init, WorkersFit, CallerFits, RetryFits, Idle
<1> QED
  BY <1>2, <1>3, QueueTyped DEF QueueInvariant, Init

LEMMA StepGood == ASSUME QueueInvariant, QueueTyped, [Next]_vars PROVE Good
<1>1. CASE \E j \in Jobs : Submit(j) \/ Rerun(j) \/ ReadToCancel(j)
  BY <1>1, SubmitGood, RerunGood, ReadToCancelGood
<1>2. CASE \E j \in Jobs : LeaseExpires(j) \/ Stall(j)
  <2>1. PICK j \in Jobs : Expires(j) /\ faults' \in {faults, faults + 1}
                          /\ (faults' = faults \/ faults < MaxFaults)
    BY <1>2 DEF LeaseExpires, Stall
  <2>2. faults' \in 0..MaxFaults
    BY <2>1, QueueTyped DEF QueueInvariant
  <2> QED
    BY <2>1, <2>2, ExpiresGood
<1>3. CASE Cancel
  BY <1>3, CancelGood
<1>4. CASE \E w \in Workers : Work(w)
  BY <1>4, ClaimGood, HandlerGood, LastHeartbeatGood, CompleteGood, BoundaryGood,
     ReadToFailGood, FailGood DEF Work
<1>5. CASE \E w \in Workers : Heartbeat(w) \/ Crash(w)
  BY <1>5, HeartbeatGood, CrashGood
<1>6. CASE UNCHANGED vars
  <2>1. /\ JobsFit' /\ OrderFits' /\ WorkersFit' /\ CallerFits' /\ (faults \in 0..MaxFaults)'
    BY <1>6 DEF QueueInvariant, JobsFit, OrderFits, WorkersFit, CallerFits, vars
  <2>2. \A v \in Workers : RetryFits(v)'
    BY <1>6 DEF QueueInvariant, RetryFits, Holds, vars
  <2>3. \A j \in Jobs : Sticks(j) /\ FromHolder(j)
    BY <1>6, SameRow DEF QueueInvariant, vars
  <2> QED
    BY <2>1, <2>2, <2>3 DEF Good, QueueInvariant
<1> QED
  BY <1>1, <1>2, <1>3, <1>4, <1>5, <1>6 DEF Next

\* The inductive invariant: rows, leases and holders agree, the order of
\* creation is total on the rows there are, and a worker that still holds the
\* job it is retrying read the attempts its row still has.
THEOREM QueueInvariantHolds == Spec => []QueueInvariant
<1>1. Init => QueueInvariant
  BY QueueTyped, InitFits
<1>2. QueueInvariant /\ [Next]_vars => QueueInvariant'
  BY QueueTyped, StepGood DEF Good
<1> QED
  BY <1>1, <1>2, PTL DEF Spec

\* The types of the queue, and that a job is locked exactly while it runs.
THEOREM QueueIsTyped == Spec => []TypeOK
<1>1. QueueInvariant => TypeOK
  <2> SUFFICES ASSUME QueueInvariant PROVE TypeOK
    OBVIOUS
  <2>1. \A w \in Workers : workers[w].phase # "idle" => workers[w].job \in Jobs
    BY BusyWorker DEF QueueInvariant, WorkersFit
  <2>2. caller # Idle => caller.job \in Jobs
    BY DEF QueueInvariant, CallerFits
  <2> QED
    BY <2>1, <2>2 DEF QueueInvariant, JobsFit, JobRows, RowFits, OrderFits, TypeOK
<1> QED
  BY <1>1, QueueInvariantHolds, PTL

\* No job is tried more often than it may, and none is given up earlier,
\* whatever crashes, stalls and takeovers happen between the read and the write
\* of a retry.
THEOREM AttemptsAreAlwaysCounted == Spec => []AttemptsAreCounted
<1>1. QueueInvariant => AttemptsAreCounted
  BY DEF QueueInvariant, JobsFit, RowFits, AttemptsAreCounted
<1> QED
  BY <1>1, QueueInvariantHolds, PTL

\* A requested cancellation outlives every statement of the worker it overtook.
THEOREM CancellationAlwaysSticks == Spec => CancellationSticks
<1>1. QueueInvariant /\ [Next]_vars =>
        [\A j \in Jobs : jobs[j].cancel =>
            \/ Replaced(j)
            \/ /\ jobs'[j].cancel
               /\ jobs'[j].status \in {jobs[j].status, "canceled"}
               /\ jobs'[j].worker \in {jobs[j].worker, NoWorker}]_vars
  BY QueueTyped, StepGood DEF Good, Sticks
<1> QED
  BY <1>1, QueueInvariantHolds, PTL DEF Spec, CancellationSticks

\* A job ends by the hand of the worker that holds it, and stays ended.
THEOREM OutcomesAlwaysComeFromTheHolder == Spec => OutcomesComeFromTheHolder
<1>1. QueueInvariant /\ [Next]_vars =>
        [\A j \in Jobs :
            /\ jobs[j].status \in Terminal => jobs'[j] = jobs[j] \/ Replaced(j)
            /\ jobs[j].status = "running" /\ jobs'[j].status # "running" =>
                LET w == jobs[j].worker
                IN  workers[w] # Idle /\ workers[w].job = j /\ workers'[w] = Idle]_vars
  BY QueueTyped, StepGood DEF Good, FromHolder
<1> QED
  BY <1>1, QueueInvariantHolds, PTL DEF Spec, OutcomesComeFromTheHolder
=============================================================================
