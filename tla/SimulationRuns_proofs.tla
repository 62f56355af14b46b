------------------------ MODULE SimulationRuns_proofs ------------------------
(***************************************************************************)
(* For any jobs, runs, workers and bounds: the composition keeps what the  *)
(* queue promises; the types of runs, executions and calls; that the first *)
(* terminal result of a run wins; and, as long as the history keeps the    *)
(* terminal jobs, that completed jobs have results and that cancelled ones *)
(* leave nothing to run.                                                   *)
(***************************************************************************)
EXTENDS SimulationRuns, JobQueue_proofs, FiniteSetTheorems

Statuses == {"none", "requested", "running", "completed", "failed", "canceled", "deleted"}

RunRows == [status : Statuses, result : Executors \cup {NoResult}]

RunFits(row) == row.result # NoResult <=> row.status = "completed"

RunsFit == runs \in [Runs -> RunRows] /\ \A r \in Runs : RunFits(runs[r])

Executing == [phase : {"finding", "marking", "running", "failing", "done", "threw"}, run : Runs]

\* A worker executes the run of its job while it handles it.
ExecutionsFit ==
    /\ executions \in [Executors -> {NotExecuting} \cup Executing]
    /\ \A w \in Workers :
        /\ executions[w] # NotExecuting <=> workers[w].phase = "handling"
        /\ workers[w].phase = "handling" => executions[w].run = RunOf[workers[w].job]

CallRows == [kind : {"cancel", "rerun", "reset"}, run : Runs, request : 1..MaxCalls]

CallsFit == calls \subseteq CallRows

JobsHaveRuns == \A j \in Jobs : jobs[j].status # "none" => runs[RunOf[j]].status # "none"

\* Only a job whose cancellation was requested is cancelled.
CancelsAreMarked == \A j \in Jobs : jobs[j].status = "canceled" => jobs[j].cancel

SimulationFits ==
    /\ QueueInvariant
    /\ RunsFit
    /\ ExecutionsFit
    /\ CallsFit
    /\ JobsHaveRuns
    /\ CancelsAreMarked

-----------------------------------------------------------------------------
(* What the steps of the queue do, in the terms of the runs.               *)

\* Whatever a worker or the time does to a job's row.
RowKept(j) ==
    /\ jobs'[j].status # "none" <=> jobs[j].status # "none"
    /\ jobs'[j].cancel = jobs[j].cancel
    /\ jobs'[j].status = "canceled" => jobs'[j].cancel
    /\ jobs'[j].status = "completed" =>
        \/ jobs[j].status = "completed"
        \/ \E w \in Workers : workers[w].phase = "completing" /\ workers[w].job = j

\* What becomes of a worker outside of the handler.
WorkerKept(w) ==
    /\ workers'[w].phase = "handling" <=> workers[w].phase = "handling"
    /\ workers[w].phase = "handling" => workers'[w].job = workers[w].job
    /\ workers'[w].phase \in {"handled", "completing"} =>
        workers[w].phase \in {"handled", "completing"} /\ workers'[w].job = workers[w].job

LEMMA RowsKept ==
    ASSUME QueueInvariant, CancelsAreMarked,
           \A j \in Jobs : jobs'[j].status = jobs[j].status /\ jobs'[j].cancel = jobs[j].cancel
    PROVE  \A j \in Jobs : RowKept(j)
  BY DEF RowKept, CancelsAreMarked

LEMMA WorkersKept ==
    ASSUME UNCHANGED workers
    PROVE  \A w \in Workers : WorkerKept(w)
  BY DEF WorkerKept

\* A lease changes.
LEMMA LeaseKeepsRows ==
    ASSUME QueueInvariant, CancelsAreMarked, NEW j, NEW lease \in {"held", "expired"},
           jobs' = [jobs EXCEPT ![j].lease = lease]
    PROVE  \A k \in Jobs : RowKept(k)
<1>1. \A k \in Jobs : jobs[k] \in JobRows
  BY DEF QueueInvariant, JobsFit
<1>2. \A k \in Jobs : jobs'[k] \in {jobs[k], [jobs[k] EXCEPT !.lease = lease]}
  BY DEF QueueInvariant, JobsFit
<1>3. \A k \in Jobs : jobs'[k].status = jobs[k].status /\ jobs'[k].cancel = jobs[k].cancel
  BY <1>1, <1>2 DEF JobRows
<1> QED
  BY <1>3, RowsKept

\* A worker ends its job.
LEMMA EndKeepsRows ==
    ASSUME QueueInvariant, CancelsAreMarked, NEW w \in Workers, Holds(w),
           workers[w].phase \in {"completing", "boundary", "retrying"},
           NEW status \in {"queued", "completed", "failed", "canceled"}, NEW attempts,
           Ends(w, status, attempts),
           status = "completed" => workers[w].phase = "completing",
           status = "canceled" => jobs[workers[w].job].cancel
    PROVE  (\A k \in Jobs : RowKept(k)) /\ \A v \in Workers : WorkerKept(v)
<1> DEFINE j == workers[w].job
           row == [Row(status) EXCEPT !.cancel = jobs[j].cancel, !.attempts = attempts]
<1>1. j \in Jobs /\ jobs[j].status = "running" /\ jobs[j] \in JobRows
  BY HeldRow
<1>2. row.status = status /\ row.cancel = jobs[j].cancel
  BY DEF Row
<1>3. \A k \in Jobs : jobs'[k] = IF k = j THEN row ELSE jobs[k]
  BY <1>1 DEF Ends, QueueInvariant, JobsFit
<1>4. \A v \in Workers : workers'[v] = IF v = w THEN Idle ELSE workers[v]
  BY DEF Ends, Goes, QueueInvariant, WorkersFit
<1> HIDE DEF row
<1>5. \A k \in Jobs : RowKept(k)
  BY <1>1, <1>2, <1>3 DEF RowKept, CancelsAreMarked
<1>6. \A v \in Workers : WorkerKept(v)
  BY <1>4 DEF WorkerKept, Idle
<1> QED
  BY <1>5, <1>6

\* A worker turns, in the handler or out of it.
LEMMA TurnKeeps ==
    ASSUME QueueInvariant, NEW w \in Workers, NEW st, workers' = [workers EXCEPT ![w] = st],
           st.phase = "handling" <=> workers[w].phase = "handling",
           st.phase \in {"handling", "handled", "completing"} => st.job = workers[w].job,
           st.phase \in {"handled", "completing"} => workers[w].phase \in {"handled", "completing"}
    PROVE  \A v \in Workers : WorkerKept(v)
<1>1. \A v \in Workers : workers'[v] = IF v = w THEN st ELSE workers[v]
  BY DEF QueueInvariant, WorkersFit
<1> QED
  BY <1>1 DEF WorkerKept

\* What a worker does besides the handler's work.
LEMMA ElsewhereKeeps ==
    ASSUME QueueInvariant, CancelsAreMarked, NEW w \in Workers, Elsewhere(w)
    PROVE  (\A k \in Jobs : RowKept(k)) /\ \A v \in Workers : WorkerKept(v)
<1>1. workers[w] \in {Idle} \cup Handling \cup Retrying
  BY DEF QueueInvariant, WorkersFit
<1>2. ASSUME UNCHANGED jobs PROVE \A k \in Jobs : RowKept(k)
  BY <1>2, RowsKept
<1>3. ASSUME workers[w].phase \in {"handled", "completing", "failing", "retrying"},
             NEW phase \in {"boundary", "failing", "completing"}, Turns(w, phase),
             phase = "completing" => workers[w].phase = "handled"
      PROVE  (\A k \in Jobs : RowKept(k)) /\ \A v \in Workers : WorkerKept(v)
  <2> DEFINE st == [workers[w] EXCEPT !.phase = phase]
  <2>1. st.phase = phase /\ st.job = workers[w].job
    BY <1>1, <1>3 DEF Idle, Handling, Retrying
  <2>2. workers' = [workers EXCEPT ![w] = st] /\ UNCHANGED jobs
    BY <1>3 DEF Turns, Goes
  <2> HIDE DEF st
  <2> QED
    BY <1>2, <1>3, <2>1, <2>2, TurnKeeps
<1>4. ASSUME workers[w].phase # "handling", Goes(w, Idle), UNCHANGED jobs
      PROVE  (\A k \in Jobs : RowKept(k)) /\ \A v \in Workers : WorkerKept(v)
  <2>1. Idle.phase = "idle"
    BY DEF Idle
  <2>2. workers' = [workers EXCEPT ![w] = Idle]
    BY <1>4 DEF Goes
  <2> QED
    BY <1>2, <1>4, <2>1, <2>2, TurnKeeps
<1>5. CASE Heartbeat(w)
  <2>1. workers[w] \in Handling /\ workers[w].phase = "handling"
    BY <1>1, <1>5, HandlingWorker DEF Heartbeat
  <2>2. CASE Holds(w)
    <3> DEFINE st == [workers[w] EXCEPT !.cancel = jobs[workers[w].job].cancel]
    <3>1. st.phase = "handling" /\ st.job = workers[w].job
      BY <2>1 DEF Handling
    <3>2. workers' = [workers EXCEPT ![w] = st]
          /\ jobs' = [jobs EXCEPT ![workers[w].job].lease = "held"]
      BY <1>5, <2>2 DEF Heartbeat, Goes
    <3> HIDE DEF st
    <3> QED
      BY <2>1, <3>1, <3>2, TurnKeeps, LeaseKeepsRows
  <2>3. CASE ~Holds(w)
    <3> DEFINE st == [workers[w] EXCEPT !.late = TRUE]
    <3>1. st.phase = "handling" /\ st.job = workers[w].job
      BY <2>1 DEF Handling
    <3>2. workers' = [workers EXCEPT ![w] = st] /\ UNCHANGED jobs
      BY <1>5, <2>3 DEF Heartbeat, Goes
    <3> HIDE DEF st
    <3> QED
      BY <1>2, <2>1, <3>1, <3>2, TurnKeeps
  <2> QED
    BY <2>2, <2>3
<1>6. CASE LastHeartbeat(w)
  <2>1. CASE ~Holds(w)
    BY <1>3, <1>6, <2>1 DEF LastHeartbeat
  <2>2. CASE Holds(w)
    <3>1. workers[w] \in Handling /\ workers[w].phase = "handled"
      BY <1>1, <1>6, HandlingWorker DEF LastHeartbeat
    <3>2. PICK phase \in {"boundary", "completing"} :
            Goes(w, [workers[w] EXCEPT !.phase = phase])
      BY <1>6, <2>2 DEF LastHeartbeat
    <3> DEFINE st == [workers[w] EXCEPT !.phase = phase]
    <3>3. st.phase = phase /\ st.job = workers[w].job
      BY <3>1, <3>2 DEF Handling
    <3>4. workers' = [workers EXCEPT ![w] = st]
          /\ jobs' = [jobs EXCEPT ![workers[w].job].lease = "held"]
      BY <1>6, <2>2, <3>2 DEF LastHeartbeat, Goes
    <3> HIDE DEF st
    <3> QED
      BY <3>1, <3>2, <3>3, <3>4, TurnKeeps, LeaseKeepsRows
  <2> QED
    BY <2>1, <2>2
<1>7. CASE Complete(w)
  <2>1. CASE ~Holds(w)
    BY <1>3, <1>7, <2>1 DEF Complete
  <2>2. CASE Holds(w) /\ jobs[workers[w].job].cancel
    BY <1>3, <1>7, <2>2 DEF Complete
  <2>3. CASE Holds(w) /\ ~jobs[workers[w].job].cancel
    BY <1>7, <2>3, EndKeepsRows DEF Complete
  <2> QED
    BY <2>1, <2>2, <2>3
<1>8. CASE CancelAtRunBoundary(w)
  <2>1. CASE Holds(w) /\ jobs[workers[w].job].cancel
    BY <1>8, <2>1, EndKeepsRows DEF CancelAtRunBoundary
  <2>2. CASE ~(Holds(w) /\ jobs[workers[w].job].cancel)
    BY <1>4, <1>8, <2>2 DEF CancelAtRunBoundary
  <2> QED
    BY <2>1, <2>2
<1>9. CASE ReadToFail(w)
  <2>1. CASE ~Holds(w)
    BY <1>4, <1>9, <2>1 DEF ReadToFail
  <2>2. CASE Holds(w) /\ jobs[workers[w].job].cancel
    BY <1>3, <1>9, <2>2 DEF ReadToFail
  <2>3. CASE Holds(w) /\ ~jobs[workers[w].job].cancel
    <3> DEFINE st == [phase |-> "retrying", job |-> workers[w].job,
                      attempts |-> jobs[workers[w].job].attempts + 1]
    <3>1. workers' = [workers EXCEPT ![w] = st] /\ UNCHANGED jobs /\ workers[w].phase = "failing"
      BY <1>9, <2>3 DEF ReadToFail, Goes
    <3>2. st.phase = "retrying"
      OBVIOUS
    <3> HIDE DEF st
    <3> QED
      BY <1>2, <3>1, <3>2, TurnKeeps
  <2> QED
    BY <2>1, <2>2, <2>3
<1>10. CASE Fail(w)
  <2>1. CASE ~Holds(w)
    BY <1>4, <1>10, <2>1 DEF Fail
  <2>2. CASE Holds(w) /\ jobs[workers[w].job].cancel
    BY <1>3, <1>10, <2>2 DEF Fail
  <2>3. CASE Holds(w) /\ ~jobs[workers[w].job].cancel
    <3>1. PICK status \in {"queued", "failed"} : Ends(w, status, workers[w].attempts)
      BY <1>10, <2>3 DEF Fail
    <3> QED
      BY <1>10, <2>3, <3>1, EndKeepsRows DEF Fail
  <2> QED
    BY <2>1, <2>2, <2>3
<1> QED
  BY <1>5, <1>6, <1>7, <1>8, <1>9, <1>10 DEF Elsewhere

\* The handler returns or throws.
LEMMA HandlerKeeps ==
    ASSUME QueueInvariant, CancelsAreMarked, NEW w \in Workers, HandlerReturns(w) \/ HandlerThrows(w)
    PROVE  /\ \A k \in Jobs : RowKept(k)
           /\ workers[w].phase = "handling"
           /\ \A v \in Workers \ {w} : workers'[v] = workers[v]
           /\ workers'[w].phase \in {"failing", "boundary", "handled"}
           /\ workers'[w].job = workers[w].job
           /\ HandlerThrows(w) => workers'[w].phase = "failing"
<1>1. workers[w] \in Handling /\ workers[w].phase = "handling"
  BY HandlingWorker DEF QueueInvariant, WorkersFit, HandlerReturns, HandlerThrows
<1>2. PICK phase \in {"failing", "boundary", "handled"} :
        Turns(w, phase) /\ (HandlerThrows(w) => phase = "failing")
  BY DEF HandlerReturns, HandlerThrows
<1> DEFINE st == [workers[w] EXCEPT !.phase = phase]
<1>3. st.phase = phase /\ st.job = workers[w].job
  BY <1>1, <1>2 DEF Handling
<1>4. workers' = [workers EXCEPT ![w] = st] /\ UNCHANGED jobs
  BY <1>2 DEF Turns, Goes
<1> HIDE DEF st
<1>5. \A v \in Workers : workers'[v] = IF v = w THEN st ELSE workers[v]
  BY <1>4 DEF QueueInvariant, WorkersFit
<1> QED
  BY <1>1, <1>2, <1>3, <1>4, <1>5, RowsKept

\* A claimed job runs, and its worker handles it.
LEMMA ClaimKeeps ==
    ASSUME QueueInvariant, CancelsAreMarked, NEW w \in Workers, Claim(w)
    PROVE  /\ \A k \in Jobs : RowKept(k)
           /\ workers[w].phase = "idle" /\ workers'[w].phase = "handling"
           /\ workers'[w].job \in Jobs /\ jobs[workers'[w].job].status # "none"
           /\ \A v \in Workers \ {w} : workers'[v] = workers[v]
<1>1. PICK j \in Jobs :
        /\ Claimable(j)
        /\ jobs' = [jobs EXCEPT ![j].status = "running", ![j].worker = w, ![j].lease = "held"]
        /\ Goes(w, [phase |-> "handling", job |-> j, cancel |-> FALSE, late |-> FALSE])
  BY DEF Claim
<1> DEFINE row == [jobs[j] EXCEPT !.status = "running", !.worker = w, !.lease = "held"]
           st == [phase |-> "handling", job |-> j, cancel |-> FALSE, late |-> FALSE]
<1>2. jobs[j] \in JobRows /\ jobs[j].status \in {"queued", "running"}
  BY <1>1 DEF QueueInvariant, JobsFit, Claimable
<1>3. row.status = "running" /\ row.cancel = jobs[j].cancel
  BY <1>2 DEF JobRows
<1>4. \A k \in Jobs : jobs'[k] = IF k = j THEN row ELSE jobs[k]
  BY <1>1 DEF QueueInvariant, JobsFit
<1>5. st.phase = "handling" /\ st.job = j
  OBVIOUS
<1>6. \A v \in Workers : workers'[v] = IF v = w THEN st ELSE workers[v]
  BY <1>1 DEF Goes, QueueInvariant, WorkersFit
<1> HIDE DEF row, st
<1>7. \A k \in Jobs : RowKept(k)
  BY <1>2, <1>3, <1>4 DEF RowKept, CancelsAreMarked
<1> QED
  BY <1>2, <1>5, <1>6, <1>7 DEF Claim

\* Pruning and queueing.
LEMMA PruneMoves ==
    ASSUME QueueInvariant, QueueTyped, CancelsAreMarked, NEW new \in SUBSET Jobs,
           PruneAndQueue(new), \A j, k \in new : j = k,
           \A j \in new : jobs[j].status \in Terminal \cup {"none"}
    PROVE  /\ UNCHANGED <<workers, faults>>
           /\ \A j \in Jobs :
                /\ jobs'[j].status = "canceled" => jobs'[j].cancel
                /\ jobs'[j].status = "completed" => jobs[j].status = "completed"
                /\ jobs'[j].cancel => jobs[j].cancel
                /\ jobs'[j].status # "none" => jobs[j].status # "none" \/ j \in new
                /\ Outdated = {} /\ jobs[j].status # "none" => jobs'[j].status # "none"
                /\ j \in new => jobs'[j].status # "none"
<1>1. \A j \in Jobs :
        \/ jobs'[j] = jobs[j] /\ j \notin new
        \/ j \in Outdated /\ jobs'[j] = Row("none")
        \/ j \in new /\ jobs'[j] = Row("queued")
  BY PruneKeeps
<1>2. \A s \in {"none", "queued"} : Row(s).status = s /\ Row(s).cancel = FALSE
  BY DEF Row
<1>3. \A j \in Jobs : j \in new => jobs'[j] = Row("queued")
  BY DEF PruneAndQueue
<1>4. \A j \in Jobs :
                /\ jobs'[j].status = "canceled" => jobs'[j].cancel
                /\ jobs'[j].status = "completed" => jobs[j].status = "completed"
                /\ jobs'[j].cancel => jobs[j].cancel
                /\ jobs'[j].status # "none" => jobs[j].status # "none" \/ j \in new
                /\ Outdated = {} /\ jobs[j].status # "none" => jobs'[j].status # "none"
                /\ j \in new => jobs'[j].status # "none"
  BY <1>1, <1>2, <1>3 DEF CancelsAreMarked
<1> QED
  BY <1>4 DEF PruneAndQueue

\* A job's cancellation is requested, or nothing is.
LEMMA CancelMoves ==
    ASSUME QueueInvariant, CancelsAreMarked, Cancel
    PROVE  /\ UNCHANGED <<workers, faults>>
           /\ caller.job \in Jobs
           /\ \A j \in Jobs :
                /\ jobs'[j].status # "none" <=> jobs[j].status # "none"
                /\ jobs'[j].status = "canceled" => jobs'[j].cancel
                /\ jobs'[j].status = "completed" => jobs[j].status = "completed"
                /\ jobs'[j].cancel /\ ~jobs[j].cancel => j = caller.job
<1>1. caller.job \in Jobs /\ UNCHANGED <<workers, faults>>
  BY DEF Cancel, QueueInvariant, CallerFits
<1>2. CASE jobs' = jobs
  BY <1>1, <1>2 DEF CancelsAreMarked
<1>3. CASE jobs' # jobs
  <2> DEFINE old == jobs[caller.job]
             row == [old EXCEPT !.cancel = TRUE,
                                !.status = IF @ = "queued" THEN "canceled" ELSE @]
  <2>1. jobs' = [jobs EXCEPT ![caller.job] = row] /\ old.status \in {"queued", "running"}
    BY <1>3 DEF Cancel, QueueInvariant, CallerFits
  <2>2. old \in JobRows
    BY <1>1 DEF QueueInvariant, JobsFit
  <2>3. row.cancel /\ row.status = (IF old.status = "queued" THEN "canceled" ELSE old.status)
    BY <2>2 DEF JobRows, Terminal
  <2>4. \A j \in Jobs : jobs'[j] = IF j = caller.job THEN row ELSE jobs[j]
    BY <2>1 DEF QueueInvariant, JobsFit
  <2> HIDE DEF row
  <2> QED
    BY <1>1, <2>1, <2>3, <2>4 DEF CancelsAreMarked
<1> QED
  BY <1>2, <1>3

\* The lease of a job runs out.
LEMMA ExpiresKeeps ==
    ASSUME QueueInvariant, CancelsAreMarked, NEW j \in Jobs, LeaseExpires(j) \/ Stall(j)
    PROVE  (\A k \in Jobs : RowKept(k)) /\ \A w \in Workers : WorkerKept(w)
  BY LeaseKeepsRows, WorkersKept DEF LeaseExpires, Stall, Expires

-----------------------------------------------------------------------------
(* What a step does to the runs, to who executes them and to the calls.     *)

\* A run row of a status without result, and one that changes its status.
LEMMA RunOfStatus ==
    ASSUME NEW status \in Statuses \ {"completed"}
    PROVE  /\ Run(status) \in RunRows /\ RunFits(Run(status))
           /\ Run(status).status = status
  BY DEF Run, RunRows, RunFits

LEMMA RunTurns ==
    ASSUME NEW row \in RunRows, RunFits(row), row.status # "completed",
           NEW status \in Statuses \ {"completed"}
    PROVE  LET new == [row EXCEPT !.status = status]
           IN  new \in RunRows /\ RunFits(new) /\ new.status = status
  BY DEF RunRows, RunFits

LEMMA RunCompletes ==
    ASSUME RunsTyped, QueueTyped, NEW x \in Executors
    PROVE  LET new == [status |-> "completed", result |-> x]
           IN  new \in RunRows /\ RunFits(new) /\ new.status = "completed"
  BY DEF RunRows, RunFits, Statuses, NoResult, Executors

\* One run gets another row, or several are deleted.
LEMMA RunsChange ==
    ASSUME RunsFit, NEW r \in Runs, NEW row \in RunRows, RunFits(row),
           runs' = [runs EXCEPT ![r] = row]
    PROVE  RunsFit' /\ \A q \in Runs : runs'[q] = IF q = r THEN row ELSE runs[q]
  BY DEF RunsFit

LEMMA RunsDeleted ==
    ASSUME RunsFit, NEW gone \in SUBSET Runs
    PROVE  /\ Without(runs, gone) \in [Runs -> RunRows]
           /\ \A r \in Runs :
                /\ RunFits(Without(runs, gone)[r])
                /\ Without(runs, gone)[r] = IF r \in gone THEN Run("deleted") ELSE runs[r]
<1>1. Run("deleted") \in RunRows /\ RunFits(Run("deleted"))
  BY RunOfStatus DEF Statuses
<1> QED
  BY <1>1 DEF RunsFit, Without

\* What may become of the row of a run.
RunMoves(r) ==
    \/ runs'[r] = runs[r]
    \/ Exists(r) /\ runs'[r] = Run("deleted")
    \/ runs[r].status = "none" /\ runs'[r] = Run("requested")
    \/ Exists(r) /\ Pending("reset", r) /\ runs'[r] = Run("requested")
    \/ /\ runs[r].status \in {"requested", "running", "failed"}
       /\ runs'[r].status \in {"completed", "failed", "canceled"}
    \/ /\ runs[r].status \in {"requested", "failed"} /\ runs'[r].status = "running"
       /\ \E x \in Executors : executions'[x].phase = "running" /\ executions'[x].run = r

\* What may become of an execution: it is done with a run that is completed, and
\* a run is not running any more when the last of its executions leaves it.
ExecutionMoves(x) ==
    /\ executions'[x].phase = "done" =>
        \/ executions'[x] = executions[x]
        \/ runs'[executions'[x].run].status = "completed"
    /\ executions[x].phase \in {"running", "failing"} =>
        \/ executions'[x].phase \in {"running", "failing"} /\ executions'[x].run = executions[x].run
        \/ runs'[executions[x].run].status # "running"
        \/ faults' # 0

\* A rerun begins with its row, a cancellation ends with its run.
CallMoves(r) ==
    /\ Pending("rerun", r)' \/ Pending("reset", r)' =>
        \/ Pending("rerun", r) \/ Pending("reset", r)
        \/ \E j \in Jobs : RunOf[j] = r /\ jobs'[RerunRow[j]].status # "none"
    /\ Pending("cancel", r) /\ ~Pending("cancel", r)' =>
        runs'[r].status # "requested" \/ faults' # 0

JobMoves(j) ==
    /\ jobs'[j].status = "canceled" => jobs'[j].cancel
    /\ jobs'[j].status # "none" /\ jobs[j].status = "none" => runs[RunOf[j]].status # "none"
    /\ Outdated = {} /\ jobs[j].status # "none" => jobs'[j].status # "none"
    /\ jobs'[j].status = "completed" =>
        \/ jobs[j].status = "completed"
        \/ \E w \in Workers : workers[w].phase = "completing" /\ workers[w].job = j
    /\ jobs'[j].cancel /\ ~jobs[j].cancel => Pending("cancel", RunOf[j])'

WorkerMoves(w) ==
    workers'[w].phase \in {"handled", "completing"} =>
        /\ workers'[w].job = workers[w].job
        /\ \/ workers[w].phase \in {"handled", "completing"}
           \/ workers[w].phase = "handling" /\ executions[w].phase = "done"

SimulationMoves ==
    /\ RunsFit' /\ ExecutionsFit' /\ CallsFit'
    /\ \A r \in Runs : RunMoves(r) /\ CallMoves(r)
    /\ \A x \in Executors : ExecutionMoves(x)
    /\ \A j \in Jobs : JobMoves(j)
    /\ \A w \in Workers : WorkerMoves(w)
    /\ faults' = 0 => faults = 0

-----------------------------------------------------------------------------
(* What does not change.                                                   *)

LEMMA SameRuns ==
    ASSUME SimulationFits, UNCHANGED runs
    PROVE  RunsFit' /\ \A r \in Runs : RunMoves(r)
  BY DEF SimulationFits, RunsFit, RunFits, RunMoves

LEMMA SameCalls ==
    ASSUME SimulationFits, UNCHANGED calls
    PROVE  CallsFit' /\ \A r \in Runs : CallMoves(r)
  BY DEF SimulationFits, CallsFit, CallMoves, Pending

LEMMA SameExecutions ==
    ASSUME SimulationFits, UNCHANGED executions, \A w \in Workers : WorkerKept(w)
    PROVE  /\ ExecutionsFit'
           /\ \A x \in Executors : ExecutionMoves(x)
           /\ \A w \in Workers : WorkerMoves(w)
  BY DEF SimulationFits, ExecutionsFit, ExecutionMoves, WorkerMoves, WorkerKept

LEMMA KeptJobs ==
    ASSUME SimulationFits, \A j \in Jobs : RowKept(j)
    PROVE  \A j \in Jobs : JobMoves(j)
  BY DEF RowKept, JobMoves

LEMMA SameJobs ==
    ASSUME SimulationFits, UNCHANGED jobs
    PROVE  \A j \in Jobs : JobMoves(j)
  BY DEF JobMoves, SimulationFits, CancelsAreMarked

LEMMA SameQueue ==
    ASSUME SimulationFits, UNCHANGED vars
    PROVE  /\ \A j \in Jobs : JobMoves(j)
           /\ \A w \in Workers : WorkerKept(w)
           /\ UNCHANGED workers /\ faults' = faults
  BY SameJobs, WorkersKept DEF vars

-----------------------------------------------------------------------------
(* The rows of the runs, and the users' calls on them.                     *)

\* A step on runs and calls alone.
LEMMA RowStep ==
    ASSUME SimulationFits, UNCHANGED <<vars, executions>>,
           RunsFit', CallsFit', \A r \in Runs : RunMoves(r) /\ CallMoves(r)
    PROVE  SimulationMoves
  BY SameQueue, SameExecutions DEF SimulationMoves

\* A pruned history lacks abandoned runs, requests and completed runs only.
LEMMA PrunedRows ==
    ASSUME SimulationFits, NEW newest \in SUBSET Runs, NEW rows \in Pruned(newest)
    PROVE  /\ rows \in [Runs -> RunRows]
           /\ \A r \in Runs :
                /\ RunFits(rows[r])
                /\ rows[r] = runs[r] \/ rows[r] = Run("deleted")
                /\ rows[r] # runs[r] => Exists(r)
                /\ r \in newest => rows[r] = runs[r] \/ runs[r].status \in {"failed", "canceled"}
<1>1. PICK gone \in SUBSET ((Completed \cup Requested) \ newest) :
        rows = Without(runs, Abandoned \cup gone)
  BY DEF Pruned
<1>2. Abandoned \cup gone \in SUBSET Runs
  BY <1>1 DEF Completed, Requested, Abandoned
<1>3. \A r \in Abandoned \cup gone :
        Exists(r) /\ (r \in newest => runs[r].status \in {"failed", "canceled"})
  BY <1>1 DEF Completed, Requested, Abandoned, Exists
<1> QED
  BY <1>1, <1>2, <1>3, RunsDeleted DEF SimulationFits

LEMMA CreateRequestMoves ==
    ASSUME SimulationFits, NEW r \in Runs, CreateRequest(r) PROVE SimulationMoves
<1>1. PICK rows \in Pruned({}) : runs' = [rows EXCEPT ![r] = Run("requested")]
  BY DEF CreateRequest
<1>2. /\ rows \in [Runs -> RunRows]
      /\ \A q \in Runs :
            /\ RunFits(rows[q]) /\ (rows[q] = runs[q] \/ rows[q] = Run("deleted"))
            /\ rows[q] # runs[q] => Exists(q)
  BY <1>1, PrunedRows
<1>3. Run("requested") \in RunRows /\ RunFits(Run("requested"))
  BY RunOfStatus DEF Statuses
<1>4. \A q \in Runs : runs'[q] = IF q = r THEN Run("requested") ELSE rows[q]
  BY <1>1, <1>2
<1>5. RunsFit'
  BY <1>1, <1>2, <1>3, <1>4 DEF RunsFit
<1>6. \A q \in Runs : RunMoves(q)
  BY <1>2, <1>4 DEF RunMoves, CreateRequest
<1>7. UNCHANGED <<vars, executions, calls>>
  BY DEF CreateRequest
<1> QED
  BY <1>5, <1>6, <1>7, SameCalls, RowStep

\* Runs are deleted.
LEMMA DeletedMoves ==
    ASSUME SimulationFits, NEW rows \in [Runs -> RunRows], runs' = rows,
           \A r \in Runs :
                /\ RunFits(rows[r]) /\ (rows[r] = runs[r] \/ rows[r] = Run("deleted"))
                /\ rows[r] # runs[r] => Exists(r),
           UNCHANGED <<vars, executions, calls>>
    PROVE  SimulationMoves
<1>1. RunsFit'
  BY DEF RunsFit
<1>2. \A r \in Runs : RunMoves(r)
  BY DEF RunMoves
<1> QED
  BY <1>1, <1>2, SameCalls, RowStep

LEMMA OtherRunEndsMoves ==
    ASSUME SimulationFits, OtherRunEnds PROVE SimulationMoves
<1>1. PICK rows \in Pruned({}) : runs' = rows
  BY DEF OtherRunEnds
<1> QED
  BY <1>1, PrunedRows, DeletedMoves DEF OtherRunEnds

LEMMA ReconcileMoves ==
    ASSUME SimulationFits, ReconcileAbandoned PROVE SimulationMoves
<1>1. PICK old \in SUBSET Requested : runs' = Without(runs, Abandoned \cup old)
  BY DEF ReconcileAbandoned
<1>2. Abandoned \cup old \in SUBSET Runs /\ \A r \in Abandoned \cup old : Exists(r)
  BY <1>1 DEF Requested, Abandoned, Exists
<1>3. UNCHANGED <<vars, executions, calls>>
  BY DEF ReconcileAbandoned
<1> QED
  BY <1>1, <1>2, <1>3, RunsDeleted, DeletedMoves DEF SimulationFits

\* A cancelled run was requested or running.
LEMMA CancelledMoves ==
    ASSUME SimulationFits, NEW r \in Runs, runs' = Cancelled(r)
    PROVE  /\ RunsFit' /\ \A q \in Runs : RunMoves(q)
           /\ runs'[r].status \notin {"requested", "running"}
<1>1. runs[r] \in RunRows /\ RunFits(runs[r])
  BY DEF SimulationFits, RunsFit
<1>2. CASE runs[r].status \in {"requested", "running"}
  <2> DEFINE row == [runs[r] EXCEPT !.status = "canceled"]
  <2>1. row \in RunRows /\ RunFits(row) /\ row.status = "canceled"
    BY <1>1, <1>2, RunTurns DEF Statuses
  <2>2. runs' = [runs EXCEPT ![r] = row]
    BY <1>2 DEF Cancelled
  <2> HIDE DEF row
  <2>3. RunsFit' /\ \A q \in Runs : runs'[q] = IF q = r THEN row ELSE runs[q]
    BY <2>1, <2>2, RunsChange DEF SimulationFits
  <2> QED
    BY <1>2, <2>1, <2>3 DEF RunMoves
<1>3. CASE runs[r].status \notin {"requested", "running"}
  BY <1>3, SameRuns DEF Cancelled
<1> QED
  BY <1>2, <1>3

LEMMA CancelRequestMoves ==
    ASSUME SimulationFits, NEW r \in Runs, CancelRequest(r) PROVE SimulationMoves
  BY CancelledMoves, SameCalls, RowStep DEF CancelRequest

\* A call on a run is over.
LEMMA CallEnds ==
    ASSUME SimulationFits, NEW c \in calls, calls' = calls \ {c},
           c.kind = "cancel" => runs'[c.run].status # "requested"
    PROVE  CallsFit' /\ \A r \in Runs : CallMoves(r)
<1>1. CallsFit'
  BY DEF SimulationFits, CallsFit
<1>2. ASSUME NEW r \in Runs PROVE CallMoves(r)
  <2>1. ASSUME NEW kind, Pending(kind, r)' PROVE Pending(kind, r)
    BY <2>1 DEF Pending
  <2>2. ASSUME Pending("cancel", r), ~Pending("cancel", r)' PROVE runs'[r].status # "requested"
    BY <2>2 DEF Pending
  <2> QED
    BY <2>1, <2>2 DEF CallMoves
<1> QED
  BY <1>1, <1>2

LEMMA MarkCanceledMoves ==
    ASSUME SimulationFits, NEW c \in calls, MarkCanceled(c) PROVE SimulationMoves
<1>1. runs' = Cancelled(c.run) /\ calls' = calls \ {c} /\ UNCHANGED <<vars, executions>>
  BY DEF MarkCanceled
<1>2. PICK r \in Runs : r = c.run
  BY DEF SimulationFits, CallsFit, CallRows
<1>3. RunsFit' /\ (\A q \in Runs : RunMoves(q)) /\ runs'[r].status # "requested"
  BY <1>1, <1>2, CancelledMoves
<1>4. CallsFit' /\ \A q \in Runs : CallMoves(q)
  BY <1>1, <1>2, <1>3, CallEnds
<1> QED
  BY <1>1, <1>3, <1>4, RowStep

LEMMA ReadToResetMoves ==
    ASSUME SimulationFits, NEW c \in calls, ReadToReset(c) PROVE SimulationMoves
<1> DEFINE new == [c EXCEPT !.kind = "reset"]
<1>1. /\ c.kind = "rerun" /\ UNCHANGED <<vars, runs, executions>>
      /\ calls' = calls \ {c} \/ calls' = (calls \ {c}) \cup {new}
  BY DEF ReadToReset
<1>2. c \in CallRows
  BY DEF SimulationFits, CallsFit
<1>3. new \in CallRows /\ new.kind = "reset" /\ new.run = c.run
  BY <1>2 DEF CallRows
<1> HIDE DEF new
<1>4. CASE calls' = calls \ {c}
  BY <1>1, <1>4, CallEnds, SameRuns, RowStep
<1>5. CASE calls' = (calls \ {c}) \cup {new}
  <2>1. CallsFit'
    BY <1>3, <1>5 DEF SimulationFits, CallsFit
  <2>2. ASSUME NEW r \in Runs PROVE CallMoves(r)
    <3>1. Pending("cancel", r) => Pending("cancel", r)'
      BY <1>1, <1>5 DEF Pending
    <3>2. Pending("rerun", r)' => Pending("rerun", r)
      BY <1>3, <1>5 DEF Pending
    <3>3. Pending("reset", r)' => Pending("rerun", r) \/ Pending("reset", r)
      BY <1>1, <1>3, <1>5 DEF Pending
    <3> QED
      BY <3>1, <3>2, <3>3 DEF CallMoves
  <2> QED
    BY <1>1, <2>1, <2>2, SameRuns, RowStep
<1> QED
  BY <1>1, <1>4, <1>5

LEMMA ResetMoves ==
    ASSUME SimulationFits, NEW c \in calls, ResetForRerun(c) PROVE SimulationMoves
<1>1. c.kind = "reset" /\ calls' = calls \ {c} /\ UNCHANGED <<vars, executions>>
  BY DEF ResetForRerun
<1>2. PICK r \in Runs : r = c.run
  BY DEF SimulationFits, CallsFit, CallRows
<1>3. Pending("reset", r)
  BY <1>1, <1>2 DEF Pending
<1>4. CallsFit' /\ \A q \in Runs : CallMoves(q)
  BY <1>1, CallEnds
<1>5. CASE Exists(r)
  <2>1. runs' = [runs EXCEPT ![r] = Run("requested")]
    BY <1>2, <1>5 DEF ResetForRerun
  <2>2. Run("requested") \in RunRows /\ RunFits(Run("requested"))
    BY RunOfStatus DEF Statuses
  <2>3. RunsFit' /\ \A q \in Runs : runs'[q] = IF q = r THEN Run("requested") ELSE runs[q]
    BY <2>1, <2>2, RunsChange DEF SimulationFits
  <2>4. \A q \in Runs : RunMoves(q)
    BY <1>3, <1>5, <2>3 DEF RunMoves
  <2> QED
    BY <1>1, <1>4, <2>3, <2>4, RowStep
<1>6. CASE ~Exists(r)
  <2>1. runs' = runs
    BY <1>2, <1>6 DEF ResetForRerun
  <2> QED
    BY <1>1, <1>4, <2>1, SameRuns, RowStep
<1> QED
  BY <1>5, <1>6

\* A call begins; a rerun's when its row is queued.
LEMMA CallBegins ==
    ASSUME SimulationFits, NEW r \in Runs, NEW kind \in {"cancel", "rerun"}, Begins(kind, r),
           kind = "rerun" => \E j \in Jobs : RunOf[j] = r /\ jobs'[RerunRow[j]].status # "none"
    PROVE  CallsFit' /\ Pending(kind, r)' /\ \A q \in Runs : CallMoves(q)
<1>1. PICK n \in 1..MaxCalls : calls' = calls \cup {Call(kind, r, n)}
  BY DEF Begins
<1>2. PICK new \in CallRows : new = Call(kind, r, n) /\ new.kind = kind /\ new.run = r
  <2>1. Call(kind, r, n) \in CallRows
    BY DEF Call, CallRows
  <2>2. Call(kind, r, n).kind = kind /\ Call(kind, r, n).run = r
    BY DEF Call
  <2> QED
    BY <2>1, <2>2
<1>3. CallsFit'
  BY <1>1, <1>2 DEF SimulationFits, CallsFit
<1>4. Pending(kind, r)'
  BY <1>1, <1>2 DEF Pending
<1>5. ASSUME NEW q \in Runs PROVE CallMoves(q)
  <2>1. Pending("cancel", q) => Pending("cancel", q)'
    BY <1>1 DEF Pending
  <2>2. Pending("reset", q)' => Pending("reset", q)
    BY <1>1, <1>2 DEF Pending
  <2>3. Pending("rerun", q)' => Pending("rerun", q) \/ (kind = "rerun" /\ q = r)
    BY <1>1, <1>2 DEF Pending
  <2> QED
    BY <2>1, <2>2, <2>3 DEF CallMoves
<1> QED
  BY <1>3, <1>4, <1>5

LEMMA CancelJobAgainMoves ==
    ASSUME SimulationFits, RunsTyped, NEW j \in Jobs, CancelJobAgain(j)
    PROVE  SimulationMoves
<1>1. PICK r \in Runs : r = RunOf[j]
  BY RunsTyped
<1>2. Begins("cancel", r) /\ UNCHANGED <<vars, runs, executions>>
  BY <1>1 DEF CancelJobAgain
<1>3. CallsFit' /\ \A q \in Runs : CallMoves(q)
  BY <1>2, CallBegins
<1> QED
  BY <1>2, <1>3, SameRuns, RowStep

-----------------------------------------------------------------------------
(* What executes runs.                                                      *)

LEMMA Executor ==
    ASSUME SimulationFits, NEW x \in Executors, executions[x].phase # "none"
    PROVE  /\ executions[x] \in Executing
           /\ executions[x].run \in Runs
           /\ NotExecuting \notin Executing
           /\ NotExecuting.phase = "none"
  BY DEF SimulationFits, ExecutionsFit, NotExecuting, Executing

\* An executor goes on with its run, or the web process answers.
LEMMA ExecutorSteps ==
    ASSUME SimulationFits, RunsTyped, NEW x \in Executors, executions[x].phase # "none",
           NEW phase \in {"marking", "running", "failing", "done", "threw"},
           Moves(x, phase) \/ Returns(x, phase),
           UNCHANGED <<vars, calls>>, RunsFit', \A r \in Runs : RunMoves(r),
           phase = "done" => runs'[executions[x].run].status = "completed",
           executions[x].phase \in {"running", "failing"} =>
                \/ Moves(x, phase) /\ phase = "failing"
                \/ runs'[executions[x].run].status # "running"
    PROVE  SimulationMoves
<1> DEFINE new == [executions[x] EXCEPT !.phase = phase]
<1>1. /\ executions[x] \in Executing /\ executions[x].run \in Runs
      /\ NotExecuting \notin Executing /\ NotExecuting.phase = "none"
  BY Executor
<1>2. new \in Executing /\ new.phase = phase /\ new.run = executions[x].run
  BY <1>1 DEF Executing
<1>3. PICK st \in {new, NotExecuting} :
        /\ executions' = [executions EXCEPT ![x] = st]
        /\ st = NotExecuting => x = Web
        /\ Moves(x, phase) => st = new
  <2>1. CASE Moves(x, phase)
    <3>1. executions' = [executions EXCEPT ![x] = new]
      BY <2>1 DEF Moves, SimulationFits, ExecutionsFit
    <3>2. new # NotExecuting
      BY <1>1, <1>2
    <3> QED
      BY <3>1, <3>2
  <2>2. CASE ~Moves(x, phase)
    <3>1. executions' = [executions EXCEPT ![x] = IF x = Web THEN NotExecuting ELSE new]
      BY <2>2 DEF Returns, SimulationFits, ExecutionsFit
    <3>2. new # NotExecuting
      BY <1>1, <1>2
    <3> QED
      BY <2>2, <3>1, <3>2
  <2> QED
    BY <2>1, <2>2
<1> HIDE DEF new
<1>4. \A y \in Executors : executions'[y] = IF y = x THEN st ELSE executions[y]
  BY <1>3 DEF SimulationFits, ExecutionsFit
<1>5. UNCHANGED workers
  BY DEF vars
<1>6. executions' \in [Executors -> {NotExecuting} \cup Executing]
  BY <1>2, <1>3 DEF SimulationFits, ExecutionsFit
<1>7. ASSUME NEW w \in Workers
      PROVE  /\ executions'[w] # NotExecuting <=> workers'[w].phase = "handling"
             /\ workers'[w].phase = "handling" => executions'[w].run = RunOf[workers'[w].job]
  <2>1. w \in Executors /\ w # Web
    BY RunsTyped DEF Executors
  <2>2. /\ executions[w] # NotExecuting <=> workers[w].phase = "handling"
        /\ workers[w].phase = "handling" => executions[w].run = RunOf[workers[w].job]
    BY DEF SimulationFits, ExecutionsFit
  <2>3. CASE w = x
    <3>1. executions'[w] = new /\ executions[w] # NotExecuting
      BY <1>1, <1>3, <1>4, <2>1, <2>3
    <3> QED
      BY <1>1, <1>2, <1>5, <2>2, <2>3, <3>1
  <2>4. CASE w # x
    BY <1>4, <1>5, <2>1, <2>2, <2>4
  <2> QED
    BY <2>3, <2>4
<1>8. ExecutionsFit'
  BY <1>6, <1>7 DEF ExecutionsFit
<1>9. ASSUME NEW y \in Executors PROVE ExecutionMoves(y)
  <2>1. CASE y = x
    <3>1. executions'[y] = st
      BY <1>4, <2>1
    <3>2. st.phase = "done" => st = new /\ phase = "done"
      BY <1>1, <1>2, <1>3
    <3> QED
      BY <1>2, <1>3, <2>1, <3>1, <3>2 DEF ExecutionMoves
  <2>2. CASE y # x
    BY <1>4, <2>2 DEF ExecutionMoves
  <2> QED
    BY <2>1, <2>2
<1>10. \A w \in Workers : WorkerMoves(w)
  BY <1>5 DEF WorkerMoves
<1> QED
  BY <1>8, <1>9, <1>10, SameQueue, SameCalls DEF SimulationMoves

LEMMA StartsOnWebMoves ==
    ASSUME SimulationFits, RunsTyped, NEW r \in Runs, StartsOnWeb(r) PROVE SimulationMoves
<1> DEFINE st == [phase |-> "finding", run |-> r]
<1>1. /\ executions[Web] = NotExecuting /\ executions' = [executions EXCEPT ![Web] = st]
      /\ UNCHANGED <<vars, runs, calls>>
  BY DEF StartsOnWeb
<1>2. st \in Executing /\ st.phase = "finding" /\ NotExecuting.phase = "none"
  BY DEF Executing, NotExecuting
<1> HIDE DEF st
<1>3. UNCHANGED workers
  BY <1>1 DEF vars
<1>4. \A x \in Executors : executions'[x] = IF x = Web THEN st ELSE executions[x]
  BY <1>1 DEF SimulationFits, ExecutionsFit
<1>5. executions' \in [Executors -> {NotExecuting} \cup Executing]
  BY <1>1, <1>2 DEF SimulationFits, ExecutionsFit
<1>6. \A w \in Workers : w \in Executors /\ w # Web
  BY RunsTyped DEF Executors
<1>7. ExecutionsFit'
  BY <1>3, <1>4, <1>5, <1>6 DEF SimulationFits, ExecutionsFit
<1>8. \A x \in Executors : ExecutionMoves(x)
  BY <1>1, <1>2, <1>4 DEF ExecutionMoves
<1>9. \A w \in Workers : WorkerMoves(w)
  BY <1>3 DEF WorkerMoves
<1> QED
  BY <1>1, <1>7, <1>8, <1>9, SameQueue, SameCalls, SameRuns DEF SimulationMoves

LEMMA FindMoves ==
    ASSUME SimulationFits, RunsTyped, NEW x \in Executors, Find(x) PROVE SimulationMoves
<1>1. executions[x].phase = "finding" /\ UNCHANGED <<vars, runs, calls>>
  BY DEF Find
<1>2. PICK phase \in {"marking", "done", "threw"} :
        /\ Moves(x, phase) \/ Returns(x, phase)
        /\ phase = "done" => runs[executions[x].run].status = "completed"
  BY DEF Find
<1>3. phase = "done" => runs'[executions[x].run].status = "completed"
  BY <1>1, <1>2
<1> QED
  BY <1>1, <1>2, <1>3, SameRuns, ExecutorSteps

\* A run becomes running, or fails.
LEMMA RunTurnsTo ==
    ASSUME SimulationFits, NEW r \in Runs, runs[r].status \in {"requested", "running", "failed"},
           NEW status \in {"running", "failed"}, runs' = [runs EXCEPT ![r].status = status]
    PROVE  /\ RunsFit'
           /\ runs'[r].status = status
           /\ \A q \in Runs : q # r => runs'[q] = runs[q]
<1> DEFINE row == [runs[r] EXCEPT !.status = status]
<1>1. runs[r] \in RunRows /\ RunFits(runs[r])
  BY DEF SimulationFits, RunsFit
<1>2. row \in RunRows /\ RunFits(row) /\ row.status = status
  BY <1>1, RunTurns DEF Statuses
<1>3. runs' = [runs EXCEPT ![r] = row]
  OBVIOUS
<1> HIDE DEF row
<1> QED
  BY <1>2, <1>3, RunsChange DEF SimulationFits

LEMMA MarkRunningMoves ==
    ASSUME SimulationFits, RunsTyped, NEW x \in Executors, MarkRunning(x) PROVE SimulationMoves
<1> DEFINE r == executions[x].run
<1>1. executions[x].phase = "marking" /\ UNCHANGED <<vars, calls>>
  BY DEF MarkRunning
<1>2. executions[x] \in Executing /\ r \in Runs
  BY <1>1, Executor
<1>3. CASE ~Exists(r)
  <2>1. Returns(x, "threw") /\ UNCHANGED runs
    BY <1>3 DEF MarkRunning
  <2> QED
    BY <1>1, <2>1, SameRuns, ExecutorSteps
<1>4. CASE Exists(r)
  <2>1. /\ Moves(x, "running")
        /\ runs' = IF runs[r].status \in {"requested", "failed"}
                   THEN [runs EXCEPT ![r].status = "running"] ELSE runs
    BY <1>4 DEF MarkRunning
  <2>2. executions'[x].phase = "running" /\ executions'[x].run = r
    BY <1>2, <2>1 DEF Moves, SimulationFits, ExecutionsFit, Executing
  <2>3. RunsFit' /\ \A q \in Runs : RunMoves(q)
    <3>1. CASE runs[r].status \in {"requested", "failed"}
      <4>1. runs' = [runs EXCEPT ![r].status = "running"]
        BY <2>1, <3>1
      <4>2. /\ RunsFit' /\ runs'[r].status = "running"
            /\ \A q \in Runs : q # r => runs'[q] = runs[q]
        BY <1>2, <3>1, <4>1, RunTurnsTo
      <4> QED
        BY <2>2, <3>1, <4>2 DEF RunMoves
    <3>2. CASE runs[r].status \notin {"requested", "failed"}
      BY <2>1, <3>2, SameRuns
    <3> QED
      BY <3>1, <3>2
  <2> QED
    BY <1>1, <2>1, <2>3, ExecutorSteps
<1> QED
  BY <1>3, <1>4

LEMMA RunnerThrowsMoves ==
    ASSUME SimulationFits, RunsTyped, NEW x \in Executors, RunnerThrows(x) PROVE SimulationMoves
<1>1. executions[x].phase = "running" /\ UNCHANGED <<vars, runs, calls>> /\ Moves(x, "failing")
  BY DEF RunnerThrows
<1> QED
  BY <1>1, SameRuns, ExecutorSteps

LEMMA MarkFailedMoves ==
    ASSUME SimulationFits, RunsTyped, NEW x \in Executors, MarkFailed(x) PROVE SimulationMoves
<1> DEFINE r == executions[x].run
<1>1. /\ executions[x].phase = "failing" /\ UNCHANGED <<vars, calls>>
      /\ Returns(x, "threw")
      /\ runs' = IF runs[r].status \in {"requested", "running"}
                 THEN [runs EXCEPT ![r].status = "failed"] ELSE runs
  BY DEF MarkFailed
<1>2. r \in Runs
  BY <1>1, Executor
<1>3. CASE runs[r].status \in {"requested", "running"}
  <2>1. runs' = [runs EXCEPT ![r].status = "failed"]
    BY <1>1, <1>3
  <2>2. /\ RunsFit' /\ runs'[r].status = "failed"
        /\ \A q \in Runs : q # r => runs'[q] = runs[q]
    BY <1>2, <1>3, <2>1, RunTurnsTo
  <2>3. \A q \in Runs : RunMoves(q)
    BY <1>3, <2>2 DEF RunMoves
  <2> QED
    BY <1>1, <2>2, <2>3, ExecutorSteps
<1>4. CASE runs[r].status \notin {"requested", "running"}
  <2>1. UNCHANGED runs
    BY <1>1, <1>4
  <2>2. runs'[r].status # "running"
    BY <1>4, <2>1
  <2> QED
    BY <1>1, <2>1, <2>2, SameRuns, ExecutorSteps
<1> QED
  BY <1>3, <1>4

LEMMA CompleteRunMoves ==
    ASSUME SimulationFits, RunsTyped, QueueTyped, NEW x \in Executors, CompleteRun(x)
    PROVE  SimulationMoves
<1> DEFINE r == executions[x].run
<1>1. executions[x].phase = "running" /\ UNCHANGED <<vars, calls>>
  BY DEF CompleteRun
<1>2. r \in Runs
  BY <1>1, Executor
<1>3. CASE runs[r].status \in {"requested", "running"}
  <2> DEFINE row == [status |-> "completed", result |-> x]
  <2>1. GetsResult(r, x) /\ Returns(x, "done")
    BY <1>3 DEF CompleteRun
  <2>2. PICK rows \in Pruned({r}) : runs' = [rows EXCEPT ![r] = row]
    BY <2>1 DEF GetsResult
  <2>3. row \in RunRows /\ RunFits(row) /\ row.status = "completed"
    BY RunCompletes
  <2> HIDE DEF row
  <2>4. /\ rows \in [Runs -> RunRows]
        /\ \A q \in Runs :
            /\ RunFits(rows[q])
            /\ rows[q] = runs[q] \/ rows[q] = Run("deleted")
            /\ rows[q] # runs[q] => Exists(q)
    BY <1>2, <2>2, PrunedRows
  <2>5. \A q \in Runs : runs'[q] = IF q = r THEN row ELSE rows[q]
    BY <2>2, <2>4
  <2>6. runs' \in [Runs -> RunRows]
    BY <2>2, <2>3, <2>4
  <2>7. RunsFit'
    BY <2>3, <2>4, <2>5, <2>6 DEF RunsFit
  <2>8. \A q \in Runs : RunMoves(q)
    BY <1>3, <2>3, <2>4, <2>5 DEF RunMoves
  <2>9. runs'[r].status = "completed"
    BY <1>2, <2>3, <2>5
  <2> QED
    BY <1>1, <2>1, <2>7, <2>8, <2>9, ExecutorSteps
<1>4. CASE runs[r].status \notin {"requested", "running"}
  <2>1. PICK phase \in {"done", "threw"} :
            /\ Returns(x, phase) /\ UNCHANGED runs
            /\ phase = "done" => runs[r].status = "completed"
    BY <1>4 DEF CompleteRun
  <2>2. /\ runs'[r].status # "running"
        /\ phase = "done" => runs'[r].status = "completed"
    BY <1>4, <2>1
  <2> QED
    BY <1>1, <2>1, <2>2, SameRuns, ExecutorSteps
<1> QED
  BY <1>3, <1>4

-----------------------------------------------------------------------------
(* The queue's steps, with what they do to the runs.                        *)

\* A step of the queue that leaves runs and executions alone.
LEMMA QueueStep ==
    ASSUME SimulationFits, UNCHANGED <<runs, executions>>,
           CallsFit', \A r \in Runs : CallMoves(r),
           \A j \in Jobs : JobMoves(j), \A w \in Workers : WorkerKept(w),
           faults' = 0 => faults = 0
    PROVE  SimulationMoves
  BY SameRuns, SameExecutions DEF SimulationMoves

LEMMA EnqueueRunMoves ==
    ASSUME SimulationFits, QueueTyped, NEW j \in Jobs, EnqueueRun(j) PROVE SimulationMoves
<1>1. UNCHANGED <<runs, executions, calls>> /\ runs[RunOf[j]].status # "none"
  BY DEF EnqueueRun, simulationVars, Exists
<1>2. PICK new \in SUBSET Jobs :
        /\ PruneAndQueue(new) /\ new \subseteq {j}
        /\ \A k \in new : jobs[k].status \in Terminal \cup {"none"}
  BY DEF EnqueueRun, Submit, Outdated
<1>3. /\ UNCHANGED <<workers, faults>>
      /\ \A k \in Jobs :
            /\ jobs'[k].status = "canceled" => jobs'[k].cancel
            /\ jobs'[k].status = "completed" => jobs[k].status = "completed"
            /\ jobs'[k].cancel => jobs[k].cancel
            /\ jobs'[k].status # "none" => jobs[k].status # "none" \/ k \in new
            /\ Outdated = {} /\ jobs[k].status # "none" => jobs'[k].status # "none"
  BY <1>2, PruneMoves DEF SimulationFits
<1>4. \A k \in Jobs : JobMoves(k)
  BY <1>1, <1>2, <1>3 DEF JobMoves
<1> QED
  BY <1>1, <1>3, <1>4, SameCalls, WorkersKept, QueueStep

LEMMA RerunJobMoves ==
    ASSUME SimulationFits, QueueTyped, RunsTyped, NEW j \in Jobs, RerunJob(j)
    PROVE  SimulationMoves
<1>1. PICK r \in Runs : r = RunOf[j]
  BY RunsTyped
<1>2. PICK k \in Jobs : k = RerunRow[j]
  BY QueueTyped, RunsTyped DEF Reruns
<1>3. RunOf[k] = r /\ RerunRow[k] = k
  BY <1>1, <1>2, QueueTyped, RunsTyped DEF Reruns
<1>4. /\ PruneAndQueue({k}) /\ jobs[j].status # "none"
      /\ jobs[k].status \in Terminal \cup {"none"}
      /\ Begins("rerun", r) /\ UNCHANGED <<runs, executions>>
  BY <1>1, <1>2 DEF RerunJob, Rerun, Terminal
<1>5. runs[r].status # "none"
  BY <1>1, <1>4 DEF SimulationFits, JobsHaveRuns
<1>6. /\ UNCHANGED <<workers, faults>>
      /\ \A i \in Jobs :
            /\ jobs'[i].status = "canceled" => jobs'[i].cancel
            /\ jobs'[i].status = "completed" => jobs[i].status = "completed"
            /\ jobs'[i].cancel => jobs[i].cancel
            /\ jobs'[i].status # "none" => jobs[i].status # "none" \/ i \in {k}
            /\ Outdated = {} /\ jobs[i].status # "none" => jobs'[i].status # "none"
            /\ i \in {k} => jobs'[i].status # "none"
  <2>1. {k} \in SUBSET Jobs /\ (\A a, b \in {k} : a = b)
    OBVIOUS
  <2> QED
    BY <1>4, <2>1, PruneMoves DEF SimulationFits
<1>7. \A i \in Jobs : JobMoves(i)
  BY <1>3, <1>5, <1>6 DEF JobMoves
<1>8. CallsFit' /\ \A q \in Runs : CallMoves(q)
  <2>1. RunOf[k] = r /\ jobs'[RerunRow[k]].status # "none"
    BY <1>3, <1>6
  <2> QED
    BY <1>4, <2>1, CallBegins
<1> QED
  BY <1>4, <1>6, <1>7, <1>8, WorkersKept, QueueStep

LEMMA CancelJobMoves ==
    ASSUME SimulationFits, RunsTyped, CancelJob PROVE SimulationMoves
<1>1. /\ UNCHANGED <<workers, faults, runs, executions>>
      /\ caller.job \in Jobs
      /\ \A j \in Jobs :
            /\ jobs'[j].status # "none" <=> jobs[j].status # "none"
            /\ jobs'[j].status = "canceled" => jobs'[j].cancel
            /\ jobs'[j].status = "completed" => jobs[j].status = "completed"
            /\ jobs'[j].cancel /\ ~jobs[j].cancel => j = caller.job
  BY CancelMoves DEF SimulationFits, CancelJob
<1>2. PICK r \in Runs : r = RunOf[caller.job]
  BY <1>1, RunsTyped
<1>3. /\ Begins("cancel", r) \/ UNCHANGED calls
      /\ jobs'[caller.job].cancel => Begins("cancel", r)
  BY <1>2 DEF CancelJob
<1>4. /\ CallsFit' /\ \A q \in Runs : CallMoves(q)
      /\ jobs'[caller.job].cancel => Pending("cancel", r)'
  BY <1>3, SameCalls, CallBegins
<1>5. \A j \in Jobs : JobMoves(j)
  BY <1>1, <1>2, <1>4 DEF JobMoves
<1> QED
  BY <1>1, <1>4, <1>5, WorkersKept, QueueStep

LEMMA BeginCancelJobMoves ==
    ASSUME SimulationFits, NEW j \in Jobs, BeginCancelJob(j) PROVE SimulationMoves
  BY SameJobs, SameCalls, WorkersKept, QueueStep
     DEF BeginCancelJob, ReadToCancel, simulationVars

LEMMA ElsewhereMoves ==
    ASSUME SimulationFits, NEW w \in Workers, Elsewhere(w), UNCHANGED simulationVars
    PROVE  SimulationMoves
<1>1. (\A k \in Jobs : RowKept(k)) /\ \A v \in Workers : WorkerKept(v)
  BY ElsewhereKeeps DEF SimulationFits
<1>2. faults' = faults
  BY DEF Elsewhere, Heartbeat, LastHeartbeat, Complete, CancelAtRunBoundary, ReadToFail, Fail,
         Goes, Turns, Ends
<1>3. UNCHANGED <<runs, executions, calls>>
  BY DEF simulationVars
<1> QED
  BY <1>1, <1>2, <1>3, KeptJobs, SameCalls, QueueStep

LEMMA LeaseMoves ==
    ASSUME SimulationFits, NEW j \in Jobs, LeaseExpires(j) \/ Stall(j), UNCHANGED simulationVars
    PROVE  SimulationMoves
<1>1. (\A k \in Jobs : RowKept(k)) /\ \A v \in Workers : WorkerKept(v)
  BY ExpiresKeeps DEF SimulationFits
<1>2. faults' = 0 => faults = 0
  <2>1. faults \in Nat
    BY DEF SimulationFits, QueueInvariant
  <2> QED
    BY <2>1 DEF LeaseExpires, Stall
<1>3. UNCHANGED <<runs, executions, calls>>
  BY DEF simulationVars
<1> QED
  BY <1>1, <1>2, <1>3, KeptJobs, SameCalls, QueueStep

LEMMA StutterMoves ==
    ASSUME SimulationFits, UNCHANGED allVars PROVE SimulationMoves
<1>1. UNCHANGED vars /\ UNCHANGED <<runs, executions, calls>>
  BY DEF allVars, simulationVars
<1> QED
  BY <1>1, SameQueue, SameCalls, QueueStep

\* A worker enters or leaves its handler.
LEMMA WorkerExecutes ==
    ASSUME SimulationFits, RunsTyped, NEW w \in Workers,
           executions' \in [Executors -> {NotExecuting} \cup Executing],
           \A x \in Executors \ {w} : executions'[x] = executions[x],
           \A v \in Workers \ {w} : workers'[v] = workers[v],
           executions'[w] # NotExecuting <=> workers'[w].phase = "handling",
           workers'[w].phase = "handling" => executions'[w].run = RunOf[workers'[w].job]
    PROVE  ExecutionsFit'
<1>1. \A v \in Workers : v \in Executors
  BY DEF Executors
<1>2. ASSUME NEW v \in Workers
      PROVE  /\ executions'[v] # NotExecuting <=> workers'[v].phase = "handling"
             /\ workers'[v].phase = "handling" => executions'[v].run = RunOf[workers'[v].job]
  <2>1. /\ executions[v] # NotExecuting <=> workers[v].phase = "handling"
        /\ workers[v].phase = "handling" => executions[v].run = RunOf[workers[v].job]
    BY DEF SimulationFits, ExecutionsFit
  <2> QED
    BY <1>1, <2>1
<1> QED
  BY <1>2 DEF ExecutionsFit

LEMMA ClaimRunMoves ==
    ASSUME SimulationFits, RunsTyped, NEW w \in Workers, ClaimRun(w) PROVE SimulationMoves
<1>1. /\ \A k \in Jobs : RowKept(k)
      /\ workers[w].phase = "idle" /\ workers'[w].phase = "handling"
      /\ workers'[w].job \in Jobs
      /\ \A v \in Workers \ {w} : workers'[v] = workers[v]
  BY ClaimKeeps DEF SimulationFits, ClaimRun
<1> DEFINE st == [phase |-> "finding", run |-> RunOf[workers'[w].job]]
<1>2. /\ executions' = [executions EXCEPT ![w] = st]
      /\ UNCHANGED <<runs, calls>> /\ faults' = faults
  BY DEF ClaimRun, Claim, Goes
<1>3. /\ st \in Executing /\ st.phase = "finding" /\ st.run = RunOf[workers'[w].job]
      /\ st # NotExecuting
  BY <1>1, RunsTyped DEF Executing, NotExecuting
<1>4. w \in Executors /\ executions[w] = NotExecuting /\ NotExecuting.phase = "none"
  BY <1>1 DEF SimulationFits, ExecutionsFit, Executors, NotExecuting
<1> HIDE DEF st
<1>5. /\ executions' \in [Executors -> {NotExecuting} \cup Executing]
      /\ \A x \in Executors : executions'[x] = IF x = w THEN st ELSE executions[x]
  BY <1>2, <1>3 DEF SimulationFits, ExecutionsFit
<1>6. ExecutionsFit'
  BY <1>1, <1>3, <1>4, <1>5, WorkerExecutes
<1>7. \A x \in Executors : ExecutionMoves(x)
  BY <1>3, <1>4, <1>5 DEF ExecutionMoves
<1>8. \A v \in Workers : WorkerMoves(v)
  BY <1>1 DEF WorkerMoves
<1> QED
  BY <1>1, <1>2, <1>6, <1>7, <1>8, KeptJobs, SameRuns, SameCalls DEF SimulationMoves

\* The handler is left, for good or by a crash.
LEMMA LeavesMoves ==
    ASSUME SimulationFits, RunsTyped, NEW w \in Workers, Leaves(w),
           \A k \in Jobs : RowKept(k),
           \A v \in Workers \ {w} : workers'[v] = workers[v],
           workers'[w].phase # "handling",
           workers'[w].phase \in {"handled", "completing"} =>
                workers'[w].job = workers[w].job
                /\ workers[w].phase = "handling" /\ executions[w].phase = "done",
           executions[w].phase \notin {"running", "failing"} \/ faults' # 0,
           faults' = 0 => faults = 0
    PROVE  SimulationMoves
<1>1. /\ executions' = [executions EXCEPT ![w] = NotExecuting]
      /\ UNCHANGED <<runs, calls>>
  BY DEF Leaves
<1>2. NotExecuting.phase = "none"
  BY DEF NotExecuting
<1>3. /\ executions' \in [Executors -> {NotExecuting} \cup Executing]
      /\ \A x \in Executors : executions'[x] = IF x = w THEN NotExecuting ELSE executions[x]
  BY <1>1 DEF SimulationFits, ExecutionsFit
<1>4. ExecutionsFit'
  <2>1. w \in Executors
    BY DEF Executors
  <2> QED
    BY <1>3, <2>1, WorkerExecutes
<1>5. \A x \in Executors : ExecutionMoves(x)
  BY <1>2, <1>3 DEF ExecutionMoves
<1>6. \A v \in Workers : WorkerMoves(v)
  BY DEF WorkerMoves
<1> QED
  BY <1>1, <1>4, <1>5, <1>6, KeptJobs, SameRuns, SameCalls DEF SimulationMoves

LEMMA HandlerMoves ==
    ASSUME SimulationFits, RunsTyped, NEW w \in Workers, ExecutionReturns(w) \/ ExecutionThrows(w)
    PROVE  SimulationMoves
<1>1. /\ Leaves(w) /\ executions[w].phase \in {"done", "threw"}
      /\ HandlerReturns(w) \/ HandlerThrows(w)
      /\ HandlerThrows(w) \/ executions[w].phase = "done"
  BY DEF ExecutionReturns, ExecutionThrows
<1>2. /\ \A k \in Jobs : RowKept(k)
      /\ workers[w].phase = "handling"
      /\ \A v \in Workers \ {w} : workers'[v] = workers[v]
      /\ workers'[w].phase \in {"failing", "boundary", "handled"}
      /\ workers'[w].job = workers[w].job
      /\ HandlerThrows(w) => workers'[w].phase = "failing"
  BY <1>1, HandlerKeeps DEF SimulationFits
<1>3. faults' = faults
  BY <1>1 DEF HandlerReturns, HandlerThrows, Turns, Goes
<1> QED
  BY <1>1, <1>2, <1>3, LeavesMoves

LEMMA WorkerCrashesMoves ==
    ASSUME SimulationFits, RunsTyped, NEW w \in Workers, WorkerCrashes(w) PROVE SimulationMoves
<1>1. Leaves(w) /\ UNCHANGED jobs /\ workers' = [workers EXCEPT ![w] = Idle] /\ faults' = faults + 1
  BY DEF WorkerCrashes, Crash
<1>2. /\ \A v \in Workers : workers'[v] = IF v = w THEN Idle ELSE workers[v]
      /\ faults \in Nat
  BY <1>1 DEF SimulationFits, QueueInvariant, WorkersFit
<1>3. Idle.phase = "idle"
  BY DEF Idle
<1>4. faults' # 0
  BY <1>1, <1>2
<1>5. \A k \in Jobs : RowKept(k)
  BY <1>1, RowsKept DEF SimulationFits
<1> QED
  BY <1>1, <1>2, <1>3, <1>4, <1>5, LeavesMoves

LEMMA WebCrashesMoves ==
    ASSUME SimulationFits, RunsTyped, WebCrashes PROVE SimulationMoves
<1>1. /\ executions' = [executions EXCEPT ![Web] = NotExecuting]
      /\ calls' = {} /\ faults' = faults + 1 /\ UNCHANGED <<jobs, workers, runs>>
  BY DEF WebCrashes
<1>2. faults' # 0
  <2>1. faults \in Nat
    BY DEF SimulationFits, QueueInvariant
  <2> QED
    BY <1>1, <2>1
<1>3. NotExecuting.phase = "none"
  BY DEF NotExecuting
<1>4. \A x \in Executors : executions'[x] = IF x = Web THEN NotExecuting ELSE executions[x]
  BY <1>1 DEF SimulationFits, ExecutionsFit
<1>5. executions' \in [Executors -> {NotExecuting} \cup Executing]
  BY <1>1 DEF SimulationFits, ExecutionsFit
<1>6. \A w \in Workers : w \in Executors /\ w # Web
  BY RunsTyped DEF Executors
<1>7. ExecutionsFit'
  BY <1>1, <1>4, <1>5, <1>6 DEF SimulationFits, ExecutionsFit
<1>8. \A x \in Executors : ExecutionMoves(x)
  BY <1>2, <1>3, <1>4 DEF ExecutionMoves
<1>9. CallsFit' /\ \A r \in Runs : CallMoves(r)
  BY <1>1, <1>2 DEF CallsFit, CallMoves, Pending
<1>10. \A w \in Workers : WorkerMoves(w)
  BY <1>1 DEF WorkerMoves
<1> QED
  BY <1>1, <1>2, <1>7, <1>8, <1>9, <1>10, SameJobs, SameRuns DEF SimulationMoves

-----------------------------------------------------------------------------
(* Every step.                                                              *)

LEMMA EveryStepMoves ==
    ASSUME SimulationFits, QueueTyped, RunsTyped, [SimulationNext]_allVars PROVE SimulationMoves
<1>1. CASE \E r \in Runs : CreateRequest(r) \/ StartsOnWeb(r) \/ CancelRequest(r)
  BY <1>1, CreateRequestMoves, StartsOnWebMoves, CancelRequestMoves
<1>2. CASE OtherRunEnds \/ ReconcileAbandoned
  BY <1>2, OtherRunEndsMoves, ReconcileMoves
<1>3. CASE \E x \in Executors :
            Find(x) \/ MarkRunning(x) \/ RunnerThrows(x) \/ MarkFailed(x) \/ CompleteRun(x)
  BY <1>3, FindMoves, MarkRunningMoves, RunnerThrowsMoves, MarkFailedMoves, CompleteRunMoves
<1>4. CASE \E j \in Jobs : EnqueueRun(j) \/ BeginCancelJob(j) \/ CancelJobAgain(j) \/ RerunJob(j)
  BY <1>4, EnqueueRunMoves, BeginCancelJobMoves, CancelJobAgainMoves, RerunJobMoves
<1>5. CASE CancelJob
  BY <1>5, CancelJobMoves
<1>6. CASE \E c \in calls : MarkCanceled(c) \/ ReadToReset(c) \/ ResetForRerun(c)
  BY <1>6, MarkCanceledMoves, ReadToResetMoves, ResetMoves
<1>7. CASE \E w \in Workers :
            ClaimRun(w) \/ ExecutionReturns(w) \/ ExecutionThrows(w) \/ WorkerCrashes(w)
  BY <1>7, ClaimRunMoves, HandlerMoves, WorkerCrashesMoves
<1>8. CASE \E w \in Workers : Elsewhere(w) /\ UNCHANGED simulationVars
  BY <1>8, ElsewhereMoves
<1>9. CASE \E j \in Jobs : (LeaseExpires(j) \/ Stall(j)) /\ UNCHANGED simulationVars
  BY <1>9, LeaseMoves
<1>10. CASE WebCrashes
  BY <1>10, WebCrashesMoves
<1>11. CASE UNCHANGED allVars
  BY <1>11, StutterMoves
<1> QED
  BY <1>1, <1>2, <1>3, <1>4, <1>5, <1>6, <1>7, <1>8, <1>9, <1>10, <1>11 DEF SimulationNext

\* A step of the composition is one of the queue or leaves the queue alone, but
\* for the count of faults.
LEMMA QueueSteps ==
    ASSUME [SimulationNext]_allVars PROVE [Next]_vars \/ WebCrashes
<1>1. CASE \/ \E r \in Runs : CreateRequest(r) \/ StartsOnWeb(r) \/ CancelRequest(r)
           \/ OtherRunEnds \/ ReconcileAbandoned
           \/ \E c \in calls : MarkCanceled(c) \/ ReadToReset(c) \/ ResetForRerun(c)
  BY <1>1 DEF CreateRequest, StartsOnWeb, CancelRequest, OtherRunEnds, ReconcileAbandoned,
              MarkCanceled, ReadToReset, ResetForRerun
<1>2. CASE \E x \in Executors :
            Find(x) \/ MarkRunning(x) \/ RunnerThrows(x) \/ MarkFailed(x) \/ CompleteRun(x)
  BY <1>2 DEF Find, MarkRunning, RunnerThrows, MarkFailed, CompleteRun
<1>3. CASE \/ \E j \in Jobs : EnqueueRun(j) \/ BeginCancelJob(j) \/ CancelJobAgain(j) \/ RerunJob(j)
           \/ CancelJob
  BY <1>3 DEF Next, EnqueueRun, BeginCancelJob, CancelJobAgain, RerunJob, CancelJob
<1>4. CASE \E w \in Workers :
            ClaimRun(w) \/ ExecutionReturns(w) \/ ExecutionThrows(w) \/ WorkerCrashes(w)
  BY <1>4 DEF Next, Work, ClaimRun, ExecutionReturns, ExecutionThrows, WorkerCrashes
<1>5. CASE \E w \in Workers : Elsewhere(w) /\ UNCHANGED simulationVars
  BY <1>5 DEF Next, Work, Elsewhere
<1>6. CASE \E j \in Jobs : (LeaseExpires(j) \/ Stall(j)) /\ UNCHANGED simulationVars
  BY <1>6 DEF Next
<1>7. CASE UNCHANGED allVars
  BY <1>7 DEF allVars
<1> QED
  BY <1>1, <1>2, <1>3, <1>4, <1>5, <1>6, <1>7 DEF SimulationNext

LEMMA QueueStaysGood ==
    ASSUME QueueInvariant, QueueTyped, [SimulationNext]_allVars PROVE Good
<1>1. CASE [Next]_vars
  BY <1>1, StepGood
<1>2. CASE WebCrashes
  <2>1. UNCHANGED <<jobs, older, workers, caller>> /\ faults' \in 0..MaxFaults
    BY <1>2, QueueTyped DEF WebCrashes, QueueInvariant
  <2>2. /\ JobsFit' /\ OrderFits' /\ WorkersFit' /\ CallerFits'
    BY <2>1 DEF QueueInvariant, JobsFit, OrderFits, WorkersFit, CallerFits
  <2>3. \A v \in Workers : RetryFits(v)'
    BY <2>1 DEF QueueInvariant, RetryFits, Holds
  <2>4. \A j \in Jobs : Sticks(j) /\ FromHolder(j)
    BY <2>1, SameRow DEF QueueInvariant
  <2> QED
    BY <2>1, <2>2, <2>3, <2>4 DEF Good, QueueInvariant
<1> QED
  BY <1>1, <1>2, QueueSteps

LEMMA RunsStay ==
    ASSUME SimulationFits, SimulationMoves, NEW r \in Runs, runs[r].status # "none"
    PROVE  runs'[r].status # "none"
<1>1. \A s \in {"deleted", "requested"} : Run(s).status = s
  BY DEF Run
<1> QED
  BY <1>1 DEF SimulationMoves, RunMoves

LEMMA SimulationStays ==
    ASSUME SimulationFits, QueueTyped, RunsTyped, [SimulationNext]_allVars
    PROVE  SimulationFits'
<1>1. SimulationMoves
  BY EveryStepMoves
<1>2. QueueInvariant'
  BY QueueStaysGood DEF SimulationFits, Good
<1>3. JobsHaveRuns'
  <2> SUFFICES ASSUME NEW j \in Jobs, jobs'[j].status # "none"
               PROVE  runs'[RunOf[j]].status # "none"
    BY DEF JobsHaveRuns
  <2>1. RunOf[j] \in Runs
    BY RunsTyped
  <2>2. runs[RunOf[j]].status # "none"
    BY <1>1 DEF SimulationMoves, JobMoves, SimulationFits, JobsHaveRuns
  <2> QED
    BY <1>1, <2>1, <2>2, RunsStay
<1>4. CancelsAreMarked'
  BY <1>1 DEF SimulationMoves, JobMoves, CancelsAreMarked
<1> QED
  BY <1>1, <1>2, <1>3, <1>4 DEF SimulationFits, SimulationMoves

LEMMA SimulationBegins ==
    ASSUME QueueTyped, RunsTyped, SimulationInit PROVE SimulationFits
<1>1. QueueInvariant
  BY InitFits DEF SimulationInit
<1>2. Run("none") \in RunRows /\ RunFits(Run("none"))
  BY RunOfStatus DEF Statuses
<1>3. RunsFit /\ CallsFit
  BY <1>2 DEF SimulationInit, RunsFit, CallsFit
<1>4. \A w \in Workers : workers[w].phase = "idle" /\ w \in Executors
  BY DEF SimulationInit, Init, Idle, Executors
<1>5. ExecutionsFit
  BY <1>4 DEF SimulationInit, ExecutionsFit
<1>6. \A j \in Jobs : jobs[j].status = "none"
  BY DEF SimulationInit, Init, Row
<1> QED
  BY <1>1, <1>3, <1>5, <1>6 DEF SimulationFits, JobsHaveRuns, CancelsAreMarked

-----------------------------------------------------------------------------
(* The theorems.                                                            *)

\* The inductive invariant: the queue's own; runs, executions and calls have
\* their types, a worker executes the run of its job while it handles it, jobs
\* are of runs that were created, and cancelled jobs carry the request.
THEOREM SimulationFitsAlways == SimulationSpec => []SimulationFits
<1>1. SimulationInit => SimulationFits
  BY QueueTyped, RunsTyped, SimulationBegins
<1>2. SimulationFits /\ [SimulationNext]_allVars => SimulationFits'
  BY QueueTyped, RunsTyped, SimulationStays
<1> QED
  BY <1>1, <1>2, PTL DEF SimulationSpec

\* The types of runs and executions: a run has a result exactly when it is
\* completed, and a worker executes a run exactly while it handles a job.
THEOREM SimulationIsTyped == SimulationSpec => []SimulationTypeOK
<1>1. SimulationFits => SimulationTypeOK
  <2> SUFFICES ASSUME SimulationFits PROVE SimulationTypeOK
    OBVIOUS
  <2>1. ASSUME NEW x \in Executors, executions[x] # NotExecuting PROVE executions[x].run \in Runs
    BY <2>1 DEF SimulationFits, ExecutionsFit, Executing
  <2>2. ASSUME NEW r \in Runs
        PROVE  /\ runs[r].status \in Statuses
               /\ runs[r].result # NoResult <=> runs[r].status = "completed"
               /\ runs[r].result \in Executors \cup {NoResult}
    BY DEF SimulationFits, RunsFit, RunRows, RunFits
  <2>3. \A w \in Workers : executions[w] # NotExecuting <=> workers[w].phase = "handling"
    BY DEF SimulationFits, ExecutionsFit
  <2> QED
    BY <2>1, <2>2, <2>3 DEF SimulationTypeOK, Statuses
<1> QED
  BY <1>1, SimulationFitsAlways, PTL

\* Composed with what its jobs do to the runs, the queue keeps what it promises.
THEOREM QueueKeepsItsPromises ==
    SimulationSpec => /\ []TypeOK /\ []AttemptsAreCounted
                      /\ CancellationSticks /\ OutcomesComeFromTheHolder
<1>1. SimulationFits => TypeOK /\ AttemptsAreCounted
  <2> SUFFICES ASSUME QueueInvariant PROVE TypeOK /\ AttemptsAreCounted
    BY DEF SimulationFits
  <2>1. \A w \in Workers : workers[w].phase # "idle" => workers[w].job \in Jobs
    BY BusyWorker DEF QueueInvariant, WorkersFit
  <2>2. caller # Idle => caller.job \in Jobs
    BY DEF QueueInvariant, CallerFits
  <2>3. TypeOK
    BY <2>1, <2>2 DEF QueueInvariant, JobsFit, JobRows, RowFits, OrderFits, TypeOK
  <2>4. AttemptsAreCounted
    BY DEF QueueInvariant, JobsFit, RowFits, AttemptsAreCounted
  <2> QED
    BY <2>3, <2>4
<1>2. SimulationFits /\ [SimulationNext]_allVars =>
        [\A j \in Jobs : jobs[j].cancel =>
            \/ Replaced(j)
            \/ /\ jobs'[j].cancel
               /\ jobs'[j].status \in {jobs[j].status, "canceled"}
               /\ jobs'[j].worker \in {jobs[j].worker, NoWorker}]_vars
  BY QueueTyped, QueueStaysGood DEF SimulationFits, Good, Sticks
<1>3. SimulationFits /\ [SimulationNext]_allVars =>
        [\A j \in Jobs :
            /\ jobs[j].status \in Terminal => jobs'[j] = jobs[j] \/ Replaced(j)
            /\ jobs[j].status = "running" /\ jobs'[j].status # "running" =>
                LET w == jobs[j].worker
                IN  workers[w] # Idle /\ workers[w].job = j /\ workers'[w] = Idle]_vars
  BY QueueTyped, QueueStaysGood DEF SimulationFits, Good, FromHolder
<1> QED
  BY <1>1, <1>2, <1>3, SimulationFitsAlways, PTL
     DEF SimulationSpec, CancellationSticks, OutcomesComeFromTheHolder

\* Whoever else completes, fails or cancels it, a completed or cancelled run
\* keeps its status and its result until it is deleted or a rerun resets it.
THEOREM TerminalResultsWin == SimulationSpec => FirstTerminalResultWins
<1>1. SimulationFits /\ [SimulationNext]_allVars =>
        [\A r \in Runs : runs[r].status \in {"completed", "canceled"} =>
            \/ runs'[r] \in {runs[r], Run("deleted")}
            \/ Pending("reset", r)]_allVars
  BY QueueTyped, RunsTyped, EveryStepMoves DEF SimulationMoves, RunMoves
<1> QED
  BY <1>1, SimulationFitsAlways, PTL DEF SimulationSpec, FirstTerminalResultWins

-----------------------------------------------------------------------------
(* Jobs that ended, as long as the history keeps them.  A rerun whose row    *)
(* is pruned before its second call would reset a run nobody sees was rerun. *)

NotRerun(r) == \A j \in Jobs : RunOf[j] = r => jobs[RerunRow[j]].status = "none"
Done(r) == runs[r].status \in {"completed", "deleted"}

\* A run that was not rerun is done when an execution or a job of it is.
ResultsFit ==
    \A r \in Runs : NotRerun(r) =>
        /\ ~Pending("rerun", r) /\ ~Pending("reset", r)
        /\ \A x \in Executors :
            executions[x].phase = "done" /\ executions[x].run = r => Done(r)
        /\ \A w \in Workers :
            workers[w].phase \in {"handled", "completing"} /\ RunOf[workers[w].job] = r => Done(r)
        /\ \A j \in Jobs : RunOf[j] = r /\ jobs[j].status = "completed" => Done(r)

\* Without faults a running run is executed, and a run of a job whose cancellation
\* was requested is not requested any more but for the user's second call.
CancelsFit ==
    faults = 0 => \A r \in Runs :
        /\ runs[r].status = "running" => \E x \in Executors :
            executions[x].phase \in {"running", "failing"} /\ executions[x].run = r
        /\ NotRerun(r) /\ (\E j \in Jobs : RunOf[j] = r /\ jobs[j].cancel) =>
            Pending("cancel", r) \/ runs[r].status # "requested"

LEMMA ResultsStay ==
    ASSUME SimulationFits, SimulationMoves, ResultsFit, RunsTyped, QueueTyped, Outdated = {}
    PROVE  ResultsFit'
<1> SUFFICES ASSUME NEW r \in Runs, NotRerun(r)'
             PROVE  /\ ~Pending("rerun", r)' /\ ~Pending("reset", r)'
                    /\ \A x \in Executors :
                        executions'[x].phase = "done" /\ executions'[x].run = r => Done(r)'
                    /\ \A w \in Workers :
                        workers'[w].phase \in {"handled", "completing"} /\ RunOf[workers'[w].job] = r
                            => Done(r)'
                    /\ \A j \in Jobs : RunOf[j] = r /\ jobs'[j].status = "completed" => Done(r)'
  BY DEF ResultsFit
<1>1. NotRerun(r)
  <2>1. \A j \in Jobs : RerunRow[j] \in Jobs
    BY RunsTyped, QueueTyped DEF Reruns
  <2> QED
    BY <2>1 DEF NotRerun, SimulationMoves, JobMoves
<1>2. /\ ~Pending("rerun", r) /\ ~Pending("reset", r)
      /\ \A x \in Executors :
            executions[x].phase = "done" /\ executions[x].run = r => Done(r)
      /\ \A w \in Workers :
            workers[w].phase \in {"handled", "completing"} /\ RunOf[workers[w].job] = r => Done(r)
      /\ \A j \in Jobs : RunOf[j] = r /\ jobs[j].status = "completed" => Done(r)
  BY <1>1 DEF ResultsFit
<1>3. ~Pending("rerun", r)' /\ ~Pending("reset", r)'
  BY <1>2 DEF SimulationMoves, CallMoves, NotRerun
<1>4. ASSUME Done(r) PROVE Done(r)'
  <2>1. Run("deleted").status = "deleted"
    BY DEF Run
  <2>2. RunMoves(r) /\ ~Pending("reset", r)
    BY <1>2 DEF SimulationMoves
  <2> QED
    BY <1>4, <2>1, <2>2 DEF RunMoves, Done
<1>5. ASSUME NEW x \in Executors, executions'[x].phase = "done", executions'[x].run = r
      PROVE  Done(r)'
  <2>1. \/ executions'[x] = executions[x]
        \/ runs'[executions'[x].run].status = "completed"
    BY <1>5 DEF SimulationMoves, ExecutionMoves
  <2> QED
    BY <1>2, <1>4, <1>5, <2>1 DEF Done
<1>6. ASSUME NEW w \in Workers, RunOf[workers[w].job] = r,
             \/ workers[w].phase \in {"handled", "completing"}
             \/ workers[w].phase = "handling" /\ executions[w].phase = "done"
      PROVE  Done(r)'
  <2>1. w \in Executors /\ (workers[w].phase = "handling" => executions[w].run = r)
    BY <1>6 DEF SimulationFits, ExecutionsFit, Executors
  <2> QED
    BY <1>2, <1>4, <1>6, <2>1
<1>7. ASSUME NEW w \in Workers, workers'[w].phase \in {"handled", "completing"},
             RunOf[workers'[w].job] = r
      PROVE  Done(r)'
  <2>1. /\ workers'[w].job = workers[w].job
        /\ \/ workers[w].phase \in {"handled", "completing"}
           \/ workers[w].phase = "handling" /\ executions[w].phase = "done"
    BY <1>7 DEF SimulationMoves, WorkerMoves
  <2> QED
    BY <1>6, <1>7, <2>1
<1>8. ASSUME NEW j \in Jobs, RunOf[j] = r, jobs'[j].status = "completed"
      PROVE  Done(r)'
  <2>1. \/ jobs[j].status = "completed"
        \/ \E w \in Workers : workers[w].phase = "completing" /\ workers[w].job = j
    BY <1>8 DEF SimulationMoves, JobMoves
  <2> QED
    BY <1>2, <1>4, <1>6, <1>8, <2>1
<1> QED
  BY <1>3, <1>5, <1>7, <1>8

LEMMA CancelsStay ==
    ASSUME SimulationFits, SimulationMoves, ResultsFit, CancelsFit, RunsTyped, QueueTyped,
           Outdated = {}
    PROVE  CancelsFit'
<1>1. \A s \in {"deleted", "requested"} : Run(s).status = s
  BY DEF Run
<1> SUFFICES ASSUME faults' = 0, NEW r \in Runs
             PROVE  /\ runs'[r].status = "running" => \E x \in Executors :
                        executions'[x].phase \in {"running", "failing"} /\ executions'[x].run = r
                    /\ NotRerun(r)' /\ (\E j \in Jobs : RunOf[j] = r /\ jobs'[j].cancel) =>
                        Pending("cancel", r)' \/ runs'[r].status # "requested"
  BY DEF CancelsFit
<1>2. faults = 0 /\ RunMoves(r)
  BY DEF SimulationMoves
<1>3. ASSUME runs'[r].status = "running"
      PROVE  \E x \in Executors :
                executions'[x].phase \in {"running", "failing"} /\ executions'[x].run = r
  <2>1. CASE runs'[r] = runs[r]
    <3>1. PICK x \in Executors :
            executions[x].phase \in {"running", "failing"} /\ executions[x].run = r
      BY <1>2, <1>3, <2>1 DEF CancelsFit
    <3>2. ExecutionMoves(x)
      BY DEF SimulationMoves
    <3> QED
      BY <1>3, <3>1, <3>2 DEF ExecutionMoves
  <2>2. CASE runs'[r] # runs[r]
    BY <1>1, <1>2, <1>3, <2>2 DEF RunMoves
  <2> QED
    BY <2>1, <2>2
<1>4. ASSUME NotRerun(r)', NEW j \in Jobs, RunOf[j] = r, jobs'[j].cancel,
             ~Pending("cancel", r)'
      PROVE  runs'[r].status # "requested"
  <2>1. \A k \in Jobs : RerunRow[k] \in Jobs
    BY RunsTyped, QueueTyped DEF Reruns
  <2>2. NotRerun(r)
    BY <1>4, <2>1 DEF NotRerun, SimulationMoves, JobMoves
  <2>3. jobs[j].cancel
    BY <1>4 DEF SimulationMoves, JobMoves
  <2>4. runs[r].status # "none"
    BY <1>4, <2>3 DEF SimulationFits, QueueInvariant, JobsFit, RowFits, JobsHaveRuns
  <2>5. ~Pending("reset", r)
    BY <2>2 DEF ResultsFit
  <2>6. CASE Pending("cancel", r)
    <3>1. CallMoves(r)
      BY DEF SimulationMoves
    <3> QED
      BY <1>4, <2>6, <3>1 DEF CallMoves
  <2>7. CASE ~Pending("cancel", r)
    <3>1. runs[r].status # "requested"
      BY <1>2, <1>4, <2>2, <2>3, <2>7 DEF CancelsFit
    <3> QED
      BY <1>1, <1>2, <2>4, <2>5, <3>1 DEF RunMoves
  <2> QED
    BY <2>6, <2>7
<1> QED
  BY <1>3, <1>4

LEMMA EndsBegin == ASSUME SimulationInit, QueueTyped, RunsTyped PROVE ResultsFit /\ CancelsFit
<1>1. /\ NotExecuting.phase = "none" /\ Idle.phase = "idle"
      /\ Row("none").status = "none" /\ Run("none").status = "none"
      /\ Row("none").cancel = FALSE
  BY DEF NotExecuting, Idle, Row, Run
<1>2. /\ calls = {} /\ \A x \in Executors : executions[x].phase = "none"
      /\ \A w \in Workers : workers[w].phase = "idle"
      /\ \A j \in Jobs : jobs[j].status = "none"
      /\ \A r \in Runs : runs[r].status = "none"
  BY <1>1 DEF SimulationInit, Init
<1> QED
  BY <1>2 DEF ResultsFit, CancelsFit, Pending

\* As long as no terminal job is pruned: a run that was not rerun is done when a
\* worker returned from executing it, and a cancelled one is on its way out.
THEOREM EndsFitAlways ==
    SimulationSpec /\ [](Outdated = {}) => [](SimulationFits /\ ResultsFit /\ CancelsFit)
<1>1. SimulationInit => ResultsFit /\ CancelsFit
  BY QueueTyped, RunsTyped, EndsBegin
<1>2. /\ SimulationFits /\ ResultsFit /\ CancelsFit
      /\ Outdated = {} /\ [SimulationNext]_allVars
      => ResultsFit' /\ CancelsFit'
  BY QueueTyped, RunsTyped, EveryStepMoves, ResultsStay, CancelsStay
<1> QED
  BY <1>1, <1>2, SimulationFitsAlways, PTL DEF SimulationSpec

\* A completed job has left the result of its run, unless a rerun took it or the
\* history dropped it, whoever else executed or cancelled the run meanwhile.
THEOREM CompletedJobsLeaveResults ==
    SimulationSpec /\ [](Outdated = {}) => []CompletedJobsHaveResults
<1>1. SimulationFits /\ ResultsFit => CompletedJobsHaveResults
  <2> SUFFICES ASSUME ResultsFit, NEW j \in Jobs, jobs[j].status = "completed",
                      jobs[RerunRow[j]].status = "none"
               PROVE  runs[RunOf[j]].status \in {"completed", "deleted"}
    BY DEF CompletedJobsHaveResults, FirstJobs
  <2>1. RunOf[j] \in Runs /\ NotRerun(RunOf[j])
    BY RunsTyped DEF NotRerun
  <2> QED
    BY <2>1 DEF ResultsFit, Done
<1> QED
  BY <1>1, EndsFitAlways, PTL

\* When the user's request is over and nobody executes the run, a cancelled job
\* has stopped its run, if nothing failed: no order of the worker's statements
\* and the user's two calls leaves it requested or running.
THEOREM CancelledJobsLeaveNothing ==
    SimulationSpec /\ [](Outdated = {}) => []CancelledJobsStopTheirRuns
<1>1. SimulationFits /\ CancelsFit => CancelledJobsStopTheirRuns
  <2> SUFFICES ASSUME SimulationFits, CancelsFit, NEW j \in Jobs, jobs[j].status = "canceled",
                      jobs[RerunRow[j]].status = "none", calls = {}, faults = 0,
                      \A x \in Executors :
                        executions[x] # NotExecuting => executions[x].run # RunOf[j]
               PROVE  runs[RunOf[j]].status \notin {"requested", "running"}
    BY DEF CancelledJobsStopTheirRuns, FirstJobs
  <2>1. RunOf[j] \in Runs /\ NotRerun(RunOf[j]) /\ jobs[j].cancel
    BY RunsTyped DEF NotRerun, SimulationFits, CancelsAreMarked
  <2>2. NotExecuting.phase = "none"
    BY DEF NotExecuting
  <2>3. runs[RunOf[j]].status # "running"
    BY <2>1, <2>2 DEF CancelsFit
  <2>4. runs[RunOf[j]].status # "requested"
    BY <2>1 DEF CancelsFit, Pending
  <2> QED
    BY <2>3, <2>4
<1> QED
  BY <1>1, EndsFitAlways, PTL

\* As many jobs as are kept never push one another out.
LEMMA HistoryKeepsAll ==
    ASSUME SimulationFits, QueueTyped, IsFiniteSet(Jobs), Cardinality(Jobs) <= Retained
    PROVE  Outdated = {}
<1> SUFFICES ASSUME NEW j \in Outdated PROVE FALSE
  OBVIOUS
<1> DEFINE newer == {k \in {i \in Jobs : jobs[i].status \in Terminal} : <<j, k>> \in older}
<1>1. j \in Jobs /\ Cardinality(newer) >= Retained
  BY DEF Outdated
<1>2. newer \subseteq Jobs \ {j}
  BY <1>1 DEF SimulationFits, QueueInvariant, OrderFits
<1> HIDE DEF newer
<1>3. IsFiniteSet(Jobs \ {j}) /\ Cardinality(Jobs \ {j}) = Cardinality(Jobs) - 1
  BY <1>1, FS_RemoveElement
<1>4. Cardinality(newer) <= Cardinality(Jobs \ {j}) /\ Cardinality(newer) \in Nat
  BY <1>2, <1>3, FS_Subset, FS_CardinalityType
<1>5. Cardinality(Jobs) \in Nat
  BY FS_CardinalityType
<1> QED
  BY <1>1, <1>3, <1>4, <1>5, QueueTyped

\* Both hold of any number of jobs that is no larger than what is kept.
THEOREM KeptJobsMeanWhatTheySay ==
    ASSUME IsFiniteSet(Jobs), Cardinality(Jobs) <= Retained
    PROVE  SimulationSpec => [](CompletedJobsHaveResults /\ CancelledJobsStopTheirRuns)
<1>1. SimulationFits => Outdated = {}
  BY QueueTyped, HistoryKeepsAll
<1> QED
  BY <1>1, SimulationFitsAlways, CompletedJobsLeaveResults, CancelledJobsLeaveNothing, PTL
=============================================================================
