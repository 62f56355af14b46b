------------------------------ MODULE JobQueue ------------------------------
(***************************************************************************)
(* The Postgres job queue and its workers.  A worker claims the oldest     *)
(* claimable job and holds it by a lease that heartbeats renew; a job      *)
(* whose lease ran out is taken over.  Every statement of a worker tests   *)
(* that it still holds the job; users cancel and rerun jobs between any    *)
(* two statements.                                                         *)
(*                                                                         *)
(* A job is named by its idempotency key.  The reruns of a simulation      *)
(* share one key, whose row each rerun resets.  Faults: a crash of the     *)
(* worker's process, or of its connection, after which the worker polls    *)
(* again; and a stall, a live worker so late with the heartbeats it sends  *)
(* twice per lease that the lease runs out.                                *)
(***************************************************************************)
EXTENDS Integers, FiniteSets

CONSTANTS
    Jobs,
    RerunRow,      \* from the jobs that are simulations to the job of their reruns
    Workers,
    NoWorker,
    MaxAttempts,
    Retained,      \* how many terminal jobs are kept
    MaxFaults      \* bound on the faults

Reruns == {RerunRow[j] : j \in DOMAIN RerunRow}

ASSUME QueueTyped ==
    /\ NoWorker \notin Workers
    /\ MaxAttempts \in Nat \ {0} /\ Retained \in Nat /\ MaxFaults \in Nat
    /\ DOMAIN RerunRow \subseteq Jobs /\ Reruns \subseteq DOMAIN RerunRow
    /\ \A r \in Reruns : RerunRow[r] = r

VARIABLES
    jobs,      \* the row of each job
    older,     \* the order of creation: older than, between jobs that have a row
    workers,   \* what each worker is doing
    caller,    \* a user cancelling: the job and its status as read, or nothing
    faults

vars == <<jobs, older, workers, caller, faults>>

Terminal == {"completed", "failed", "canceled"}

Row(status) ==
    [status |-> status, worker |-> NoWorker, lease |-> "none", cancel |-> FALSE, attempts |-> 0]

Idle == [phase |-> "idle"]

Init ==
    /\ jobs = [j \in Jobs |-> Row("none")]
    /\ older = {}
    /\ workers = [w \in Workers |-> Idle]
    /\ caller = Idle
    /\ faults = 0

-----------------------------------------------------------------------------
(* Users.                                                                  *)

\* The terminal jobs that fall out of the history: as many as are kept are newer.
Outdated ==
    LET ended == {j \in Jobs : jobs[j].status \in Terminal}
    IN  {j \in ended : Cardinality({k \in ended : <<j, k>> \in older}) >= Retained}

\* One transaction prunes the history and queues at most one job, as the newest.
PruneAndQueue(new) ==
    /\ jobs' = [j \in Jobs |-> CASE j \in new -> Row("queued")
                                 [] j \in Outdated \ new -> Row("none")
                                 [] OTHER -> jobs[j]]
    /\ LET kept == {j \in Jobs : jobs[j].status # "none"} \ (Outdated \cup new)
       IN  older' = (older \cap (kept \X kept)) \cup (kept \X new)
    /\ caller' = IF caller # Idle /\ caller.job \in Outdated THEN Idle ELSE caller
    /\ UNCHANGED <<workers, faults>>

Submit(j) ==
    /\ j \notin Reruns
    /\ PruneAndQueue(IF jobs[j].status = "none" \/ j \in Outdated THEN {j} ELSE {})

\* A terminal simulation is run again unless a rerun of it is active.
Rerun(j) ==
    /\ j \in DOMAIN RerunRow
    /\ jobs[j].status \in Terminal
    /\ jobs[RerunRow[j]].status \in Terminal \cup {"none"}
    /\ PruneAndQueue({RerunRow[j]})

\* cancelJob reads the status first.
ReadToCancel(j) ==
    /\ caller = Idle
    /\ jobs[j].status \in {"queued", "running"}
    /\ caller' = [phase |-> "cancelling", job |-> j, status |-> jobs[j].status]
    /\ UNCHANGED <<jobs, older, workers, faults>>

\* Then it updates the job if it still has that status; else it reads again
\* or gives up.
Cancel ==
    /\ caller # Idle
    /\ caller' = Idle
    /\ jobs' = IF jobs[caller.job].status # caller.status THEN jobs
               ELSE [jobs EXCEPT ![caller.job].cancel = TRUE,
                                 ![caller.job].status = IF @ = "queued" THEN "canceled" ELSE @]
    /\ UNCHANGED <<older, workers, faults>>

-----------------------------------------------------------------------------
(* Workers.                                                                *)

Holds(w) ==
    /\ jobs[workers[w].job].status = "running"
    /\ jobs[workers[w].job].worker = w

Goes(w, state) ==
    /\ workers' = [workers EXCEPT ![w] = state]
    /\ UNCHANGED <<older, caller, faults>>

Turns(w, phase) == Goes(w, [workers[w] EXCEPT !.phase = phase]) /\ UNCHANGED jobs

\* Mutant of Ends: the lock is not cleared.
EndsLocked(w, status, attempts) ==
    /\ jobs' = [jobs EXCEPT ![workers[w].job].status = status,
                            ![workers[w].job].attempts = attempts]
    /\ Goes(w, Idle)

Ends(w, status, attempts) ==
    /\ jobs' = [jobs EXCEPT ![workers[w].job] =
                    [Row(status) EXCEPT !.cancel = jobs[workers[w].job].cancel,
                                        !.attempts = attempts]]
    /\ Goes(w, Idle)

\* Mutant of Claimable: no job is taken over.
ClaimableQueued(j) == jobs[j].status = "queued"

Claimable(j) ==
    \/ jobs[j].status = "queued"
    \/ jobs[j].status = "running" /\ ~jobs[j].cancel /\ jobs[j].lease = "expired"

Claim(w) ==
    /\ workers[w].phase = "idle"
    /\ \E j \in Jobs :
        /\ Claimable(j)
        /\ \A k \in Jobs : <<k, j>> \in older => ~Claimable(k)
        /\ jobs' = [jobs EXCEPT ![j].status = "running", ![j].worker = w, ![j].lease = "held"]
        /\ Goes(w, [phase |-> "handling", job |-> j, cancel |-> FALSE, late |-> FALSE])

\* A heartbeat renews the lease and shows a requested cancellation.  Its
\* failure is remembered until the handler returns.
Heartbeat(w) ==
    /\ workers[w].phase = "handling"
    /\ IF Holds(w)
       THEN /\ jobs' = [jobs EXCEPT ![workers[w].job].lease = "held"]
            /\ Goes(w, [workers[w] EXCEPT !.cancel = jobs[workers[w].job].cancel])
       ELSE Goes(w, [workers[w] EXCEPT !.late = TRUE]) /\ UNCHANGED jobs

\* The handler returns or throws.
HandlerReturns(w) ==
    /\ workers[w].phase = "handling"
    /\ Turns(w, IF workers[w].late THEN "failing"
                ELSE IF workers[w].cancel THEN "boundary" ELSE "handled")

HandlerThrows(w) == workers[w].phase = "handling" /\ Turns(w, "failing")

\* The heartbeat after the handler.
LastHeartbeat(w) ==
    /\ workers[w].phase = "handled"
    /\ IF ~Holds(w) THEN Turns(w, "failing")
       ELSE /\ jobs' = [jobs EXCEPT ![workers[w].job].lease = "held"]
            /\ Goes(w, [workers[w] EXCEPT
                    !.phase = IF jobs[workers[w].job].cancel THEN "boundary" ELSE "completing"])

\* Mutant of Complete: locked_by is not tested.
CompleteAnyones(w) ==
    /\ workers[w].phase = "completing"
    /\ IF jobs[workers[w].job].status # "running" THEN Turns(w, "failing")
       ELSE IF jobs[workers[w].job].cancel THEN Turns(w, "boundary")
       ELSE Ends(w, "completed", jobs[workers[w].job].attempts)

Complete(w) ==
    /\ workers[w].phase = "completing"
    /\ IF ~Holds(w) THEN Turns(w, "failing")
       ELSE IF jobs[workers[w].job].cancel THEN Turns(w, "boundary")
       ELSE Ends(w, "completed", jobs[workers[w].job].attempts)

\* The job stops here, if the worker holds it and its cancellation was
\* requested; every other outcome is an error the worker's loop reports.
CancelAtRunBoundary(w) ==
    /\ workers[w].phase = "boundary"
    /\ IF Holds(w) /\ jobs[workers[w].job].cancel
       THEN Ends(w, "canceled", jobs[workers[w].job].attempts)
       ELSE Goes(w, Idle) /\ UNCHANGED jobs

\* failJob reads the job and counts this attempt.
ReadToFail(w) ==
    /\ workers[w].phase = "failing"
    /\ IF ~Holds(w) THEN Goes(w, Idle) /\ UNCHANGED jobs
       ELSE IF jobs[workers[w].job].cancel THEN Turns(w, "boundary")
       ELSE Goes(w, [phase |-> "retrying", job |-> workers[w].job,
                     attempts |-> jobs[workers[w].job].attempts + 1])
            /\ UNCHANGED jobs

\* Mutants of Fail: one attempt too many, and a cancellation requested since
\* the read is overwritten.
FailOnceMore(w) ==
    /\ workers[w].phase = "retrying"
    /\ IF ~Holds(w) THEN Goes(w, Idle) /\ UNCHANGED jobs
       ELSE IF jobs[workers[w].job].cancel THEN Turns(w, "boundary")
       ELSE Ends(w, IF workers[w].attempts <= MaxAttempts THEN "queued" ELSE "failed",
                 workers[w].attempts)

FailCancelled(w) ==
    /\ workers[w].phase = "retrying"
    /\ IF ~Holds(w) THEN Goes(w, Idle) /\ UNCHANGED jobs
       ELSE Ends(w, IF workers[w].attempts < MaxAttempts THEN "queued" ELSE "failed",
                 workers[w].attempts)

Fail(w) ==
    /\ workers[w].phase = "retrying"
    /\ IF ~Holds(w) THEN Goes(w, Idle) /\ UNCHANGED jobs
       ELSE IF jobs[workers[w].job].cancel THEN Turns(w, "boundary")
       ELSE Ends(w, IF workers[w].attempts < MaxAttempts THEN "queued" ELSE "failed",
                 workers[w].attempts)

-----------------------------------------------------------------------------
(* Time and faults.                                                        *)

Expires(j) ==
    /\ jobs[j].lease = "held"
    /\ jobs' = [jobs EXCEPT ![j].lease = "expired"]
    /\ UNCHANGED <<older, workers, caller>>

WorkedOn(j) ==
    LET w == jobs[j].worker
    IN  jobs[j].status = "running" /\ workers[w].phase # "idle" /\ workers[w].job = j

\* No heartbeat comes from a worker that left the job.
LeaseExpires(j) == ~WorkedOn(j) /\ Expires(j) /\ UNCHANGED faults

Stall(j) == WorkedOn(j) /\ Expires(j) /\ faults < MaxFaults /\ faults' = faults + 1

Crash(w) ==
    /\ workers[w].phase # "idle"
    /\ faults < MaxFaults /\ faults' = faults + 1
    /\ workers' = [workers EXCEPT ![w] = Idle]
    /\ UNCHANGED <<jobs, older, caller>>

Work(w) ==
    \/ Claim(w)
    \/ HandlerReturns(w)
    \/ HandlerThrows(w)
    \/ LastHeartbeat(w)
    \/ Complete(w)
    \/ CancelAtRunBoundary(w)
    \/ ReadToFail(w)
    \/ Fail(w)

Next ==
    \/ \E j \in Jobs : Submit(j) \/ Rerun(j) \/ ReadToCancel(j) \/ LeaseExpires(j) \/ Stall(j)
    \/ Cancel
    \/ \E w \in Workers : Work(w) \/ Heartbeat(w) \/ Crash(w)

Spec == Init /\ [][Next]_vars

\* The worker's loop polls and handlers end; a lease runs out when nobody
\* renews it.  Nothing is assumed of users, heartbeats and faults.
FairSpec ==
    /\ Spec
    /\ \A w \in Workers : WF_vars(Work(w))
    /\ \A j \in Jobs : WF_vars(LeaseExpires(j))
-----------------------------------------------------------------------------
(* Properties.                                                             *)

TypeOK ==
    /\ jobs \in [Jobs -> [status : Terminal \cup {"none", "queued", "running"},
                          worker : Workers \cup {NoWorker},
                          lease : {"none", "held", "expired"},
                          cancel : BOOLEAN, attempts : 0..MaxAttempts]]
    /\ older \subseteq Jobs \X Jobs
    /\ \A j, k \in Jobs : <<j, k>> \in older \/ <<k, j>> \in older <=>
        j # k /\ jobs[j].status # "none" /\ jobs[k].status # "none"
    /\ \A j \in Jobs :
        /\ jobs[j].status = "running" <=> jobs[j].worker # NoWorker
        /\ jobs[j].status = "running" <=> jobs[j].lease # "none"
    /\ \A w \in Workers : workers[w].phase # "idle" => workers[w].job \in Jobs
    /\ caller # Idle => caller.job \in Jobs
    /\ faults \in 0..MaxFaults

\* The row of a job that ended is deleted, or a new one begins.
Replaced(j) ==
    /\ jobs[j].status \in Terminal
    /\ \/ j \in Outdated /\ jobs'[j] = Row("none")
       \/ j \in Reruns \cup Outdated /\ jobs'[j] = Row("queued")

\* A job whose cancellation was requested is never completed, failed or given
\* to a worker again, whichever statement of its worker the request overtook.
CancellationSticks ==
    [][\A j \in Jobs : jobs[j].cancel =>
        \/ Replaced(j)
        \/ /\ jobs'[j].cancel
           /\ jobs'[j].status \in {jobs[j].status, "canceled"}
           /\ jobs'[j].worker \in {jobs[j].worker, NoWorker}]_vars

\* What a job ended with stays until it is rerun or pruned, and the result of a
\* completed job is that of the worker that held it to the end: a worker whose
\* job was taken over leaves no trace.
OutcomesComeFromTheHolder ==
    [][\A j \in Jobs :
        /\ jobs[j].status \in Terminal => jobs'[j] = jobs[j] \/ Replaced(j)
        /\ jobs[j].status = "running" /\ jobs'[j].status # "running" =>
            LET w == jobs[j].worker
            IN  workers[w] # Idle /\ workers[w].job = j /\ workers'[w] = Idle]_vars

\* A job is tried until it succeeds or has failed as often as it may, however
\* often it is taken over.
AttemptsAreCounted ==
    \A j \in Jobs :
        /\ jobs[j].status \in {"queued", "running", "completed"} => jobs[j].attempts < MaxAttempts
        /\ jobs[j].status = "failed" => jobs[j].attempts = MaxAttempts

\* Every queued job ends, unless it is cancelled.
JobsEnd ==
    \A j \in Jobs : jobs[j].status = "queued" ~>
        jobs[j].status \in Terminal \cup {"none"} \/ jobs[j].cancel

\* A lock that ran out is reclaimed.
ExpiredLocksAreReclaimed ==
    \A j \in Jobs : jobs[j].lease = "expired" ~> jobs[j].lease # "expired"
=============================================================================
