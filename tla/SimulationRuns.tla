--------------------------- MODULE SimulationRuns ---------------------------
(***************************************************************************)
(* Simulation runs and the jobs that execute them.  A run is a row with a  *)
(* status and, once completed, a result.  The worker of its job executes   *)
(* it in several statements (find, mark running, run, complete), and so    *)
(* does a request of the browser; users cancel and rerun its jobs in two   *)
(* calls, first on the job and then on the run; and old runs are deleted   *)
(* under all of them.                                                      *)
(*                                                                         *)
(* JobQueue is the queue, whose actions are composed here with what they   *)
(* do to the runs.  A transaction that no other statement can see half of  *)
(* is one step.  A run requested more than an hour ago may be deleted;     *)
(* time is not modelled, so any requested run may be that old.             *)
(***************************************************************************)
EXTENDS JobQueue

CONSTANTS
    Runs,
    RunOf,       \* the run of each job; a simulation and its reruns have the same
    Web,         \* what executes runs in the web process
    MaxCalls     \* bound on the users' requests under way

\* All jobs here are simulations, and the reruns of a run share a key.
ASSUME RunsTyped ==
    /\ RunOf \in [Jobs -> Runs] /\ DOMAIN RerunRow = Jobs
    /\ \A j, k \in Jobs : RunOf[RerunRow[j]] = RunOf[j]
                          /\ (RunOf[j] = RunOf[k] => RerunRow[j] = RerunRow[k])
    /\ Web \notin Workers \cup {NoWorker}
    /\ MaxCalls \in Nat \ {0}

VARIABLES
    runs,        \* the status of each run, and whose result it has
    executions,  \* how far each executor is with which run
    calls        \* users' second calls, on the run, after those on the job

simulationVars == <<runs, executions, calls>>
allVars == <<vars, simulationVars>>

Executors == Workers \cup {Web}
NoResult == NoWorker
NotExecuting == [phase |-> "none"]
Call(kind, r, n) == [kind |-> kind, run |-> r, request |-> n]
Pending(kind, r) == \E c \in calls : c.kind = kind /\ c.run = r

Run(status) == [status |-> status, result |-> NoResult]
Exists(r) == runs[r].status \notin {"none", "deleted"}

SimulationInit ==
    /\ Init
    /\ runs = [r \in Runs |-> Run("none")]
    /\ executions = [x \in Executors |-> NotExecuting]
    /\ calls = {}

-----------------------------------------------------------------------------
(* The rows.                                                               *)

\* What is deleted: the runs that failed or were cancelled, and some requests.
Abandoned == {r \in Runs : runs[r].status \in {"failed", "canceled"}}
Requested == {r \in Runs : runs[r].status = "requested"}
Completed == {r \in Runs : runs[r].status = "completed"}

Without(rows, gone) == [r \in Runs |-> IF r \in gone THEN Run("deleted") ELSE rows[r]]

\* What is left when a run of the user is created or completed: besides the
\* abandoned runs, completed ones go that newer runs push out of the history.
\* The user's other runs are not modelled, so any completed run but those in
\* newest may be pushed out.
Pruned(newest) ==
    {Without(runs, Abandoned \cup gone) : gone \in SUBSET ((Completed \cup Requested) \ newest)}

CreateRequest(r) ==
    /\ runs[r].status = "none"
    /\ \E rows \in Pruned({}) : runs' = [rows EXCEPT ![r] = Run("requested")]
    /\ UNCHANGED <<vars, executions, calls>>

OtherRunEnds ==
    /\ runs' \in Pruned({}) \ {runs}
    /\ UNCHANGED <<vars, executions, calls>>

\* Startup, and every five minutes.
ReconcileAbandoned ==
    /\ \E old \in SUBSET Requested : runs' = Without(runs, Abandoned \cup old)
    /\ runs' # runs
    /\ UNCHANGED <<vars, executions, calls>>

-----------------------------------------------------------------------------
(* Executing a run.                                                        *)

Moves(x, phase) == executions' = [executions EXCEPT ![x].phase = phase]

\* A request of the web process is answered; a worker's handler goes on.
Returns(x, phase) ==
    executions' = [executions EXCEPT ![x] =
        IF x = Web THEN NotExecuting ELSE [@ EXCEPT !.phase = phase]]

StartsOnWeb(r) ==
    /\ executions[Web] = NotExecuting
    /\ Exists(r)
    /\ executions' = [executions EXCEPT ![Web] = [phase |-> "finding", run |-> r]]
    /\ UNCHANGED <<vars, runs, calls>>

\* Mutant of Find: a cancelled run counts as done.
FindDone(x) ==
    /\ executions[x].phase = "finding"
    /\ LET status == runs[executions[x].run].status
       IN  \/ status = "deleted" /\ Returns(x, "threw")
           \/ status \in {"completed", "canceled"} /\ Returns(x, "done")
           \/ status \in {"requested", "running", "failed"} /\ Moves(x, "marking")
    /\ UNCHANGED <<vars, runs, calls>>

\* A worker whose job was taken over cannot report progress, and throws.
Find(x) ==
    /\ executions[x].phase = "finding"
    /\ LET status == runs[executions[x].run].status
       IN  \/ status \in {"deleted", "canceled"} /\ Returns(x, "threw")
           \/ status = "completed" /\ Returns(x, "done")
           \/ status \in {"requested", "running", "failed"} /\ Moves(x, "marking")
           \/ x # Web /\ ~Holds(x) /\ Returns(x, "threw")
    /\ UNCHANGED <<vars, runs, calls>>

\* A run that ended since it was found is run all the same.
MarkRunning(x) ==
    /\ executions[x].phase = "marking"
    /\ LET r == executions[x].run
       IN  IF ~Exists(r) THEN Returns(x, "threw") /\ UNCHANGED runs
           ELSE /\ runs' = IF runs[r].status \in {"requested", "failed"}
                           THEN [runs EXCEPT ![r].status = "running"] ELSE runs
                /\ Moves(x, "running")
    /\ UNCHANGED <<vars, calls>>

\* The runner throws, or the browser's completion fails.
RunnerThrows(x) ==
    /\ executions[x].phase = "running"
    /\ Moves(x, "failing")
    /\ UNCHANGED <<vars, runs, calls>>

MarkFailed(x) ==
    /\ executions[x].phase = "failing"
    /\ LET r == executions[x].run
       IN  runs' = IF runs[r].status \in {"requested", "running"}
                   THEN [runs EXCEPT ![r].status = "failed"] ELSE runs
    /\ Returns(x, "threw")
    /\ UNCHANGED <<vars, calls>>

\* The completed run gets its result, and the history is pruned.
GetsResult(r, x) ==
    \E rows \in Pruned({r}) :
        runs' = [rows EXCEPT ![r] = [status |-> "completed", result |-> x]]

\* Mutant of CompleteRun: a result that exists is replaced.
CompleteAgain(x) ==
    /\ executions[x].phase = "running"
    /\ LET r == executions[x].run
       IN  IF runs[r].status \in {"requested", "running", "completed"}
           THEN GetsResult(r, x) /\ Returns(x, "done")
           ELSE UNCHANGED runs /\ Returns(x, "threw")
    /\ UNCHANGED <<vars, calls>>

\* The run completes unless it ended before.  It is then among the newest: as
\* many runs as are kept do not complete while one is executed.  Without a
\* result the handler throws.
CompleteRun(x) ==
    /\ executions[x].phase = "running"
    /\ LET r == executions[x].run
       IN  IF runs[r].status \in {"requested", "running"}
           THEN GetsResult(r, x) /\ Returns(x, "done")
           ELSE UNCHANGED runs /\ Returns(x, IF runs[r].status = "completed" THEN "done" ELSE "threw")
    /\ UNCHANGED <<vars, calls>>

-----------------------------------------------------------------------------
(* Users.                                                                  *)

Cancelled(r) ==
    IF runs[r].status \in {"requested", "running"}
    THEN [runs EXCEPT ![r].status = "canceled"] ELSE runs

\* The browser cancels its run.
CancelRequest(r) ==
    /\ Exists(r)
    /\ runs' = Cancelled(r)
    /\ UNCHANGED <<vars, executions, calls>>

\* Fewer requests are under way than may be: those waiting for their second call,
\* and the one that read a job to cancel it.
MayCall == Cardinality(calls) + (IF caller = Idle THEN 0 ELSE 1) < MaxCalls

\* The second call of a request, which is none of those under way.
Begins(kind, r) ==
    \E n \in 1..MaxCalls :
        /\ \A c \in calls : c.request # n
        /\ calls' = calls \cup {Call(kind, r, n)}

EnqueueRun(j) == Exists(RunOf[j]) /\ Submit(j) /\ UNCHANGED simulationVars

BeginCancelJob(j) == MayCall /\ ReadToCancel(j) /\ UNCHANGED simulationVars

\* Mutant of CancelJob: only a running job's run is cancelled.
CancelRunningJob ==
    /\ Cancel
    /\ IF jobs'[caller.job].status = "running" /\ jobs'[caller.job].cancel
       THEN Begins("cancel", RunOf[caller.job]) ELSE UNCHANGED calls
    /\ UNCHANGED <<runs, executions>>

CancelJob ==
    /\ Cancel
    /\ IF jobs'[caller.job].status = "canceled" \/ jobs'[caller.job].cancel
       THEN Begins("cancel", RunOf[caller.job]) ELSE UNCHANGED calls
    /\ UNCHANGED <<runs, executions>>

\* A job cancelled before is answered as it is, and its run cancelled again.
CancelJobAgain(j) ==
    /\ MayCall
    /\ jobs[j].status = "canceled"
    /\ Begins("cancel", RunOf[j])
    /\ UNCHANGED <<vars, runs, executions>>

MarkCanceled(c) ==
    /\ c.kind = "cancel"
    /\ runs' = Cancelled(c.run)
    /\ calls' = calls \ {c}
    /\ UNCHANGED <<vars, executions>>

RerunJob(j) ==
    /\ MayCall
    /\ Rerun(j)
    /\ Begins("rerun", RunOf[j])
    /\ UNCHANGED <<runs, executions>>

\* A running run is not reset.
ReadToReset(c) ==
    /\ c.kind = "rerun"
    /\ LET rest == calls \ {c}
       IN  calls' = IF Exists(c.run) /\ runs[c.run].status # "running"
                    THEN rest \cup {[c EXCEPT !.kind = "reset"]} ELSE rest
    /\ UNCHANGED <<vars, runs, executions>>

\* Mutant of ResetForRerun: the result is kept.
ResetKeepingResult(c) ==
    /\ c.kind = "reset"
    /\ runs' = IF Exists(c.run) THEN [runs EXCEPT ![c.run].status = "requested"] ELSE runs
    /\ calls' = calls \ {c}
    /\ UNCHANGED <<vars, executions>>

\* The status is not tested again.
ResetForRerun(c) ==
    /\ c.kind = "reset"
    /\ runs' = IF Exists(c.run) THEN [runs EXCEPT ![c.run] = Run("requested")] ELSE runs
    /\ calls' = calls \ {c}
    /\ UNCHANGED <<vars, executions>>

-----------------------------------------------------------------------------
(* Workers.  The handler executes the run of the job.                      *)

ClaimRun(w) ==
    /\ Claim(w)
    /\ executions' = [executions EXCEPT ![w] =
                        [phase |-> "finding", run |-> RunOf[workers'[w].job]]]
    /\ UNCHANGED <<runs, calls>>

Leaves(w) == executions' = [executions EXCEPT ![w] = NotExecuting] /\ UNCHANGED <<runs, calls>>

\* The last report of progress needs the job, too.
ExecutionReturns(w) ==
    /\ executions[w].phase = "done" /\ Holds(w)
    /\ HandlerReturns(w)
    /\ Leaves(w)

ExecutionThrows(w) ==
    /\ executions[w].phase \in {"threw", "done"}
    /\ executions[w].phase = "done" => ~Holds(w)
    /\ HandlerThrows(w)
    /\ Leaves(w)

WorkerCrashes(w) == Crash(w) /\ Leaves(w)

\* The web process dies between two statements of a request.
WebCrashes ==
    /\ executions[Web] # NotExecuting \/ calls # {}
    /\ faults < MaxFaults /\ faults' = faults + 1
    /\ executions' = [executions EXCEPT ![Web] = NotExecuting]
    /\ calls' = {}
    /\ UNCHANGED <<jobs, older, workers, caller, runs>>

Elsewhere(w) ==
    \/ Heartbeat(w)
    \/ LastHeartbeat(w)
    \/ Complete(w)
    \/ CancelAtRunBoundary(w)
    \/ ReadToFail(w)
    \/ Fail(w)

SimulationNext ==
    \/ \E r \in Runs : CreateRequest(r) \/ StartsOnWeb(r) \/ CancelRequest(r)
    \/ OtherRunEnds
    \/ ReconcileAbandoned
    \/ \E x \in Executors :
        Find(x) \/ MarkRunning(x) \/ RunnerThrows(x) \/ MarkFailed(x) \/ CompleteRun(x)
    \/ \E j \in Jobs : EnqueueRun(j) \/ BeginCancelJob(j) \/ CancelJobAgain(j) \/ RerunJob(j)
    \/ CancelJob
    \/ \E c \in calls : MarkCanceled(c) \/ ReadToReset(c) \/ ResetForRerun(c)
    \/ \E w \in Workers : ClaimRun(w) \/ ExecutionReturns(w) \/ ExecutionThrows(w) \/ WorkerCrashes(w)
    \/ \E w \in Workers : Elsewhere(w) /\ UNCHANGED simulationVars
    \/ \E j \in Jobs : (LeaseExpires(j) \/ Stall(j)) /\ UNCHANGED simulationVars
    \/ WebCrashes

SimulationSpec == SimulationInit /\ [][SimulationNext]_allVars
-----------------------------------------------------------------------------
(* Properties.                                                             *)

SimulationTypeOK ==
    /\ \A r \in Runs :
        /\ runs[r].status \in {"none", "requested", "running", "completed", "failed",
                               "canceled", "deleted"}
        /\ runs[r].result # NoResult <=> runs[r].status = "completed"
        /\ runs[r].result \in Executors \cup {NoResult}
    /\ \A w \in Workers : executions[w] # NotExecuting <=> workers[w].phase = "handling"
    /\ \A x \in Executors : executions[x] # NotExecuting => executions[x].run \in Runs

\* The first terminal result wins: a completed or cancelled run keeps its status
\* and its result, whoever else completes, fails or cancels it, until it is
\* deleted or a rerun resets it.
FirstTerminalResultWins ==
    [][\A r \in Runs : runs[r].status \in {"completed", "canceled"} =>
        \/ runs'[r] \in {runs[r], Run("deleted")}
        \/ Pending("reset", r)]_allVars

FirstJobs == Jobs \ Reruns

\* A completed job has left a result, which only the history's limit deletes.
CompletedJobsHaveResults ==
    \A j \in FirstJobs :
        jobs[j].status = "completed" /\ jobs[RerunRow[j]].status = "none" =>
            runs[RunOf[j]].status \in {"completed", "deleted"}

\* Once a job is cancelled and the user's request is over nothing is left that
\* will run its run, unless it was rerun or the system failed.
CancelledJobsStopTheirRuns ==
    \A j \in FirstJobs :
        /\ jobs[j].status = "canceled" /\ jobs[RerunRow[j]].status = "none"
        /\ calls = {} /\ faults = 0
        /\ \A x \in Executors : executions[x] # NotExecuting => executions[x].run # RunOf[j]
        => runs[RunOf[j]].status \notin {"requested", "running"}
=============================================================================
