----------------------------- MODULE MCJobQueue -----------------------------
(***************************************************************************)
(* JobQueue with one simulation and its reruns.                            *)
(***************************************************************************)
EXTENDS JobQueue, TLC

CONSTANTS simulation, rerun, w1, w2

MCJobs == {simulation, rerun}
MCRerunRow == simulation :> rerun @@ rerun :> rerun
MCWorkers == {w1, w2}
=============================================================================
