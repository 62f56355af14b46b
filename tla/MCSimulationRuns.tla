-------------------------- MODULE MCSimulationRuns --------------------------
(***************************************************************************)
(* SimulationRuns with one simulation, its run and its reruns.             *)
(***************************************************************************)
EXTENDS SimulationRuns, TLC

CONSTANTS simulation, rerun, run, w1, w2

MCJobs == {simulation, rerun}
MCRerunRow == simulation :> rerun @@ rerun :> rerun
MCWorkers == {w1, w2}
MCRuns == {run}
MCRunOf == [j \in MCJobs |-> run]
MCSymmetry == Permutations(MCWorkers)
=============================================================================
