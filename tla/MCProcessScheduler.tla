------------------------ MODULE MCProcessScheduler ------------------------
(***************************************************************************)
(* ProcessScheduler for TLC.  Runs have no tasks here; schedulers and      *)
(* Analyzer processes are interchangeable, run ids are not (the queue is   *)
(* ordered, but submission is free to choose, so they are as well).        *)
(***************************************************************************)
EXTENDS ProcessScheduler, TLC

Interchangeable == Permutations(Scheduler) \union Permutations(Proc) \union Permutations(Run)
=============================================================================
