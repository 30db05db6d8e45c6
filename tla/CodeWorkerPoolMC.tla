-------------------------- MODULE CodeWorkerPoolMC --------------------------
(* Two runs, for a pool that may have a worker for each, for one or for none. *)
EXTENDS CodeWorkerPool

CONSTANTS r1, r2
=============================================================================
