-------------------------- MODULE ProcessorRunsMC --------------------------
(* Three calls: enough for a run to meet the one before and the one after. *)
EXTENDS ProcessorRuns

CONSTANTS first, second, third

(* A host that calls while a run is on, or when it has settled. *)
InTurn == Busy
=============================================================================
