-------------------------- MODULE GraphProcessorMC --------------------------
(* A graph to check GraphProcessor on. *)
EXTENDS GraphProcessor

CONSTANTS a, b, c, d, e

(* a feeds the `if` port of b; d merges b and c, and e reads d. *)
JoinTail == {<<a, b>>, <<b, d>>, <<c, d>>, <<d, e>>}
JoinIf == {<<a, b>>}
=============================================================================
