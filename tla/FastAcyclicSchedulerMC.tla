----------------------- MODULE FastAcyclicSchedulerMC -----------------------
(* Graphs to check FastAcyclicScheduler on. *)
EXTENDS FastAcyclicScheduler

CONSTANTS a, b, c, d, e, f

(* Two ways from a to d, by b and by the `if` port of c; e and f, which will
   be excluded, lie beside them. *)
Kite ==
  {<<a, b>>, <<b, d>>, <<a, c>>, <<c, d>>, <<a, e>>, <<e, d>>, <<e, f>>, <<f, d>>}
KiteIf == {<<a, c>>}
=============================================================================
