-------------------------- MODULE LoopsAndRacesMC --------------------------
(* A race of a and b, which reads c, and c d, starts a loop of controller, x and z. *)
EXTENDS LoopsAndRaces

CONSTANTS a, b, c, d, race, controller, x, z, out

RaceThenLoop ==
  {<<a, race>>, <<d, c>>, <<c, b>>, <<b, race>>, <<race, controller>>,
   <<controller, x>>, <<x, z>>, <<x, controller>>, <<z, controller>>,
   <<controller, out>>}
Break == {<<controller, out>>}

ASSUME LoopIsClosed == ClosedLoop
ASSUME GraphIsPassable == PassableGraph
=============================================================================
