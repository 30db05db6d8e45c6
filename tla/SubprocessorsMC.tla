-------------------------- MODULE SubprocessorsMC --------------------------
(* A graph with two subgraphs, of which one has a subgraph itself. *)
EXTENDS Subprocessors

CONSTANTS root, child, sibling, grandchild

Parents == child :> root @@ sibling :> root @@ grandchild :> child
Plan == root :> {"child"} @@ child :> {"child", "abort"}
          @@ grandchild :> {"ask", "set"} @@ sibling :> {"global"}

(* One subgraph. *)
OneParent == child :> root
OnePlan == root :> {"child"} @@ child :> {"ask"}
=============================================================================
