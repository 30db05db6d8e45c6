------------------------- MODULE GraphProcessorInv -------------------------
(***************************************************************************)
(* The inductive invariant behind the safety properties of GraphProcessor. *)
(***************************************************************************)
EXTENDS GraphProcessor

Processing == {"starting", "paused", "resumed", "running"}

(* A held node has been started, and has had its last event before it is
   let go; a job that will not queue the outputs exists only after an abort. *)
StageInv ==
  \A j \in Job :
    /\ job[j] \in Processing => lifecycle[NodeOf(j)] = "started"
    /\ job[j] = "settling" => lifecycle[NodeOf(j)] \in {"finished", "errored"}
    /\ job[j] = "stopping" =>
         aborted /\ lifecycle[NodeOf(j)] \in {"finished", "errored", "excluded"}

(* Jobs exist only while the queue is being drained. *)
PhaseInv ==
  /\ runPhase \in {"starting", "paused", "resumed"} =>
       (\A j \in Job : job[j] = "none") /\ queuedNodes = {}
  /\ runPhase \in {"erroring", "resolved", "rejected"} => QueueIdle
  /\ abortSuccessfully => aborted

(* Before the queue is started no node has had an event. *)
NothingYet ==
  runPhase \in {"starting", "paused", "resumed"} =>
    \A n \in Node \ Preloaded : lifecycle[n] = "none"

(* Jobs are queued once: a node demands its inputs when it is demanded, and
   pushes its outputs when it is let go for good. *)
FreshInv ==
  \A n \in Node :
    /\ n \notin queuedNodes =>
         \A m \in InputNodesTo(n) : job[<<"fetch", n, m>>] = "none"
    /\ n \notin visitedNodes \/ n \in currentlyProcessing =>
         \A m \in OutputNodesFrom(n) : job[<<"push", n, m>>] = "none"

(* A job that will try the node. *)
WillTry(n) ==
  \E j \in Job :
    /\ NodeOf(j) = n
    /\ \/ job[j] = "fetched"
       \/ job[j] = "queued" /\ j[1] = "push"

Undisturbed == ~ aborted /\ erroredNodes = {}

(* In a run without error or abort every demanded node that can go on has a
   job that will try it, or an input that will still push it. *)
WakeOK(n) ==
  \/ n \in visitedNodes \cup currentlyProcessing
  \/ BehindRunTo(n)
  \/ WillTry(n)
  \/ \E m \in InputNodesTo(n) : m \notin visitedNodes \/ m \in currentlyProcessing

WakeInv == Undisturbed => \A n \in queuedNodes : WakeOK(n)

(* The demand reaches every start node and every input of a demanded node. *)
Reached == queuedNodes \cup nodeResults \cup currentlyProcessing

DemandInv ==
  Undisturbed =>
    /\ \A n \in queuedNodes : \A m \in InputNodesTo(n) :
         m \in Reached \/ job[<<"fetch", n, m>>] = "queued"
    /\ runPhase \in {"draining", "erroring", "resolved"} =>
         \A n \in StartNodes : n \in Reached \/ job[<<"start", n, n>>] = "queued"

IInv ==
  /\ TypeOK
  /\ IsFiniteSet(Active)
  /\ OneJobPerNode
  /\ LifeInv
  /\ StageInv
  /\ PhaseInv
  /\ NothingYet
  /\ FreshInv
  /\ DecisionsStand
  /\ WakeInv
  /\ DemandInv
=============================================================================
