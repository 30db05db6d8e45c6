------------------------ MODULE FastAcyclicScheduler ------------------------
(***************************************************************************)
(* One run of a GraphProcessor with the fast-acyclic scheduler: a node is  *)
(* tried once, when the count of its missing inputs has come down to zero. *)
(* The nodes that are ready wait in a list, and a pump takes them out of   *)
(* it while fewer than NodeConcurrency are active.                         *)
(*                                                                         *)
(* This scheduler is taken only for acyclic graphs without runToNodeIds    *)
(* and preloaded results.  As in GraphProcessor an action is a piece of    *)
(* code without an await, except for the loop of the pump: while it runs   *)
(* ("pumping") nothing else does, and each turn of it is one action.       *)
(***************************************************************************)
EXTENDS NodeProcessing

ASSUME FastAssumption == RunTo = {} /\ Preloaded = {}

VARIABLES
  activity,         \* where each node stands
  remainingInputs,  \* inputs of each node that have not come to their end
  pumping           \* the pump is in its loop

vars == <<runVars, activity, remainingInputs, pumping, currentlyProcessing, dataVars>>

(* The nodes the start nodes depend on. *)
RelevantNodes ==
  {m \in Node : \E s \in StartNodes : m \in DependencyNodesDeep[s]}

Resting == {"waiting", "ready", "done"}
Holding == {"starting", "paused", "resumed", "running", "settling", "stopping"}
Activity == Resting \cup Holding \cup {"returned", "leaving"}

readyNodes  == {n \in Node : activity[n] = "ready"}
Active      == {n \in Node : activity[n] \notin Resting}
HasFreeSlot == Cardinality(Active) < NodeConcurrency

Enter(n, place) == activity' = [activity EXCEPT ![n] = place]

-----------------------------------------------------------------------------
Init ==
  /\ runPhase = "starting"
  /\ isPaused \in (IF "pause" \in HostControls THEN BOOLEAN ELSE {FALSE})
  /\ aborted = FALSE
  /\ abortSuccessfully = FALSE
  /\ activity = [n \in Node |-> "waiting"]
  /\ remainingInputs = [n \in Node |-> 0]
  /\ pumping = FALSE
  /\ currentlyProcessing = {}
  /\ visitedNodes = {}
  /\ erroredNodes = {}
  /\ nodeResults = {}
  /\ portValue = [c \in Connection |-> "falsy"]
  /\ lifecycle = [n \in Node |-> "none"]

(***************************************************************************)
(* The envelope, as in GraphProcessor.                                     *)
(***************************************************************************)
BeginPumping ==
  /\ runPhase' = "draining"
  /\ remainingInputs' = [n \in Node |-> Cardinality(InputNodesTo(n))]
  /\ activity' = [n \in Node |-> IF n \in RelevantNodes /\ InputNodesTo(n) = {}
                                 THEN "ready" ELSE "waiting"]
  /\ pumping' = TRUE
  /\ UNCHANGED <<isPaused, aborted, abortSuccessfully, currentlyProcessing, dataVars>>

GraphMoves(phase) ==
  /\ runPhase' = phase
  /\ UNCHANGED <<isPaused, aborted, abortSuccessfully, activity, remainingInputs,
                 pumping, currentlyProcessing, dataVars>>

GraphStarted ==
  /\ runPhase = "starting"
  /\ \/ ~ isPaused /\ BeginPumping
     \/ isPaused /\ GraphMoves(IF aborted THEN "rejected" ELSE "paused")

GraphUnpaused ==
  /\ runPhase = "resumed"
  /\ ~ aborted
  /\ BeginPumping

PausedGraphAborted ==
  /\ runPhase \in {"paused", "resumed"}
  /\ aborted
  /\ GraphMoves("rejected")

(* settle: the pump has nothing left to do, and no active node will call it. *)
AllSettled_Eager == readyNodes = {}   \* mutant
AllSettled == Active = {} /\ readyNodes = {}

GraphDrained ==
  /\ runPhase = "draining"
  /\ AllSettled
  /\ GraphMoves(RunResult)

GraphErrorEmitted ==
  /\ runPhase = "erroring"
  /\ GraphMoves("rejected")

Pause ==
  /\ "pause" \in HostControls
  /\ Running
  /\ ~ isPaused
  /\ isPaused' = TRUE
  /\ UNCHANGED <<runPhase, aborted, abortSuccessfully, activity, remainingInputs,
                 pumping, currentlyProcessing, dataVars>>

Resume ==
  /\ isPaused
  /\ Running
  /\ isPaused' = FALSE
  /\ runPhase' = IF runPhase = "paused" THEN "resumed" ELSE runPhase
  /\ activity' = [n \in Node |-> IF activity[n] = "paused" THEN "resumed" ELSE activity[n]]
  /\ UNCHANGED <<aborted, abortSuccessfully, remainingInputs, pumping,
                 currentlyProcessing, dataVars>>

Abort ==
  /\ "abort" \in HostControls
  /\ Running
  /\ ~ aborted
  /\ aborted' = TRUE
  /\ abortSuccessfully' \in BOOLEAN
  /\ UNCHANGED <<runPhase, isPaused, activity, remainingInputs, pumping,
                 currentlyProcessing, dataVars>>

-----------------------------------------------------------------------------
(***************************************************************************)
(* The pump: take a ready node while there is a slot, and go through       *)
(* processNodeIfAllInputsAvailable up to its first await.                  *)
(***************************************************************************)
CanTake(n) == pumping /\ activity[n] = "ready" /\ HasFreeSlot

SkipNode(n) ==
  /\ CanTake(n)
  /\ ShouldSkipNodeProcessing(n) \/ MustWait(n)
  /\ Enter(n, "leaving")
  /\ UNCHANGED <<runVars, remainingInputs, pumping, currentlyProcessing, dataVars>>

ExcludeNode_NoOutputs(n) ==   \* mutant: an excluded node returns no output nodes
  /\ CanTake(n) /\ ~ ShouldSkipNodeProcessing(n) /\ ~ MustWait(n) /\ MustExclude(n)
  /\ StoreExclusion(n)
  /\ Enter(n, "leaving")
  /\ UNCHANGED <<runVars, remainingInputs, pumping, erroredNodes>>

ExcludeNode(n) ==
  /\ CanTake(n)
  /\ ~ ShouldSkipNodeProcessing(n)
  /\ ~ MustWait(n)
  /\ MustExclude(n)
  /\ StoreExclusion(n)
  /\ Enter(n, "returned")
  /\ UNCHANGED <<runVars, remainingInputs, pumping, erroredNodes>>

BeginNode(n) ==
  /\ CanTake(n)
  /\ ~ ShouldSkipNodeProcessing(n)
  /\ ~ MustWait(n)
  /\ ~ MustExclude(n)
  /\ currentlyProcessing' = currentlyProcessing \cup {n}
  /\ IF aborted
     THEN NodeErrored(n, TRUE) /\ Enter(n, "stopping")
     ELSE /\ Emit(n, "started")
          /\ Enter(n, "starting")
          /\ UNCHANGED <<nodeResults, portValue, erroredNodes>>
  /\ UNCHANGED <<runVars, remainingInputs, pumping, visitedNodes>>

PumpEnds ==
  /\ pumping
  /\ readyNodes = {} \/ ~ HasFreeSlot
  /\ pumping' = FALSE
  /\ UNCHANGED <<runVars, activity, remainingInputs, currentlyProcessing, dataVars>>

-----------------------------------------------------------------------------
(* processNormalNode and processFrozenNode, as in GraphProcessor. *)
NodeStarted(n) ==
  /\ activity[n] = "starting"
  /\ n \notin Frozen
  /\ \/ ~ isPaused /\ Enter(n, "running")
     \/ isPaused /\ ~ aborted /\ Enter(n, "paused")
  /\ UNCHANGED <<runVars, remainingInputs, pumping, currentlyProcessing, dataVars>>

NodeUnpaused(n) ==
  /\ activity[n] = "resumed"
  /\ ~ aborted
  /\ Enter(n, "running")
  /\ UNCHANGED <<runVars, remainingInputs, pumping, currentlyProcessing, dataVars>>

NodeFailed(n, explained) ==
  /\ NodeErrored(n, explained)
  /\ Enter(n, IF abortSuccessfully /\ explained THEN "stopping" ELSE "settling")
  /\ UNCHANGED <<runVars, remainingInputs, pumping, currentlyProcessing, visitedNodes>>

PausedNodeAborted(n) ==
  /\ \/ activity[n] \in {"paused", "resumed"}
     \/ activity[n] = "starting" /\ isPaused /\ n \notin Frozen
  /\ aborted
  /\ NodeFailed(n, TRUE)

NodeFinished(n, place) ==
  /\ StoreOutputs(n)
  /\ Enter(n, place)
  /\ UNCHANGED <<runVars, remainingInputs, pumping, currentlyProcessing, erroredNodes>>

NodeReturned(n) ==
  /\ activity[n] = "running"
  /\ IF aborted
     THEN IF abortSuccessfully THEN NodeFinished(n, "stopping")
                               ELSE NodeFailed(n, FALSE)
     ELSE NodeFinished(n, "settling")

NodeThrew(n) ==
  /\ activity[n] = "running"
  /\ \E abortLike \in BOOLEAN : NodeFailed(n, abortLike)

FrozenNodeReplayed(n) ==
  /\ activity[n] = "starting"
  /\ n \in Frozen
  /\ NodeFinished(n, "settling")

(* The tail of processNodeIfAllInputsAvailable, which returns the output
   nodes, or none after a successful abort. *)
NodeSettled(n) ==
  /\ activity[n] \in {"settling", "stopping"}
  /\ visitedNodes' = visitedNodes \cup {n}
  /\ currentlyProcessing' = currentlyProcessing \ {n}
  /\ Enter(n, IF activity[n] = "settling" THEN "returned" ELSE "leaving")
  /\ UNCHANGED <<runVars, remainingInputs, pumping, erroredNodes, nodeResults,
                 portValue, lifecycle>>

(***************************************************************************)
(* The two callbacks on the promise of a try: count the node's outputs     *)
(* down, then give up its slot and pump.  Others may run in between.       *)
(***************************************************************************)
QueueReadyOutputs_OffByOne(n) ==   \* mutant: ready when one input is missing
  LET told == OutputNodesFrom(n) \cap RelevantNodes
      left == [m \in Node |-> remainingInputs[m] - (IF m \in told THEN 1 ELSE 0)]
  IN  /\ activity[n] = "returned"
      /\ remainingInputs' = left
      /\ activity' = [m \in Node |->
           IF m = n THEN "leaving"
           ELSE IF m \in told /\ left[m] <= 1 /\ activity[m] = "waiting"
           THEN "ready" ELSE activity[m]]
      /\ UNCHANGED <<runVars, pumping, currentlyProcessing, dataVars>>

QueueReadyOutputs(n) ==
  LET told == OutputNodesFrom(n) \cap RelevantNodes
      left == [m \in Node |-> remainingInputs[m] - (IF m \in told THEN 1 ELSE 0)]
  IN  /\ activity[n] = "returned"
      /\ remainingInputs' = left
      /\ activity' = [m \in Node |->
           IF m = n THEN "leaving"
           ELSE IF m \in told /\ left[m] <= 0 /\ activity[m] = "waiting"
           THEN "ready" ELSE activity[m]]
      /\ UNCHANGED <<runVars, pumping, currentlyProcessing, dataVars>>

LeaveAndPump_NoPump(n) ==   \* mutant: the slot is given up without a pump
  /\ activity[n] = "leaving"
  /\ Enter(n, "done")
  /\ UNCHANGED <<runVars, remainingInputs, pumping, currentlyProcessing, dataVars>>

LeaveAndPump(n) ==
  /\ activity[n] = "leaving"
  /\ Enter(n, "done")
  /\ pumping' = TRUE
  /\ UNCHANGED <<runVars, remainingInputs, currentlyProcessing, dataVars>>

-----------------------------------------------------------------------------
PumpStep ==
  \/ \E n \in Node : SkipNode(n) \/ ExcludeNode(n) \/ BeginNode(n)
  \/ PumpEnds

NodeStep(n) ==
  \/ NodeStarted(n)
  \/ NodeUnpaused(n)
  \/ PausedNodeAborted(n)
  \/ NodeReturned(n)
  \/ NodeThrew(n)
  \/ FrozenNodeReplayed(n)
  \/ NodeSettled(n)
  \/ QueueReadyOutputs(n)
  \/ LeaveAndPump(n)

GraphStep ==
  \/ GraphStarted
  \/ GraphUnpaused
  \/ PausedGraphAborted
  \/ GraphDrained
  \/ GraphErrorEmitted

RunEnded == Ended /\ UNCHANGED vars

Next ==
  \/ PumpStep
  \/ /\ ~ pumping
     /\ \/ \E n \in Node : NodeStep(n)
        \/ GraphStep
        \/ Pause
        \/ Resume
        \/ Abort
        \/ RunEnded

Spec == Init /\ [][Next]_vars

(* Promises are settled, events delivered and process() ends. *)
Fairness ==
  /\ WF_vars(PumpStep)
  /\ WF_vars(~ pumping /\ GraphStep)
  /\ \A n \in Node : WF_vars(~ pumping /\ NodeStep(n))
FairSpec == Spec /\ Fairness

-----------------------------------------------------------------------------
(***************************************************************************)
(* Properties; DecisionsStand and ImplementsLifecycle are those of         *)
(* NodeProcessing.                                                         *)
(***************************************************************************)

(* Every variable has its type, at most NodeConcurrency nodes are active and
   no count of missing inputs goes below zero. *)
TypeOK ==
  /\ runPhase \in {"starting", "paused", "resumed", "draining", "erroring",
                   "resolved", "rejected"}
  /\ isPaused \in BOOLEAN
  /\ aborted \in BOOLEAN
  /\ abortSuccessfully \in BOOLEAN
  /\ activity \in [Node -> Activity]
  /\ remainingInputs \in [Node -> Nat]
  /\ pumping \in BOOLEAN
  /\ currentlyProcessing \subseteq Node
  /\ visitedNodes \subseteq Node
  /\ erroredNodes \subseteq Node
  /\ nodeResults \subseteq Node
  /\ portValue \in [Connection -> PortValue]
  /\ lifecycle \in [Node -> {"none", "started", "finished", "errored", "excluded"}]
  /\ Cardinality(Active) <= NodeConcurrency

(* A node has one try and never gives it away: when it is taken out of the
   list all its inputs have come to their end.  A try that found one missing
   would be the last. *)
ReadyNeverWaits ==
  \A n \in readyNodes : InputNodesTo(n) \subseteq visitedNodes

(* Whatever errors there were, a run that was not aborted ends with no more
   nodes left out than those behind an error. *)
OnlyErrorsHoldBack ==
  runPhase = "draining" /\ ~ pumping /\ AllSettled /\ ~ aborted =>
    \A n \in RelevantNodes : lifecycle[n] = "none" =>
      \E m \in InputNodesTo(n) : lifecycle[m] \in {"none", "errored"}

(* A run ends unless the host leaves it paused for good, and an abort ends it
   even if nobody ever resumes it. *)
RunTerminates == []<>(~ isPaused) \/ <>aborted => <>Ended
=============================================================================
