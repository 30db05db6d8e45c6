--------------------------- MODULE GraphProcessor ---------------------------
(***************************************************************************)
(* One run of a GraphProcessor with the compatible scheduler: nodes are    *)
(* pulled from the start nodes back through their inputs and pushed        *)
(* forward as their inputs finish, by the jobs of a queue that runs at     *)
(* most NodeConcurrency of them at a time.                                 *)
(*                                                                         *)
(* The code is single threaded, so an action is a maximal piece of code    *)
(* without an await: a job stops at the awaited nodeStart event, at the    *)
(* pause gate, at the node's process(), and at the awaited event that      *)
(* reports how the node ended.  The host may pause, resume or abort the    *)
(* run between any two of these pieces.                                    *)
(***************************************************************************)
EXTENDS NodeProcessing

VARIABLES
  job,                 \* the stage of every job of the processing queue
  queuedNodes

vars == <<runVars, job, queuedNodes, currentlyProcessing, dataVars>>

(***************************************************************************)
(* The jobs: a start node is fetched, an input node is fetched for the     *)
(* node that needs it, an output node is tried when one of its inputs is   *)
(* through.  The third component is the node the job is about.             *)
(***************************************************************************)
StartJobs      == {<<"start", n, n>> : n \in StartNodes}
FetchInputs(n) == {<<"fetch", n, m>> : m \in InputNodesTo(n)}
PushOutputs(n) == {<<"push", n, m>> : m \in OutputNodesFrom(n)}
Job == StartJobs \cup UNION {FetchInputs(n) \cup PushOutputs(n) : n \in Node}

NodeOf(j) == j[3]

Waiting == {"none", "queued", "done"}
Holding == {"starting", "paused", "resumed", "running", "settling", "stopping"}
Stage == Waiting \cup {"fetched"} \cup Holding

Active == {j \in Job : job[j] \notin Waiting}
HasFreeSlot == Cardinality(Active) < NodeConcurrency

(* The job goes to a stage, and new jobs join the queue. *)
Advance(j, stage, added) ==
  job' = [k \in Job |-> IF k \in added THEN "queued"
                        ELSE IF k = j THEN stage ELSE job[k]]

-----------------------------------------------------------------------------
Init ==
  /\ runPhase = "starting"
  /\ isPaused \in (IF "pause" \in HostControls THEN BOOLEAN ELSE {FALSE})
  /\ aborted = FALSE
  /\ abortSuccessfully = FALSE
  /\ job = [j \in Job |-> "none"]
  /\ queuedNodes = {}
  /\ currentlyProcessing = {}
  /\ visitedNodes = Preloaded
  /\ erroredNodes = {}
  /\ nodeResults = Preloaded
  /\ portValue = [c \in Connection |-> IF c[1] \in Preloaded THEN "truthy" ELSE "falsy"]
  /\ lifecycle = [n \in Node |-> IF n \in Preloaded THEN "finished" ELSE "none"]

(***************************************************************************)
(* The envelope: processGraph() passes the pause gate, queues the start    *)
(* nodes and waits for the queue to be idle.                               *)
(***************************************************************************)
BeginDraining ==
  /\ runPhase' = "draining"
  /\ job' = [j \in Job |-> IF j \in StartJobs THEN "queued" ELSE job[j]]
  /\ UNCHANGED <<isPaused, aborted, abortSuccessfully, queuedNodes,
                 currentlyProcessing, dataVars>>

GraphStarted ==
  /\ runPhase = "starting"
  /\ \/ ~ isPaused /\ BeginDraining
     \/ /\ isPaused
        /\ runPhase' = IF aborted THEN "rejected" ELSE "paused"
        /\ UNCHANGED <<isPaused, aborted, abortSuccessfully, job, queuedNodes,
                       currentlyProcessing, dataVars>>

GraphUnpaused ==
  /\ runPhase = "resumed"
  /\ ~ aborted
  /\ BeginDraining

PausedGraphAborted ==
  /\ runPhase \in {"paused", "resumed"}
  /\ aborted
  /\ runPhase' = "rejected"
  /\ UNCHANGED <<isPaused, aborted, abortSuccessfully, job, queuedNodes,
                 currentlyProcessing, dataVars>>

QueueIdle == \A j \in Job : job[j] \in {"none", "done"}

(* throwIfGraphErrored, then finalizeGraphRun. *)
GraphDrained ==
  /\ runPhase = "draining"
  /\ QueueIdle
  /\ runPhase' = RunResult
  /\ UNCHANGED <<isPaused, aborted, abortSuccessfully, job, queuedNodes,
                 currentlyProcessing, dataVars>>

GraphErrorEmitted ==
  /\ runPhase = "erroring"
  /\ runPhase' = "rejected"
  /\ UNCHANGED <<isPaused, aborted, abortSuccessfully, job, queuedNodes,
                 currentlyProcessing, dataVars>>

-----------------------------------------------------------------------------
(***************************************************************************)
(* The host.  The resume event reaches the waiters that listened when it   *)
(* was emitted, a little later and whatever isPaused says by then.         *)
(***************************************************************************)
Pause ==
  /\ "pause" \in HostControls
  /\ Running
  /\ ~ isPaused
  /\ isPaused' = TRUE
  /\ UNCHANGED <<runPhase, aborted, abortSuccessfully, job, queuedNodes,
                 currentlyProcessing, dataVars>>

Resume ==
  /\ isPaused
  /\ Running
  /\ isPaused' = FALSE
  /\ runPhase' = IF runPhase = "paused" THEN "resumed" ELSE runPhase
  /\ job' = [j \in Job |-> IF job[j] = "paused" THEN "resumed" ELSE job[j]]
  /\ UNCHANGED <<aborted, abortSuccessfully, queuedNodes, currentlyProcessing, dataVars>>

(* abort(successful), from the host or from a node's abortGraph(). *)
Abort ==
  /\ "abort" \in HostControls
  /\ Running
  /\ ~ aborted
  /\ aborted' = TRUE
  /\ abortSuccessfully' \in BOOLEAN
  /\ UNCHANGED <<runPhase, isPaused, job, queuedNodes, currentlyProcessing, dataVars>>

-----------------------------------------------------------------------------
(***************************************************************************)
(* fetchNodeDataAndProcessNode: demand the node's inputs once.  The queue  *)
(* may start their jobs before this one goes on, so trying the node is a   *)
(* step of its own.                                                        *)
(***************************************************************************)
FetchIsPointless(n) ==
  \/ n \in currentlyProcessing \cup queuedNodes
  \/ n \in nodeResults \cup erroredNodes
  \/ HasErroredInputNode(erroredNodes, n)

FetchNodeData(j) ==
  /\ job[j] = "queued"
  /\ HasFreeSlot
  /\ j[1] \in {"start", "fetch"}
  /\ LET n == NodeOf(j) IN
       IF FetchIsPointless(n)
       THEN Advance(j, "done", {}) /\ UNCHANGED queuedNodes
       ELSE /\ queuedNodes' = queuedNodes \cup {n}
            /\ Advance(j, "fetched", FetchInputs(n))
  /\ UNCHANGED <<runVars, currentlyProcessing, dataVars>>

(***************************************************************************)
(* processNodeIfAllInputsAvailable, up to its first await.                 *)
(***************************************************************************)
AtTry(j) ==
  \/ job[j] = "fetched"
  \/ job[j] = "queued" /\ j[1] = "push" /\ HasFreeSlot

SkipNode(j) ==
  /\ AtTry(j)
  /\ ShouldSkipNodeProcessing(NodeOf(j)) \/ MustWait(NodeOf(j))
  /\ Advance(j, "done", {})
  /\ UNCHANGED <<runVars, queuedNodes, currentlyProcessing, dataVars>>

ExcludeNode_NoPush(j) ==   \* mutant: an excluded node does not queue its outputs
  LET n == NodeOf(j) IN
    /\ AtTry(j)
    /\ ~ ShouldSkipNodeProcessing(n) /\ ~ MustWait(n) /\ MustExclude(n)
    /\ StoreExclusion(n)
    /\ Advance(j, "done", {})
    /\ UNCHANGED <<runVars, queuedNodes, erroredNodes>>

ExcludeNode(j) ==
  LET n == NodeOf(j) IN
    /\ AtTry(j)
    /\ ~ ShouldSkipNodeProcessing(n)
    /\ ~ MustWait(n)
    /\ MustExclude(n)
    /\ StoreExclusion(n)
    /\ Advance(j, "done", PushOutputs(n))
    /\ UNCHANGED <<runVars, queuedNodes, erroredNodes>>

BeginNode_NoAbortCheck(j) ==   \* mutant: process the node whatever the abort signal
  LET n == NodeOf(j) IN
    /\ AtTry(j)
    /\ ~ ShouldSkipNodeProcessing(n) /\ ~ MustWait(n) /\ ~ MustExclude(n)
    /\ currentlyProcessing' = currentlyProcessing \cup {n}
    /\ Emit(n, "started")
    /\ Advance(j, "starting", {})
    /\ UNCHANGED <<runVars, queuedNodes, visitedNodes, nodeResults, portValue, erroredNodes>>

BeginNode(j) ==
  LET n == NodeOf(j) IN
    /\ AtTry(j)
    /\ ~ ShouldSkipNodeProcessing(n)
    /\ ~ MustWait(n)
    /\ ~ MustExclude(n)
    /\ currentlyProcessing' = currentlyProcessing \cup {n}
    /\ IF aborted
       THEN NodeErrored(n, TRUE) /\ Advance(j, "stopping", {})
       ELSE /\ Emit(n, "started")
            /\ Advance(j, "starting", {})
            /\ UNCHANGED <<nodeResults, portValue, erroredNodes>>
    /\ UNCHANGED <<runVars, queuedNodes, visitedNodes>>

-----------------------------------------------------------------------------
(***************************************************************************)
(* processNormalNode after nodeStart: the pause gate, then process().      *)
(***************************************************************************)
NodeStarted(j) ==
  /\ job[j] = "starting"
  /\ NodeOf(j) \notin Frozen
  /\ \/ ~ isPaused /\ Advance(j, "running", {})
     \/ isPaused /\ ~ aborted /\ Advance(j, "paused", {})
  /\ UNCHANGED <<runVars, queuedNodes, currentlyProcessing, dataVars>>

NodeUnpaused(j) ==
  /\ job[j] = "resumed"
  /\ ~ aborted
  /\ Advance(j, "running", {})
  /\ UNCHANGED <<runVars, queuedNodes, currentlyProcessing, dataVars>>

(* An error thrown inside processNormalNode. *)
NodeFailed(j, explained) ==
  /\ NodeErrored(NodeOf(j), explained)
  /\ Advance(j, IF abortSuccessfully /\ explained THEN "stopping" ELSE "settling", {})
  /\ UNCHANGED <<runVars, queuedNodes, currentlyProcessing, visitedNodes>>

PausedNodeAborted_Deaf(j) ==   \* mutant: waiting for resume() ignores the abort signal
  /\ job[j] = "starting" /\ isPaused /\ NodeOf(j) \notin Frozen
  /\ aborted
  /\ NodeFailed(j, TRUE)

PausedNodeAborted(j) ==
  /\ \/ job[j] \in {"paused", "resumed"}
     \/ job[j] = "starting" /\ isPaused /\ NodeOf(j) \notin Frozen
  /\ aborted
  /\ NodeFailed(j, TRUE)

(* Store the outputs and emit nodeFinish. *)
NodeFinished(j, stage) ==
  /\ StoreOutputs(NodeOf(j))
  /\ Advance(j, stage, {})
  /\ UNCHANGED <<runVars, queuedNodes, currentlyProcessing, erroredNodes>>

(* process() returned; the node's abort signal is looked at only now. *)
NodeReturned(j) ==
  /\ job[j] = "running"
  /\ IF aborted
     THEN IF abortSuccessfully THEN NodeFinished(j, "stopping")
                               ELSE NodeFailed(j, FALSE)
     ELSE NodeFinished(j, "settling")

(* process() threw; an abort-like error after a successful abort is explained. *)
NodeThrew(j) ==
  /\ job[j] = "running"
  /\ \E abortLike \in BOOLEAN : NodeFailed(j, abortLike)

(* processFrozenNode: no pause gate and no abort check. *)
FrozenNodeReplayed(j) ==
  /\ job[j] = "starting"
  /\ NodeOf(j) \in Frozen
  /\ NodeFinished(j, "settling")

(* The tail of processNodeIfAllInputsAvailable, after the node's last event. *)
NodeSettled(j) ==
  LET n == NodeOf(j) IN
    /\ job[j] \in {"settling", "stopping"}
    /\ visitedNodes' = visitedNodes \cup {n}
    /\ currentlyProcessing' = currentlyProcessing \ {n}
    /\ Advance(j, "done", IF job[j] = "settling" THEN PushOutputs(n) ELSE {})
    /\ UNCHANGED <<runVars, queuedNodes, erroredNodes, nodeResults, portValue, lifecycle>>

-----------------------------------------------------------------------------
JobStep(j) ==
  \/ FetchNodeData(j)
  \/ SkipNode(j)
  \/ ExcludeNode(j)
  \/ BeginNode(j)
  \/ NodeStarted(j)
  \/ NodeUnpaused(j)
  \/ PausedNodeAborted(j)
  \/ NodeReturned(j)
  \/ NodeThrew(j)
  \/ FrozenNodeReplayed(j)
  \/ NodeSettled(j)

GraphStep ==
  \/ GraphStarted
  \/ GraphUnpaused
  \/ PausedGraphAborted
  \/ GraphDrained
  \/ GraphErrorEmitted

(* A finished run stays as it is. *)
RunEnded == Ended /\ UNCHANGED vars

Next ==
  \/ \E j \in Job : JobStep(j)
  \/ GraphStep
  \/ Pause
  \/ Resume
  \/ Abort
  \/ RunEnded

Spec == Init /\ [][Next]_vars

(* The queue serves every job, events are delivered and process() ends. *)
Fairness == WF_vars(GraphStep) /\ \A j \in Job : WF_vars(JobStep(j))
FairSpec == Spec /\ Fairness

-----------------------------------------------------------------------------
(***************************************************************************)
(* Properties.                                                             *)
(***************************************************************************)

(* Every variable has its type, and the queue never serves more jobs at a
   time than nodeConcurrency. *)
TypeOK ==
  /\ runPhase \in {"starting", "paused", "resumed", "draining", "erroring",
                   "resolved", "rejected"}
  /\ isPaused \in BOOLEAN
  /\ aborted \in BOOLEAN
  /\ abortSuccessfully \in BOOLEAN
  /\ job \in [Job -> Stage]
  /\ queuedNodes \subseteq Node
  /\ currentlyProcessing \subseteq Node
  /\ visitedNodes \subseteq Node
  /\ erroredNodes \subseteq Node
  /\ nodeResults \subseteq Node
  /\ portValue \in [Connection -> PortValue]
  /\ lifecycle \in [Node -> {"none", "started", "finished", "errored", "excluded"}]
  /\ Cardinality(Active) <= NodeConcurrency

(* However many jobs try a node, one at most gets past the checks and holds
   it, and currentlyProcessing names exactly the nodes that are held: it
   neither lets a node in twice nor keeps one out for ever. *)
OneJobPerNode ==
  /\ \A j, k \in Job :
       job[j] \in Holding /\ job[k] \in Holding /\ NodeOf(j) = NodeOf(k) => j = k
  /\ currentlyProcessing = {NodeOf(j) : j \in {k \in Job : job[k] \in Holding}}

(* No lost wakeup: when the queue runs dry in a run that was neither aborted
   nor met an error, every start node has an outcome.  Nobody else would
   ever try it again. *)
NoStall ==
  runPhase = "draining" /\ QueueIdle /\ ~ aborted /\ erroredNodes = {} =>
    \A n \in StartNodes : n \in visitedNodes \/ BehindRunTo(n)

(* A run ends unless the host leaves it paused for good, and an abort ends it
   even if nobody ever resumes it. *)
RunTerminates == []<>(~ isPaused) \/ <>aborted => <>Ended
=============================================================================
