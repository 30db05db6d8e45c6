----------------------- MODULE GraphProcessor_proofs -----------------------
(***************************************************************************)
(* Proofs about GraphProcessor, for every acyclic graph, every number of   *)
(* nodes and every concurrency.                                            *)
(***************************************************************************)
EXTENDS GraphProcessorInv, NodeProcessing_proofs

(* A job is about a node. *)
LEMMA JobNode == ASSUME NEW j \in Job PROVE NodeOf(j) \in Node
<1>1. CASE j \in StartJobs
  BY <1>1, GraphAssumption DEF StartJobs, StartNodes, NodeOf
<1>2. ASSUME NEW n \in Node, j \in FetchInputs(n) PROVE NodeOf(j) \in Node
  <2>1. PICK m \in InputNodesTo(n) : j = <<"fetch", n, m>>
    BY <1>2 DEF FetchInputs
  <2>. QED BY <2>1 DEF InputNodesTo, NodeOf
<1>3. ASSUME NEW n \in Node, j \in PushOutputs(n) PROVE NodeOf(j) \in Node
  <2>1. PICK m \in OutputNodesFrom(n) : j = <<"push", n, m>>
    BY <1>3 DEF PushOutputs
  <2>. QED BY <2>1 DEF OutputNodesFrom, NodeOf
<1>. QED BY <1>1, <1>2, <1>3 DEF Job

(***************************************************************************)
(* The steps of a job, with the ways a node may finish or fail lumped      *)
(* together.                                                               *)
(***************************************************************************)
FinishStep(j) ==
  \E stage \in {"settling", "stopping"} :
    /\ job[j] \in Processing
    /\ stage = "stopping" => aborted
    /\ NodeFinished(j, stage)

FailStep(j) ==
  \E explained \in BOOLEAN : job[j] \in Processing /\ NodeFailed(j, explained)

LEMMA JobStepCases ==
  ASSUME NEW j \in Job, JobStep(j)
  PROVE  \/ FetchNodeData(j) \/ SkipNode(j) \/ ExcludeNode(j) \/ BeginNode(j)
         \/ NodeStarted(j) \/ NodeUnpaused(j) \/ NodeSettled(j)
         \/ FinishStep(j) \/ FailStep(j)
BY DEF JobStep, PausedNodeAborted, NodeReturned, NodeThrew, FrozenNodeReplayed,
       FinishStep, FailStep, Processing

(***************************************************************************)
(* Types.                                                                  *)
(***************************************************************************)
LEMMA AdvanceType ==
  ASSUME NEW j, NEW added, NEW stage \in Stage,
         job \in [Job -> Stage], Advance(j, stage, added)
  PROVE  job' \in [Job -> Stage]
BY DEF Advance, Stage, Waiting

(* A job that leaves the queue takes a free slot; nothing else takes one. *)
LEMMA SlotKept ==
  ASSUME IsFiniteSet(Active), Cardinality(Active) <= NodeConcurrency,
         Active' \subseteq Active
  PROVE  IsFiniteSet(Active') /\ Cardinality(Active') <= NodeConcurrency
<1>1. IsFiniteSet(Active') /\ Cardinality(Active') <= Cardinality(Active)
  BY FS_Subset
<1>2. Cardinality(Active) \in Nat /\ Cardinality(Active') \in Nat
  BY <1>1, FS_CardinalityType
<1>. QED BY <1>1, <1>2, ProcessorAssumption

LEMMA SlotTaken ==
  ASSUME IsFiniteSet(Active), HasFreeSlot, NEW j, Active' \subseteq Active \cup {j}
  PROVE  IsFiniteSet(Active') /\ Cardinality(Active') <= NodeConcurrency
<1>1. /\ IsFiniteSet(Active \cup {j})
      /\ Cardinality(Active \cup {j}) <= Cardinality(Active) + 1
  <2>1. Cardinality(Active) \in Nat
    BY FS_CardinalityType
  <2>2. /\ IsFiniteSet(Active \cup {j})
        /\ \/ Cardinality(Active \cup {j}) = Cardinality(Active)
           \/ Cardinality(Active \cup {j}) = Cardinality(Active) + 1
    BY FS_AddElement
  <2>. QED BY <2>1, <2>2
<1>2. IsFiniteSet(Active') /\ Cardinality(Active') <= Cardinality(Active \cup {j})
  BY <1>1, FS_Subset
<1>3. /\ Cardinality(Active) \in Nat
      /\ Cardinality(Active') \in Nat
      /\ Cardinality(Active \cup {j}) \in Nat
  BY <1>1, <1>2, FS_CardinalityType
<1>. QED BY <1>1, <1>2, <1>3, ProcessorAssumption DEF HasFreeSlot

(* Where an advancing job leaves the set of active jobs. *)
LEMMA AdvanceActive ==
  ASSUME NEW j \in Job, NEW added, NEW stage \in Stage, Advance(j, stage, added)
  PROVE  /\ Active' \subseteq Active \cup {j}
         /\ job[j] \notin Waiting => Active' \subseteq Active
         /\ stage = "done" => Active' \subseteq Active
BY DEF Advance, Active, Waiting

(***************************************************************************)
(* TypeOK, with Active finite.                                             *)
(***************************************************************************)
TypeInv == TypeOK /\ IsFiniteSet(Active)

LEMMA NodesAreTyped == TypeInv => NodesTyped
BY DEF TypeInv, TypeOK, NodesTyped

LEMMA InitType == Init => TypeInv
<1>. SUFFICES ASSUME Init PROVE TypeInv
  OBVIOUS
<1>1. Active = {}
  BY DEF Init, Active, Waiting
<1>2. IsFiniteSet(Active) /\ Cardinality(Active) <= NodeConcurrency
  BY <1>1, FS_EmptySet, ProcessorAssumption
<1>. QED
  BY <1>2, ProcessorAssumption DEF Init, TypeInv, TypeOK, Stage, Waiting, PortValue

LEMMA JobStepType ==
  ASSUME TypeInv, NEW j \in Job, JobStep(j)
  PROVE  TypeInv'
<1>0. NodeOf(j) \in Node
  BY JobNode
<1>. USE DEF TypeInv
<1>1. CASE FetchNodeData(j)
  <2>1. PICK stage, added :
           stage \in {"done", "fetched"} /\ Advance(j, stage, added)
    BY <1>1 DEF FetchNodeData
  <2>2. job' \in [Job -> Stage]
    BY <2>1, AdvanceType DEF TypeOK, Stage, Waiting
  <2>3. IsFiniteSet(Active') /\ Cardinality(Active') <= NodeConcurrency
    <3>1. HasFreeSlot
      BY <1>1 DEF FetchNodeData
    <3>. QED BY <2>1, <3>1, AdvanceActive, SlotTaken DEF Stage, Waiting
  <2>4. queuedNodes' \subseteq Node
    BY <1>0, <1>1 DEF FetchNodeData, TypeOK
  <2>. QED
    BY <1>1, <2>2, <2>3, <2>4 DEF FetchNodeData, TypeOK, runVars, dataVars
<1>2. CASE SkipNode(j)
  <2>1. job' \in [Job -> Stage]
    BY <1>2, AdvanceType DEF SkipNode, TypeOK, Stage, Waiting
  <2>2. IsFiniteSet(Active') /\ Cardinality(Active') <= NodeConcurrency
    BY <1>2, AdvanceActive, SlotKept DEF SkipNode, TypeOK, Stage, Waiting
  <2>. QED BY <1>2, <2>1, <2>2 DEF SkipNode, TypeOK, runVars, dataVars
<1>3. CASE ExcludeNode(j)
  <2>1. job' \in [Job -> Stage]
    BY <1>3, AdvanceType DEF ExcludeNode, StoreExclusion, TypeOK, Stage, Waiting
  <2>2. IsFiniteSet(Active') /\ Cardinality(Active') <= NodeConcurrency
    BY <1>3, AdvanceActive, SlotKept DEF ExcludeNode, StoreExclusion, TypeOK, Stage, Waiting
  <2>3. portValue' \in [Connection -> PortValue]
    BY <1>0, <1>3, OutputsType DEF ExcludeNode, StoreExclusion, TypeOK
  <2>. QED
    BY <1>0, <1>3, <2>1, <2>2, <2>3 DEF ExcludeNode, StoreExclusion, TypeOK, runVars, Emit
<1>4. CASE BeginNode(j)
  <2>1. PICK stage \in {"stopping", "starting"} : Advance(j, stage, {})
    BY <1>4 DEF BeginNode
  <2>2. job' \in [Job -> Stage]
    BY <2>1, AdvanceType DEF TypeOK, Stage, Holding
  <2>3. IsFiniteSet(Active') /\ Cardinality(Active') <= NodeConcurrency
    <3>1. stage \in Stage
      BY DEF Stage, Holding
    <3>2. CASE job[j] = "fetched"
      BY <2>1, <3>1, <3>2, AdvanceActive, SlotKept DEF TypeOK, Waiting
    <3>3. CASE HasFreeSlot
      BY <2>1, <3>1, <3>3, AdvanceActive, SlotTaken
    <3>. QED BY <1>4, <3>2, <3>3 DEF BeginNode, AtTry
  <2>4. /\ erroredNodes' \subseteq Node
        /\ nodeResults' \subseteq Node
        /\ portValue' \in [Connection -> PortValue]
        /\ lifecycle' \in [Node -> {"none", "started", "finished", "errored", "excluded"}]
    <3>1. CASE aborted
      BY <1>0, <1>4, <3>1, NodeErroredType, NodesAreTyped DEF BeginNode
    <3>2. CASE ~ aborted
      BY <1>4, <3>2 DEF BeginNode, TypeOK, Emit
    <3>. QED BY <3>1, <3>2
  <2>. QED
    BY <1>0, <1>4, <2>2, <2>3, <2>4 DEF BeginNode, TypeOK, runVars
<1>5. CASE NodeStarted(j) \/ NodeUnpaused(j)
  <2>1. PICK stage \in {"running", "paused"} : Advance(j, stage, {})
    BY <1>5 DEF NodeStarted, NodeUnpaused
  <2>2. job' \in [Job -> Stage]
    BY <2>1, AdvanceType DEF TypeOK, Stage, Holding
  <2>3. IsFiniteSet(Active') /\ Cardinality(Active') <= NodeConcurrency
    <3>1. stage \in Stage
      BY DEF Stage, Holding
    <3>2. job[j] \notin Waiting
      BY <1>5 DEF NodeStarted, NodeUnpaused, Waiting
    <3>. QED BY <2>1, <3>1, <3>2, AdvanceActive, SlotKept DEF TypeOK
  <2>. QED
    BY <1>5, <2>2, <2>3 DEF NodeStarted, NodeUnpaused, TypeOK, runVars, dataVars
<1>6. CASE NodeSettled(j)
  <2>1. PICK added : Advance(j, "done", added)
    BY <1>6 DEF NodeSettled
  <2>2. job' \in [Job -> Stage]
    BY <2>1, AdvanceType DEF TypeOK, Stage, Waiting
  <2>3. IsFiniteSet(Active') /\ Cardinality(Active') <= NodeConcurrency
    BY <2>1, AdvanceActive, SlotKept DEF TypeOK, Stage, Waiting
  <2>. QED BY <1>0, <1>6, <2>2, <2>3 DEF NodeSettled, TypeOK, runVars
<1>7. CASE FinishStep(j)
  <2>1. PICK stage \in {"settling", "stopping"} :
           job[j] \in Processing /\ NodeFinished(j, stage)
    BY <1>7 DEF FinishStep
  <2>2. job' \in [Job -> Stage]
    BY <2>1, AdvanceType DEF NodeFinished, StoreOutputs, TypeOK, Stage, Holding
  <2>3. IsFiniteSet(Active') /\ Cardinality(Active') <= NodeConcurrency
    <3>1. stage \in Stage /\ job[j] \notin Waiting
      BY <2>1 DEF Stage, Holding, Processing, Waiting
    <3>. QED BY <2>1, <3>1, AdvanceActive, SlotKept DEF NodeFinished, StoreOutputs, TypeOK
  <2>4. portValue' \in [Connection -> PortValue]
    BY <1>0, <2>1, OutputsType DEF NodeFinished, StoreOutputs, TypeOK
  <2>. QED
    BY <1>0, <2>1, <2>2, <2>3, <2>4 DEF NodeFinished, StoreOutputs, TypeOK, runVars, Emit
<1>8. CASE FailStep(j)
  <2>1. PICK explained \in BOOLEAN :
           job[j] \in Processing /\ NodeFailed(j, explained)
    BY <1>8 DEF FailStep
  <2>2. PICK stage \in {"settling", "stopping"} : Advance(j, stage, {})
    BY <2>1 DEF NodeFailed
  <2>3. job' \in [Job -> Stage]
    BY <2>2, AdvanceType DEF TypeOK, Stage, Holding
  <2>4. IsFiniteSet(Active') /\ Cardinality(Active') <= NodeConcurrency
    <3>1. stage \in Stage /\ job[j] \notin Waiting
      BY <2>1 DEF Stage, Holding, Processing, Waiting
    <3>. QED BY <2>2, <3>1, AdvanceActive, SlotKept DEF TypeOK
  <2>5. /\ erroredNodes' \subseteq Node
        /\ nodeResults' \subseteq Node
        /\ portValue' \in [Connection -> PortValue]
        /\ lifecycle' \in [Node -> {"none", "started", "finished", "errored", "excluded"}]
    BY <1>0, <2>1, NodeErroredType, NodesAreTyped DEF NodeFailed
  <2>. QED BY <2>1, <2>3, <2>4, <2>5 DEF NodeFailed, TypeOK, runVars
<1>. QED
  BY <1>1, <1>2, <1>3, <1>4, <1>5, <1>6, <1>7, <1>8, JobStepCases

(* The envelope and the host leave the jobs alone, or move jobs that hold no
   slot and jobs that keep theirs. *)
LEMMA RunStepType ==
  ASSUME TypeInv, GraphStep \/ Pause \/ Resume \/ Abort \/ RunEnded
  PROVE  TypeInv'
<1>. USE DEF TypeInv
<1>1. CASE BeginDraining /\ runPhase' = "draining"
  <2>1. job' \in [Job -> Stage]
    BY <1>1 DEF BeginDraining, TypeOK, Stage, Waiting
  <2>2. Active' \subseteq Active
    BY <1>1 DEF BeginDraining, Active, Waiting
  <2>3. IsFiniteSet(Active') /\ Cardinality(Active') <= NodeConcurrency
    BY <2>2, SlotKept DEF TypeOK
  <2>. QED BY <1>1, <2>1, <2>3 DEF BeginDraining, TypeOK, dataVars
<1>2. CASE Resume
  <2>1. job' \in [Job -> Stage]
    BY <1>2 DEF Resume, TypeOK, Stage, Holding
  <2>2. Active' \subseteq Active
    BY <1>2 DEF Resume, Active, Waiting
  <2>3. IsFiniteSet(Active') /\ Cardinality(Active') <= NodeConcurrency
    BY <2>2, SlotKept DEF TypeOK
  <2>. QED BY <1>2, <2>1, <2>3 DEF Resume, TypeOK, dataVars
<1>3. CASE UNCHANGED job /\ UNCHANGED <<queuedNodes, currentlyProcessing, dataVars>>
  <2>1. Active' = Active
    BY <1>3 DEF Active
  <2>2. /\ runPhase' \in {"starting", "paused", "resumed", "draining", "erroring",
                          "resolved", "rejected"}
        /\ isPaused' \in BOOLEAN
        /\ aborted' \in BOOLEAN
        /\ abortSuccessfully' \in BOOLEAN
    BY DEF GraphStep, GraphStarted, GraphUnpaused, PausedGraphAborted, GraphDrained, RunResult,
           GraphErrorEmitted, BeginDraining, Pause, Resume, Abort, RunEnded, vars,
           runVars, TypeOK
  <2>. QED BY <1>3, <2>1, <2>2 DEF TypeOK, dataVars
<1>. QED
  BY <1>1, <1>2, <1>3
  DEF GraphStep, GraphStarted, GraphUnpaused, PausedGraphAborted, GraphDrained, RunResult,
      GraphErrorEmitted, BeginDraining, Pause, Abort, RunEnded, vars, runVars

LEMMA TypeStep == TypeInv /\ [Next]_vars => TypeInv'
<1>. SUFFICES ASSUME TypeInv, [Next]_vars PROVE TypeInv'
  OBVIOUS
<1>1. CASE \E j \in Job : JobStep(j)
  BY <1>1, JobStepType
<1>2. CASE GraphStep \/ Pause \/ Resume \/ Abort \/ RunEnded
  BY <1>2, RunStepType
<1>3. CASE UNCHANGED vars
  <2>1. Active' = Active
    BY <1>3 DEF vars, Active
  <2>. QED BY <1>3, <2>1 DEF vars, runVars, dataVars, TypeInv, TypeOK
<1>. QED BY <1>1, <1>2, <1>3 DEF Next

(* Every variable has its type, and the queue is never over its concurrency. *)
THEOREM TypeCorrect == Spec => []TypeOK
<1>1. Spec => []TypeInv
  BY InitType, TypeStep, PTL DEF Spec
<1>2. TypeInv => TypeOK
  BY DEF TypeInv
<1>. QED BY <1>1, <1>2, PTL

-----------------------------------------------------------------------------
(***************************************************************************)
(* The safety properties of GraphProcessor, proved from parts of IInv that *)
(* are inductive one on top of the other.                                  *)
(***************************************************************************)

(***************************************************************************)
(* What every step of a job does to the jobs.                              *)
(***************************************************************************)
JobsInv == TypeInv /\ PhaseInv /\ FreshInv /\ OneJobPerNode

(* The jobs a node queues are jobs about its neighbours. *)
LEMMA AddedJobs ==
  ASSUME NEW n \in Node
  PROVE  /\ FetchInputs(n) \subseteq Job
         /\ PushOutputs(n) \subseteq Job
BY DEF Job

LEMMA FreshFetch ==
  ASSUME FreshInv, NEW n \in Node, n \notin queuedNodes
  PROVE  \A k \in FetchInputs(n) : job[k] = "none"
BY DEF FreshInv, FetchInputs

LEMMA FreshPush ==
  ASSUME FreshInv, NEW n \in Node, n \notin visitedNodes \/ n \in currentlyProcessing
  PROVE  \A k \in PushOutputs(n) : job[k] = "none"
BY DEF FreshInv, PushOutputs

(* A held node is in currentlyProcessing, and by one job only. *)
LEMMA HeldNode ==
  ASSUME OneJobPerNode, NEW j \in Job, job[j] \in Holding
  PROVE  /\ NodeOf(j) \in currentlyProcessing
         /\ \A k \in Job : job[k] \in Holding /\ NodeOf(k) = NodeOf(j) => k = j
BY DEF OneJobPerNode

(* The jobs after a step: the one that moved, those it added, the others. *)
Moves(j, stage, added) ==
  /\ job[j] \notin {"none", "done"}
  /\ j \notin added
  /\ added \subseteq Job
  /\ \A k \in added : job[k] = "none" /\ job'[k] = "queued"
  /\ job'[j] = stage
  /\ \A k \in Job \ (added \cup {j}) : job'[k] = job[k]

LEMMA AdvanceMoves ==
  ASSUME NEW j \in Job, NEW stage, NEW added, Advance(j, stage, added),
         job[j] \notin {"none", "done"},
         added \subseteq Job, \A k \in added : job[k] = "none"
  PROVE  Moves(j, stage, added)
BY DEF Advance, Moves

(***************************************************************************)
(* OneJobPerNode: a job keeps its node, takes a free one or lets it go.    *)
(***************************************************************************)
LEMMA HeldAfter ==
  ASSUME NEW j \in Job, NEW stage, NEW added, Moves(j, stage, added)
  PROVE  \A k \in Job :
           job'[k] \in Holding <=> IF k = j THEN stage \in Holding ELSE job[k] \in Holding
BY DEF Moves, Holding

LEMMA HoldStay ==
  ASSUME OneJobPerNode, NEW j \in Job, NEW stage, NEW added, Moves(j, stage, added),
         job[j] \in Holding <=> stage \in Holding, UNCHANGED currentlyProcessing
  PROVE  OneJobPerNode'
<1>1. \A k \in Job : job'[k] \in Holding <=> job[k] \in Holding
  BY HeldAfter
<1>2. {k \in Job : job'[k] \in Holding} = {k \in Job : job[k] \in Holding}
  BY <1>1
<1>. QED BY <1>1, <1>2 DEF OneJobPerNode

LEMMA HoldEnter ==
  ASSUME OneJobPerNode, NEW j \in Job, NEW stage, NEW added, Moves(j, stage, added),
         job[j] \notin Holding, stage \in Holding, NodeOf(j) \notin currentlyProcessing,
         currentlyProcessing' = currentlyProcessing \cup {NodeOf(j)}
  PROVE  OneJobPerNode'
<1>1. \A k \in Job : job'[k] \in Holding <=> k = j \/ job[k] \in Holding
  BY HeldAfter
<1>2. {k \in Job : job'[k] \in Holding} = {k \in Job : job[k] \in Holding} \cup {j}
  BY <1>1
<1>3. \A k \in Job : job[k] \in Holding => NodeOf(k) # NodeOf(j)
  BY HeldNode
<1>4. \A k, l \in Job :
        job'[k] \in Holding /\ job'[l] \in Holding /\ NodeOf(k) = NodeOf(l) => k = l
  BY <1>1, <1>3 DEF OneJobPerNode
<1>5. currentlyProcessing' = {NodeOf(k) : k \in {l \in Job : job'[l] \in Holding}}
  BY <1>2 DEF OneJobPerNode
<1>. QED BY <1>4, <1>5 DEF OneJobPerNode

LEMMA HoldLeave ==
  ASSUME OneJobPerNode, NEW j \in Job, NEW stage, NEW added, Moves(j, stage, added),
         job[j] \in Holding, stage \notin Holding,
         currentlyProcessing' = currentlyProcessing \ {NodeOf(j)}
  PROVE  OneJobPerNode'
<1>1. \A k \in Job : job'[k] \in Holding <=> k # j /\ job[k] \in Holding
  BY HeldAfter
<1>2. {k \in Job : job'[k] \in Holding} = {k \in Job : job[k] \in Holding} \ {j}
  BY <1>1
<1>3. \A k \in Job : job[k] \in Holding /\ k # j => NodeOf(k) # NodeOf(j)
  BY HeldNode
<1>4. \A k, l \in Job :
        job'[k] \in Holding /\ job'[l] \in Holding /\ NodeOf(k) = NodeOf(l) => k = l
  BY <1>1 DEF OneJobPerNode
<1>5. currentlyProcessing' = {NodeOf(k) : k \in {l \in Job : job'[l] \in Holding}}
  BY <1>2, <1>3 DEF OneJobPerNode
<1>. QED BY <1>4, <1>5 DEF OneJobPerNode

(***************************************************************************)
(* Each step of a job, seen as a move.                                     *)
(***************************************************************************)
LEMMA FetchMoves ==
  ASSUME JobsInv, NEW j \in Job, FetchNodeData(j)
  PROVE  \/ /\ Moves(j, "done", {})
            /\ UNCHANGED queuedNodes
            /\ FetchIsPointless(NodeOf(j))
         \/ /\ Moves(j, "fetched", FetchInputs(NodeOf(j)))
            /\ queuedNodes' = queuedNodes \cup {NodeOf(j)}
            /\ NodeOf(j) \notin queuedNodes
<1>1. job[j] = "queued"
  BY DEF FetchNodeData
<1>2. CASE FetchIsPointless(NodeOf(j))
  BY <1>1, <1>2, AdvanceMoves DEF FetchNodeData
<1>3. CASE ~ FetchIsPointless(NodeOf(j))
  <2>1. NodeOf(j) \notin queuedNodes
    BY <1>3 DEF FetchIsPointless
  <2>2. \A k \in FetchInputs(NodeOf(j)) : k \in Job /\ job[k] = "none"
    BY <2>1, JobNode, AddedJobs, FreshFetch DEF JobsInv
  <2>3. Advance(j, "fetched", FetchInputs(NodeOf(j)))
    BY <1>3 DEF FetchNodeData
  <2>4. Moves(j, "fetched", FetchInputs(NodeOf(j)))
    BY <1>1, <2>2, <2>3, AdvanceMoves
  <2>. QED BY <1>3, <2>1, <2>4 DEF FetchNodeData
<1>. QED BY <1>2, <1>3

LEMMA SkipMoves ==
  ASSUME NEW j \in Job, SkipNode(j)
  PROVE  Moves(j, "done", {})
BY AdvanceMoves DEF SkipNode, AtTry

LEMMA ExcludeMoves ==
  ASSUME JobsInv, NEW j \in Job, ExcludeNode(j)
  PROVE  /\ Moves(j, "done", PushOutputs(NodeOf(j)))
         /\ UNCHANGED currentlyProcessing
<1>1. NodeOf(j) \notin currentlyProcessing \cup visitedNodes
  BY DEF ExcludeNode, StoreExclusion, ShouldSkipNodeProcessing
<1>2. \A k \in PushOutputs(NodeOf(j)) : k \in Job /\ job[k] = "none"
  BY <1>1, JobNode, AddedJobs, FreshPush DEF JobsInv
<1>3. Moves(j, "done", PushOutputs(NodeOf(j)))
  BY <1>2, AdvanceMoves DEF ExcludeNode, StoreExclusion, AtTry
<1>. QED BY <1>1, <1>3 DEF ExcludeNode, StoreExclusion

LEMMA BeginMoves ==
  ASSUME NEW j \in Job, BeginNode(j)
  PROVE  \E stage \in {"starting", "stopping"} : Moves(j, stage, {})
BY AdvanceMoves DEF BeginNode, AtTry

LEMMA HeldMoves ==
  ASSUME NEW j \in Job,
         NodeStarted(j) \/ NodeUnpaused(j) \/ FinishStep(j) \/ FailStep(j)
  PROVE  /\ job[j] \in Processing
         /\ \E stage \in {"running", "paused", "settling", "stopping"} : Moves(j, stage, {})
         /\ UNCHANGED currentlyProcessing
<1>1. CASE NodeStarted(j) \/ NodeUnpaused(j)
  BY <1>1, AdvanceMoves DEF NodeStarted, NodeUnpaused, Processing
<1>2. CASE FinishStep(j)
  BY <1>2, AdvanceMoves DEF FinishStep, NodeFinished, StoreOutputs, Processing
<1>3. CASE FailStep(j)
  BY <1>3, AdvanceMoves DEF FailStep, NodeFailed, Processing
<1>. QED BY <1>1, <1>2, <1>3

LEMMA SettledMoves ==
  ASSUME JobsInv, NEW j \in Job, NodeSettled(j)
  PROVE  \/ job[j] = "settling" /\ Moves(j, "done", PushOutputs(NodeOf(j)))
         \/ job[j] = "stopping" /\ Moves(j, "done", {})
<1>1. CASE job[j] = "stopping"
  BY <1>1, AdvanceMoves DEF NodeSettled
<1>2. CASE job[j] = "settling"
  <2>1. NodeOf(j) \in currentlyProcessing
    BY <1>2, HeldNode DEF JobsInv, Holding
  <2>2. \A k \in PushOutputs(NodeOf(j)) : k \in Job /\ job[k] = "none"
    BY <2>1, JobNode, AddedJobs, FreshPush DEF JobsInv
  <2>. QED BY <1>2, <2>2, AdvanceMoves DEF NodeSettled
<1>. QED BY <1>1, <1>2 DEF NodeSettled

(***************************************************************************)
(* FreshInv and PhaseInv.                                                  *)
(***************************************************************************)
LEMMA FreshKept ==
  ASSUME FreshInv, NEW j \in Job, NEW stage, NEW added, Moves(j, stage, added),
         \A n \in Node : (\E m \in Node : <<"fetch", n, m>> \in added) => n \in queuedNodes',
         \A n \in Node : (\E m \in Node : <<"push", n, m>> \in added) =>
                           n \in visitedNodes' /\ n \notin currentlyProcessing',
         queuedNodes \subseteq queuedNodes',
         visitedNodes \subseteq visitedNodes',
         \A n \in visitedNodes : n \in currentlyProcessing' => n \in currentlyProcessing
  PROVE  FreshInv'
<1>1. ASSUME NEW n \in Node, n \notin queuedNodes', NEW m \in InputNodesTo(n)
      PROVE  job'[<<"fetch", n, m>>] = "none"
  <2>1. <<"fetch", n, m>> \in Job /\ m \in Node
    BY <1>1 DEF Job, FetchInputs, InputNodesTo
  <2>2. job[<<"fetch", n, m>>] = "none" /\ <<"fetch", n, m>> \notin added
    BY <1>1, <2>1 DEF FreshInv
  <2>. QED BY <2>1, <2>2 DEF Moves
<1>2. ASSUME NEW n \in Node, n \notin visitedNodes' \/ n \in currentlyProcessing',
             NEW m \in OutputNodesFrom(n)
      PROVE  job'[<<"push", n, m>>] = "none"
  <2>1. <<"push", n, m>> \in Job /\ m \in Node
    BY <1>2 DEF Job, PushOutputs, OutputNodesFrom
  <2>2. job[<<"push", n, m>>] = "none" /\ <<"push", n, m>> \notin added
    BY <1>2, <2>1 DEF FreshInv
  <2>. QED BY <2>1, <2>2 DEF Moves
<1>. QED BY <1>1, <1>2 DEF FreshInv

LEMMA FreshQuiet ==
  ASSUME FreshInv, NEW j \in Job, NEW stage, Moves(j, stage, {}),
         queuedNodes \subseteq queuedNodes',
         visitedNodes \subseteq visitedNodes',
         \A n \in visitedNodes : n \in currentlyProcessing' => n \in currentlyProcessing
  PROVE  FreshInv'
<1>. DEFINE added == {}
<1>1. Moves(j, stage, added)
  OBVIOUS
<1>2. \A n \in Node : ~ \E m \in Node : <<"fetch", n, m>> \in added
  OBVIOUS
<1>3. \A n \in Node : ~ \E m \in Node : <<"push", n, m>> \in added
  OBVIOUS
<1>. HIDE DEF added
<1>. QED BY <1>1, <1>2, <1>3, FreshKept

LEMMA FreshJobStep ==
  ASSUME JobsInv, NEW j \in Job, JobStep(j)
  PROVE  FreshInv'
<1>0. NodeOf(j) \in Node /\ FreshInv
  BY JobNode DEF JobsInv
<1>1. CASE FetchNodeData(j)
  <2>1. UNCHANGED <<currentlyProcessing, visitedNodes>>
    BY <1>1 DEF FetchNodeData, dataVars
  <2>2. CASE Moves(j, "done", {}) /\ UNCHANGED queuedNodes
    BY <1>0, <2>1, <2>2, FreshQuiet
  <2>3. CASE /\ Moves(j, "fetched", FetchInputs(NodeOf(j)))
             /\ queuedNodes' = queuedNodes \cup {NodeOf(j)}
    <3>1. \A n, m : /\ <<"fetch", n, m>> \in FetchInputs(NodeOf(j)) => n = NodeOf(j)
                    /\ <<"push", n, m>> \notin FetchInputs(NodeOf(j))
      BY DEF FetchInputs
    <3>2. NodeOf(j) \in queuedNodes' /\ queuedNodes \subseteq queuedNodes'
      BY <2>3
    <3>. QED BY <1>0, <2>1, <2>3, <3>1, <3>2, FreshKept
  <2>. QED BY <1>1, <2>2, <2>3, FetchMoves
<1>2. CASE SkipNode(j)
  BY <1>0, <1>2, SkipMoves, FreshQuiet DEF SkipNode, dataVars
<1>3. CASE ExcludeNode(j)
  <2>1. /\ NodeOf(j) \in visitedNodes' /\ NodeOf(j) \notin currentlyProcessing'
        /\ visitedNodes \subseteq visitedNodes'
        /\ UNCHANGED queuedNodes
    BY <1>3 DEF ExcludeNode, StoreExclusion
  <2>2. Moves(j, "done", PushOutputs(NodeOf(j))) /\ UNCHANGED currentlyProcessing
    BY <1>3, ExcludeMoves
  <2>3. \A n, m : /\ <<"push", n, m>> \in PushOutputs(NodeOf(j)) => n = NodeOf(j)
                  /\ <<"fetch", n, m>> \notin PushOutputs(NodeOf(j))
    BY DEF PushOutputs
  <2>. QED BY <1>0, <2>1, <2>2, <2>3, FreshKept
<1>4. CASE BeginNode(j)
  <2>1. /\ NodeOf(j) \notin visitedNodes
        /\ currentlyProcessing' = currentlyProcessing \cup {NodeOf(j)}
        /\ UNCHANGED <<queuedNodes, visitedNodes>>
    BY <1>4 DEF BeginNode, ShouldSkipNodeProcessing
  <2>2. PICK stage : Moves(j, stage, {})
    BY <1>4, BeginMoves
  <2>. QED BY <1>0, <2>1, <2>2, FreshQuiet
<1>5. CASE NodeStarted(j) \/ NodeUnpaused(j) \/ FinishStep(j) \/ FailStep(j)
  <2>1. UNCHANGED queuedNodes /\ visitedNodes \subseteq visitedNodes'
    BY <1>5 DEF NodeStarted, NodeUnpaused, FinishStep, FailStep, NodeFinished, StoreOutputs, NodeFailed,
                dataVars
  <2>2. PICK stage : Moves(j, stage, {})
    BY <1>5, HeldMoves
  <2>3. UNCHANGED currentlyProcessing
    BY <1>5, HeldMoves
  <2>. QED BY <1>0, <2>1, <2>2, <2>3, FreshQuiet
<1>6. CASE NodeSettled(j)
  <2>1. /\ NodeOf(j) \in visitedNodes' /\ NodeOf(j) \notin currentlyProcessing'
        /\ visitedNodes \subseteq visitedNodes'
        /\ currentlyProcessing' \subseteq currentlyProcessing
        /\ UNCHANGED queuedNodes
    BY <1>6 DEF NodeSettled
  <2>2. PICK added \in {{}, PushOutputs(NodeOf(j))} : Moves(j, "done", added)
    BY <1>6, SettledMoves
  <2>3. \A n, m : <<"fetch", n, m>> \notin added
    BY DEF PushOutputs
  <2>4. \A n, m : <<"push", n, m>> \in added => n = NodeOf(j)
    BY DEF PushOutputs
  <2>. QED BY <1>0, <2>1, <2>2, <2>3, <2>4, FreshKept
<1>. QED BY <1>1, <1>2, <1>3, <1>4, <1>5, <1>6, JobStepCases

(* A job can only move while the queue is being drained. *)
LEMMA JobStepMoves ==
  ASSUME JobsInv, NEW j \in Job, JobStep(j)
  PROVE  /\ \E stage, added : Moves(j, stage, added)
         /\ runPhase = "draining"
         /\ UNCHANGED runVars
<1>1. \E stage, added : Moves(j, stage, added)
  BY JobStepCases, FetchMoves, SkipMoves, ExcludeMoves, BeginMoves, HeldMoves, SettledMoves
<1>2. job[j] \notin {"none", "done"}
  BY <1>1 DEF Moves
<1>3. runPhase = "draining"
  BY <1>2 DEF JobsInv, PhaseInv, QueueIdle, TypeInv, TypeOK
<1>4. UNCHANGED runVars
  BY JobStepCases
  DEF FetchNodeData, SkipNode, ExcludeNode, StoreExclusion, BeginNode, NodeStarted, NodeUnpaused,
      NodeSettled, FinishStep, FailStep, NodeFinished, StoreOutputs, NodeFailed
<1>. QED BY <1>1, <1>3, <1>4

LEMMA PhaseJobStep ==
  ASSUME JobsInv, NEW j \in Job, JobStep(j)
  PROVE  PhaseInv'
BY JobStepMoves DEF PhaseInv, runVars, JobsInv

LEMMA HoldJobStep ==
  ASSUME JobsInv, NEW j \in Job, JobStep(j)
  PROVE  OneJobPerNode'
<1>0. OneJobPerNode
  BY DEF JobsInv
<1>1. CASE FetchNodeData(j)
  <2>1. /\ job[j] \notin Holding
        /\ UNCHANGED currentlyProcessing
    BY <1>1 DEF FetchNodeData, Holding
  <2>2. \E stage, added : stage \in {"done", "fetched"} /\ Moves(j, stage, added)
    BY <1>1, FetchMoves
  <2>. QED BY <1>0, <2>1, <2>2, HoldStay DEF Holding
<1>2. CASE SkipNode(j)
  BY <1>0, <1>2, SkipMoves, HoldStay DEF SkipNode, AtTry, Holding
<1>3. CASE ExcludeNode(j)
  BY <1>0, <1>3, ExcludeMoves, HoldStay DEF ExcludeNode, StoreExclusion, AtTry, Holding
<1>4. CASE BeginNode(j)
  BY <1>0, <1>4, BeginMoves, HoldEnter
  DEF BeginNode, AtTry, ShouldSkipNodeProcessing, Holding
<1>5. CASE NodeStarted(j) \/ NodeUnpaused(j) \/ FinishStep(j) \/ FailStep(j)
  <2>1. job[j] \in Holding
    BY <1>5, HeldMoves DEF Processing, Holding
  <2>. QED BY <1>0, <1>5, <2>1, HeldMoves, HoldStay DEF Holding
<1>6. CASE NodeSettled(j)
  BY <1>0, <1>6, SettledMoves, HoldLeave DEF NodeSettled, Holding
<1>. QED BY <1>1, <1>2, <1>3, <1>4, <1>5, <1>6, JobStepCases

(***************************************************************************)
(* Steps of the envelope and of the host, in three kinds: the start nodes  *)
(* are queued, paused jobs are resumed, or no job changes.                 *)
(***************************************************************************)
Starting == BeginDraining /\ runPhase \in {"starting", "paused", "resumed"}

Resuming ==
  /\ job' = [k \in Job |-> IF job[k] = "paused" THEN "resumed" ELSE job[k]]
  /\ runPhase' = (IF runPhase = "paused" THEN "resumed" ELSE runPhase)
  /\ UNCHANGED <<aborted, abortSuccessfully>>

(* Nothing but the phase and the host's flags changes. *)
Watching ==
  /\ UNCHANGED job
  /\ \/ UNCHANGED runPhase
     \/ runPhase' \in {"paused", "rejected"} /\ runPhase \in {"starting", "paused", "resumed"}
     \/ runPhase = "draining" /\ QueueIdle /\ runPhase' \in {"erroring", "resolved"}
     \/ runPhase = "erroring" /\ runPhase' = "rejected"
  /\ aborted => aborted'
  /\ abortSuccessfully' => aborted' \/ abortSuccessfully

RunStep == Starting \/ Resuming \/ Watching

LEMMA RunStepCases ==
  ASSUME TypeInv, GraphStep \/ Pause \/ Resume \/ Abort \/ RunEnded \/ UNCHANGED vars
  PROVE  RunStep /\ UNCHANGED <<queuedNodes, currentlyProcessing, dataVars>>
<1>1. CASE GraphStep
  BY <1>1 DEF GraphStep, GraphStarted, GraphUnpaused, PausedGraphAborted, GraphDrained, RunResult,
              GraphErrorEmitted, BeginDraining, RunStep, Starting, Watching
<1>2. CASE Resume
  BY <1>2 DEF Resume, RunStep, Resuming
<1>3. CASE Pause \/ Abort
  BY <1>3 DEF Pause, Abort, RunStep, Watching
<1>4. CASE RunEnded \/ UNCHANGED vars
  BY <1>4 DEF RunEnded, vars, runVars, RunStep, Watching
<1>. QED BY <1>1, <1>2, <1>3, <1>4

(* No job leaves "none" but the start jobs, and none takes or leaves a node. *)
LEMMA RunStepJobs ==
  ASSUME TypeInv, PhaseInv, RunStep
  PROVE  \A k \in Job :
           /\ job'[k] \in Holding <=> job[k] \in Holding
           /\ job[k] = "none" /\ k \notin StartJobs => job'[k] = "none"
<1>1. CASE Starting
  BY <1>1 DEF Starting, BeginDraining, PhaseInv, Holding
<1>2. CASE Resuming
  BY <1>2 DEF Resuming, Holding, TypeInv, TypeOK
<1>3. CASE Watching
  BY <1>3 DEF Watching
<1>. QED BY <1>1, <1>2, <1>3 DEF RunStep

LEMMA JobsRunStep ==
  ASSUME JobsInv, RunStep, UNCHANGED <<queuedNodes, currentlyProcessing, visitedNodes>>
  PROVE  PhaseInv' /\ FreshInv' /\ OneJobPerNode'
<1>. USE DEF JobsInv
<1>1. PhaseInv'
  <2>1. CASE Starting
    BY <2>1 DEF Starting, BeginDraining, PhaseInv
  <2>2. CASE Resuming
    BY <2>2 DEF Resuming, PhaseInv, QueueIdle
  <2>3. CASE Watching
    BY <2>3 DEF Watching, PhaseInv, QueueIdle
  <2>. QED BY <2>1, <2>2, <2>3 DEF RunStep
<1>2. FreshInv'
  <2>1. ASSUME NEW n \in Node, NEW m \in Node
        PROVE  <<"fetch", n, m>> \notin StartJobs /\ <<"push", n, m>> \notin StartJobs
    BY DEF StartJobs
  <2>2. \A k \in Job \ StartJobs : job[k] = "none" => job'[k] = "none"
    BY RunStepJobs
  <2>3. \A n \in Node : \A m \in InputNodesTo(n) : <<"fetch", n, m>> \in Job \ StartJobs
    <3>. SUFFICES ASSUME NEW n \in Node, NEW m \in InputNodesTo(n)
                  PROVE  <<"fetch", n, m>> \in Job \ StartJobs
      OBVIOUS
    <3>1. <<"fetch", n, m>> \in FetchInputs(n) /\ m \in Node
      BY DEF FetchInputs, InputNodesTo
    <3>. QED BY <2>1, <3>1, AddedJobs
  <2>4. \A n \in Node : \A m \in OutputNodesFrom(n) : <<"push", n, m>> \in Job \ StartJobs
    <3>. SUFFICES ASSUME NEW n \in Node, NEW m \in OutputNodesFrom(n)
                  PROVE  <<"push", n, m>> \in Job \ StartJobs
      OBVIOUS
    <3>1. <<"push", n, m>> \in PushOutputs(n) /\ m \in Node
      BY DEF PushOutputs, OutputNodesFrom
    <3>. QED BY <2>1, <3>1, AddedJobs
  <2>. QED BY <2>2, <2>3, <2>4 DEF FreshInv
<1>3. OneJobPerNode'
  <2>1. \A k \in Job : job'[k] \in Holding <=> job[k] \in Holding
    BY RunStepJobs
  <2>2. {k \in Job : job'[k] \in Holding} = {k \in Job : job[k] \in Holding}
    BY <2>1
  <2>. QED BY <2>1, <2>2 DEF OneJobPerNode
<1>. QED BY <1>1, <1>2, <1>3

LEMMA InitJobs == Init => JobsInv
<1>. SUFFICES ASSUME Init PROVE JobsInv
  OBVIOUS
<1>1. \A k \in Job : job[k] = "none"
  BY DEF Init
<1>2. FreshInv
  BY <1>1, AddedJobs DEF FreshInv, FetchInputs, PushOutputs
<1>3. {k \in Job : job[k] \in Holding} = {}
  BY <1>1 DEF Holding
<1>4. OneJobPerNode
  BY <1>1, <1>3 DEF Init, OneJobPerNode, Holding
<1>. QED BY <1>1, <1>2, <1>4, InitType DEF Init, JobsInv, PhaseInv

LEMMA JobsStep == JobsInv /\ [Next]_vars => JobsInv'
<1>. SUFFICES ASSUME JobsInv, [Next]_vars PROVE JobsInv'
  OBVIOUS
<1>1. TypeInv'
  BY TypeStep DEF JobsInv
<1>2. CASE \E j \in Job : JobStep(j)
  BY <1>1, <1>2, FreshJobStep, PhaseJobStep, HoldJobStep DEF JobsInv
<1>3. CASE GraphStep \/ Pause \/ Resume \/ Abort \/ RunEnded \/ UNCHANGED vars
  <2>1. RunStep /\ UNCHANGED <<queuedNodes, currentlyProcessing, visitedNodes>>
    BY <1>3, RunStepCases DEF JobsInv, dataVars
  <2>. QED BY <1>1, <2>1, JobsRunStep DEF JobsInv
<1>. QED BY <1>2, <1>3 DEF Next

(* currentlyProcessing is an exact lock: a node is processed by one job at a
   time, and is named there exactly while that job holds it. *)
THEOREM ProcessedOnce == Spec => []OneJobPerNode
<1>1. Spec => []JobsInv
  BY InitJobs, JobsStep, PTL DEF Spec
<1>. QED BY <1>1, PTL DEF JobsInv

(***************************************************************************)
(* LifeInv and StageInv: a step of a job is local to its node.             *)
(***************************************************************************)
LEMMA JobStepLocal ==
  ASSUME TypeInv, NEW j \in Job, JobStep(j)
  PROVE  \A p \in Node \ {NodeOf(j)} : Untouched(p)
<1>0. NodeOf(j) \in Node
  BY JobNode
<1>1. CASE FetchNodeData(j) \/ SkipNode(j) \/ NodeStarted(j) \/ NodeUnpaused(j)
  BY <1>1 DEF FetchNodeData, SkipNode, NodeStarted, NodeUnpaused, dataVars, Untouched
<1>2. CASE ExcludeNode(j)
  BY <1>0, <1>2 DEF ExcludeNode, StoreExclusion, Emit, TypeInv, TypeOK, Untouched
<1>3. CASE BeginNode(j)
  <2>1. CASE aborted
    BY <1>0, <1>3, <2>1, ErroredEvent, NodesAreTyped DEF BeginNode, Untouched
  <2>2. CASE ~ aborted
    BY <1>0, <1>3, <2>2 DEF BeginNode, Emit, TypeInv, TypeOK, Untouched
  <2>. QED BY <2>1, <2>2
<1>4. CASE NodeSettled(j)
  BY <1>0, <1>4 DEF NodeSettled, Untouched
<1>5. CASE FinishStep(j)
  BY <1>0, <1>5 DEF FinishStep, NodeFinished, StoreOutputs, Emit, TypeInv, TypeOK, Untouched
<1>6. CASE FailStep(j)
  BY <1>0, <1>6, ErroredEvent, NodesAreTyped DEF FailStep, NodeFailed, Untouched
<1>. QED BY <1>1, <1>2, <1>3, <1>4, <1>5, <1>6, JobStepCases

EventInv == JobsInv /\ LifeInv /\ StageInv

LEMMA LifeJobStep ==
  ASSUME EventInv, NEW j \in Job, JobStep(j)
  PROVE  LifeInv'
<1>. DEFINE n == NodeOf(j)
<1>. USE DEF EventInv, JobsInv
<1>0. n \in Node /\ LifeOK(n)
  BY JobNode DEF LifeInv
<1>1. ASSUME NEW p \in Node, p # n PROVE LifeOK(p)'
  <2>1. Untouched(p) /\ LifeOK(p)
    BY <1>1, JobStepLocal DEF LifeInv
  <2>. QED BY <2>1 DEF Untouched, LifeOK
<1>2. LifeOK(n)'
  <2>1. CASE FetchNodeData(j) \/ SkipNode(j) \/ NodeStarted(j) \/ NodeUnpaused(j)
    BY <1>0, <2>1 DEF FetchNodeData, SkipNode, NodeStarted, NodeUnpaused, dataVars, LifeOK
  <2>2. CASE ExcludeNode(j)
    <3>1. n \notin visitedNodes \cup erroredNodes \cup currentlyProcessing
      BY <2>2 DEF ExcludeNode, StoreExclusion, ShouldSkipNodeProcessing
    <3>2. n \in visitedNodes' /\ n \in nodeResults' /\ n \notin erroredNodes'
      BY <2>2, <3>1 DEF ExcludeNode, StoreExclusion
    <3>3. lifecycle'[n] = "excluded"
      BY <1>0, <2>2 DEF ExcludeNode, StoreExclusion, Emit, TypeInv, TypeOK
    <3>. QED BY <3>2, <3>3 DEF LifeOK
  <2>3. CASE BeginNode(j)
    <3>1. /\ n \notin visitedNodes \cup erroredNodes \cup currentlyProcessing
          /\ n \in currentlyProcessing' /\ n \notin visitedNodes'
      BY <2>3 DEF BeginNode, ShouldSkipNodeProcessing
    <3>2. n \notin nodeResults
      BY <1>0, <3>1, NoEventYet, NodesAreTyped DEF NodesOK, PhaseInv
    <3>3. CASE aborted
      <4>1. NodeErrored(n, TRUE)
        BY <2>3, <3>3 DEF BeginNode
      <4>. QED BY <1>0, <3>1, <3>2, <4>1, ErroredEvent, NodesAreTyped DEF LifeOK
    <3>4. CASE ~ aborted
      BY <1>0, <2>3, <3>1, <3>2, <3>4 DEF BeginNode, Emit, TypeInv, TypeOK, LifeOK
    <3>. QED BY <3>3, <3>4
  <2>4. CASE NodeSettled(j)
    <3>1. lifecycle[n] \in {"finished", "errored", "excluded"}
      BY <2>4 DEF NodeSettled, StageInv
    <3>. QED BY <1>0, <2>4, <3>1 DEF NodeSettled, LifeOK
  <2>5. CASE FinishStep(j)
    <3>1. lifecycle[n] = "started"
      BY <2>5 DEF FinishStep, StageInv
    <3>2. /\ n \in visitedNodes' /\ n \in nodeResults' /\ UNCHANGED erroredNodes
          /\ lifecycle'[n] = "finished"
      BY <1>0, <2>5 DEF FinishStep, NodeFinished, StoreOutputs, Emit, TypeInv, TypeOK
    <3>. QED BY <1>0, <3>1, <3>2 DEF LifeOK
  <2>6. CASE FailStep(j)
    <3>1. lifecycle[n] = "started"
      BY <2>6 DEF FailStep, StageInv
    <3>2. PICK explained \in BOOLEAN : NodeErrored(n, explained)
      BY <2>6 DEF FailStep, NodeFailed
    <3>3. UNCHANGED <<currentlyProcessing, visitedNodes>>
      BY <2>6 DEF FailStep, NodeFailed
    <3>. QED BY <1>0, <3>1, <3>2, <3>3, ErroredEvent, NodesAreTyped DEF LifeOK
  <2>. QED BY <2>1, <2>2, <2>3, <2>4, <2>5, <2>6, JobStepCases
<1>. QED BY <1>1, <1>2 DEF LifeInv

(* The stages of the other jobs go on saying what became of their nodes. *)
LEMMA OtherStages ==
  ASSUME EventInv, NEW j \in Job, JobStep(j),
         NEW k \in Job, k # j, job'[k] \in Holding
  PROVE  /\ job'[k] = job[k]
         /\ lifecycle'[NodeOf(k)] = lifecycle[NodeOf(k)]
<1>. USE DEF EventInv, JobsInv
<1>1. job'[k] = job[k]
  <2>1. PICK stage, added : Moves(j, stage, added)
    BY JobStepMoves
  <2>. QED BY <2>1 DEF Moves, Holding
<1>2. CASE NodeOf(k) # NodeOf(j)
  BY <1>1, <1>2, JobNode, JobStepLocal DEF Untouched
<1>3. CASE NodeOf(k) = NodeOf(j)
  <2>1. NodeOf(j) \in currentlyProcessing /\ job[j] \notin Holding
    BY <1>1, <1>3, HeldNode
  <2>2. FetchNodeData(j) \/ SkipNode(j)
    BY <2>1, JobStepCases, HeldMoves
    DEF ExcludeNode, StoreExclusion, BeginNode, ShouldSkipNodeProcessing, NodeSettled, Holding, Processing
  <2>. QED BY <1>1, <2>2 DEF FetchNodeData, SkipNode, dataVars
<1>. QED BY <1>2, <1>3, <1>1

(* The stage of the job that moves. *)
LEMMA OwnStage ==
  ASSUME EventInv, NEW j \in Job, JobStep(j)
  PROVE  /\ job'[j] \in Processing => lifecycle'[NodeOf(j)] = "started"
         /\ job'[j] = "settling" => lifecycle'[NodeOf(j)] \in {"finished", "errored"}
         /\ job'[j] = "stopping" =>
              aborted' /\ lifecycle'[NodeOf(j)] \in {"finished", "errored", "excluded"}
<1>. DEFINE n == NodeOf(j)
<1>. USE DEF EventInv, JobsInv
<1>0. n \in Node /\ (aborted' <=> aborted) /\ job \in [Job -> Stage]
  BY JobNode, JobStepMoves DEF runVars, TypeInv, TypeOK
<1>1. CASE FetchNodeData(j) \/ SkipNode(j) \/ ExcludeNode(j) \/ NodeSettled(j)
  <2>1. \E stage, added : stage \in {"done", "fetched"} /\ Moves(j, stage, added)
    BY <1>1, FetchMoves, SkipMoves, ExcludeMoves, SettledMoves
  <2>. QED BY <2>1 DEF Moves, Processing
<1>2. CASE BeginNode(j)
  <2>1. CASE aborted
    <3>1. NodeErrored(n, TRUE) /\ job'[j] = "stopping"
      BY <1>2, <2>1 DEF BeginNode, Advance
    <3>. QED BY <1>0, <2>1, <3>1, ErroredEvent, NodesAreTyped DEF Processing
  <2>2. CASE ~ aborted
    BY <1>0, <1>2, <2>2 DEF BeginNode, Emit, Advance, TypeInv, TypeOK, Processing
  <2>. QED BY <2>1, <2>2
<1>3. CASE NodeStarted(j) \/ NodeUnpaused(j)
  <2>1. lifecycle'[n] = "started"
    BY <1>3 DEF NodeStarted, NodeUnpaused, StageInv, Processing, dataVars
  <2>2. job'[j] \in Processing
    BY <1>3 DEF NodeStarted, NodeUnpaused, Advance, Processing
  <2>. QED BY <2>1, <2>2 DEF Processing
<1>4. CASE FinishStep(j)
  <2>1. PICK stage \in {"settling", "stopping"} :
          /\ stage = "stopping" => aborted
          /\ NodeFinished(j, stage)
    BY <1>4 DEF FinishStep
  <2>2. job'[j] = stage /\ lifecycle'[n] = "finished"
    BY <1>0, <2>1 DEF NodeFinished, StoreOutputs, Advance, Emit, TypeInv, TypeOK
  <2>. QED BY <1>0, <2>1, <2>2 DEF Processing
<1>5. CASE FailStep(j)
  <2>1. PICK explained \in BOOLEAN : NodeFailed(j, explained)
    BY <1>5 DEF FailStep
  <2>2. CASE abortSuccessfully /\ explained
    <3>1. job'[j] = "stopping" /\ lifecycle'[n] = "excluded" /\ aborted
      BY <1>0, <2>1, <2>2
      DEF NodeFailed, NodeErrored, Advance, Emit, TypeInv, TypeOK, PhaseInv
    <3>. QED BY <1>0, <3>1 DEF Processing
  <2>3. CASE ~ (abortSuccessfully /\ explained)
    <3>1. job'[j] = "settling" /\ lifecycle'[n] = "errored"
      BY <1>0, <2>1, <2>3 DEF NodeFailed, NodeErrored, Advance, Emit, TypeInv, TypeOK
    <3>. QED BY <3>1 DEF Processing
  <2>. QED BY <2>2, <2>3
<1>. QED BY <1>1, <1>2, <1>3, <1>4, <1>5, JobStepCases

LEMMA StageJobStep ==
  ASSUME EventInv, NEW j \in Job, JobStep(j)
  PROVE  StageInv'
<1>1. aborted' <=> aborted
  BY JobStepMoves DEF EventInv, runVars
<1>2. ASSUME NEW k \in Job
      PROVE  /\ job'[k] \in Processing => lifecycle'[NodeOf(k)] = "started"
             /\ job'[k] = "settling" => lifecycle'[NodeOf(k)] \in {"finished", "errored"}
             /\ job'[k] = "stopping" =>
                  aborted' /\ lifecycle'[NodeOf(k)] \in {"finished", "errored", "excluded"}
  <2>1. CASE k = j
    BY <2>1, OwnStage
  <2>2. CASE k # j /\ job'[k] \in Holding
    BY <1>1, <2>2, OtherStages DEF EventInv, StageInv
  <2>3. CASE job'[k] \notin Holding
    BY <2>3 DEF Holding, Processing
  <2>. QED BY <2>1, <2>2, <2>3
<1>. QED BY <1>2 DEF StageInv

LEMMA EventRunStep ==
  ASSUME EventInv, RunStep, UNCHANGED <<queuedNodes, currentlyProcessing, dataVars>>
  PROVE  LifeInv' /\ StageInv'
<1>. USE DEF EventInv, JobsInv
<1>1. LifeInv'
  BY DEF LifeInv, LifeOK, dataVars
<1>2. CASE Starting
  BY <1>1, <1>2 DEF Starting, BeginDraining, PhaseInv, StageInv, Processing
<1>3. CASE Resuming
  BY <1>1, <1>3 DEF Resuming, StageInv, Processing, dataVars
<1>4. CASE Watching
  BY <1>1, <1>4 DEF Watching, StageInv, dataVars
<1>. QED BY <1>1, <1>2, <1>3, <1>4 DEF RunStep

LEMMA InitEvent == Init => EventInv
<1>. SUFFICES ASSUME Init PROVE EventInv
  OBVIOUS
<1>1. LifeInv
  BY DEF Init, LifeInv, LifeOK
<1>2. StageInv
  BY DEF Init, StageInv, Processing
<1>. QED BY <1>1, <1>2, InitJobs DEF EventInv

LEMMA EventStep == EventInv /\ [Next]_vars => EventInv'
<1>. SUFFICES ASSUME EventInv, [Next]_vars PROVE EventInv'
  OBVIOUS
<1>1. JobsInv'
  BY JobsStep DEF EventInv
<1>2. CASE \E j \in Job : JobStep(j)
  BY <1>1, <1>2, LifeJobStep, StageJobStep DEF EventInv
<1>3. CASE GraphStep \/ Pause \/ Resume \/ Abort \/ RunEnded \/ UNCHANGED vars
  BY <1>1, <1>3, RunStepCases, EventRunStep DEF EventInv, JobsInv
<1>. QED BY <1>2, <1>3 DEF Next

(***************************************************************************)
(* DecisionsStand: a step that stores an outcome is about a node that was  *)
(* not visited, and a decision was made with every input visited.          *)
(***************************************************************************)
LEMMA JobStepStores ==
  ASSUME EventInv, NEW j \in Job, JobStep(j)
  PROVE  StoresFor(NodeOf(j))
<1>. DEFINE n == NodeOf(j)
<1>. USE DEF EventInv, JobsInv
<1>0. n \in Node
  BY JobNode
<1>1. CASE FetchNodeData(j) \/ SkipNode(j) \/ NodeStarted(j) \/ NodeUnpaused(j)
  BY <1>1 DEF FetchNodeData, SkipNode, NodeStarted, NodeUnpaused, dataVars, StoresFor
<1>2. CASE ExcludeNode(j)
  <2>1. n \notin visitedNodes
    BY <1>2 DEF ExcludeNode, StoreExclusion, ShouldSkipNodeProcessing
  <2>2. portValue' = WithOutputs(portValue, n, ExcludedOutputs)
    BY <1>2 DEF ExcludeNode, StoreExclusion
  <2>. QED BY <1>0, <1>2, <2>1, <2>2, ValuesKept DEF ExcludeNode, StoreExclusion, StoresFor
<1>3. ASSUME NEW explained \in BOOLEAN, NodeErrored(n, explained),
             n \notin visitedNodes, UNCHANGED visitedNodes
      PROVE  StoresFor(n)
  <2>1. \A m \in Node \ {n} : m \in erroredNodes' <=> m \in erroredNodes
    BY <1>0, <1>3, ErroredEvent, NodesAreTyped
  <2>2. \A c \in Connection : c[1] # n => portValue'[c] = portValue[c]
    BY <1>0, <1>3, ValuesKept DEF NodeErrored
  <2>. QED BY <1>3, <2>1, <2>2 DEF StoresFor
<1>4. CASE BeginNode(j)
  <2>1. n \notin visitedNodes /\ UNCHANGED visitedNodes
    BY <1>4 DEF BeginNode, ShouldSkipNodeProcessing
  <2>2. CASE aborted
    BY <1>3, <1>4, <2>1, <2>2 DEF BeginNode
  <2>3. CASE ~ aborted
    BY <1>4, <2>3 DEF BeginNode, StoresFor
  <2>. QED BY <2>2, <2>3
<1>5. CASE NodeSettled(j)
  BY <1>5 DEF NodeSettled, StoresFor
<1>6. CASE FinishStep(j)
  <2>1. lifecycle[n] = "started"
    BY <1>6 DEF FinishStep, StageInv
  <2>2. n \notin visitedNodes
    BY <1>0, <2>1 DEF LifeInv, LifeOK
  <2>3. PICK out : portValue' = WithOutputs(portValue, n, out)
    BY <1>6 DEF FinishStep, NodeFinished, StoreOutputs
  <2>. QED BY <1>0, <1>6, <2>2, <2>3, ValuesKept DEF FinishStep, NodeFinished, StoreOutputs, StoresFor
<1>7. CASE FailStep(j)
  <2>1. lifecycle[n] = "started"
    BY <1>7 DEF FailStep, StageInv
  <2>2. n \notin visitedNodes
    BY <1>0, <2>1 DEF LifeInv, LifeOK
  <2>. QED BY <1>3, <1>7, <2>2 DEF FailStep, NodeFailed
<1>. QED BY <1>1, <1>2, <1>4, <1>5, <1>6, <1>7, JobStepCases

DecisionInv == EventInv /\ DecisionsStand

LEMMA DecisionJobStep ==
  ASSUME DecisionInv, NEW j \in Job, JobStep(j)
  PROVE  DecisionsStand'
<1>. DEFINE n == NodeOf(j)
<1>. USE DEF DecisionInv, EventInv, JobsInv
<1>0. n \in Node /\ StoresFor(n) /\ (aborted' <=> aborted)
  BY JobNode, JobStepStores, JobStepMoves DEF runVars
<1>1. ASSUME NEW p \in Node \ Preloaded, p # n PROVE DecisionOK(p)'
  <2>1. p \in Node /\ Same(p)
    BY <1>1, JobStepLocal DEF Untouched, Same
  <2>2. DecisionOK(p)
    BY <1>1 DEF DecisionsStand, DecisionOK
  <2>. QED BY <1>0, <2>1, <2>2, DecisionKept, Zenon
<1>2. ASSUME n \notin Preloaded PROVE DecisionOK(n)'
  <2>0. DecisionOK(n)
    BY <1>0, <1>2 DEF DecisionsStand, DecisionOK
  <2>1. CASE FetchNodeData(j) \/ SkipNode(j) \/ NodeStarted(j) \/ NodeUnpaused(j)
             \/ NodeSettled(j)
    <3>1. Same(n)
      BY <2>1
      DEF FetchNodeData, SkipNode, NodeStarted, NodeUnpaused, NodeSettled, dataVars, Same
    <3>. QED BY <1>0, <2>0, <3>1, DecisionKept, Zenon
  <2>2. CASE ExcludeNode(j)
    <3>1. /\ lifecycle'[n] = "excluded"
          /\ MustExclude(n) /\ ~ MustWait(n) /\ n \notin visitedNodes
      BY <1>0, <2>2
      DEF ExcludeNode, StoreExclusion, Emit, TypeInv, TypeOK, ShouldSkipNodeProcessing
    <3>2. CASE n \in Disabled
      BY <3>1, <3>2 DEF DecisionOK, MustExclude, MustWait
    <3>3. CASE n \notin Disabled
      <4>1. InputNodesTo(n) \subseteq visitedNodes /\ ExcludedByInputs(portValue, n)
        BY <3>1, <3>3 DEF MustExclude, MustWait, WaitingForInputNode
      <4>2. InputNodesTo(n) \subseteq visitedNodes' /\ ExcludedByInputs(portValue', n)
        BY <1>0, <4>1, InputsKept
      <4>. QED
        BY <3>1, <4>2 DEF DecisionOK, MustExclude, MustWait, WaitingForInputNode
    <3>. QED BY <3>2, <3>3
  <2>3. CASE BeginNode(j)
    <3>1. CASE aborted
      <4>1. lifecycle'[n] \in {"excluded", "errored"}
        BY <1>0, <2>3, <3>1, ErroredEvent, NodesAreTyped DEF BeginNode
      <4>. QED BY <1>0, <3>1, <4>1 DEF DecisionOK
    <3>2. CASE ~ aborted
      <4>1. /\ lifecycle'[n] = "started"
            /\ UNCHANGED <<visitedNodes, portValue, erroredNodes>>
        BY <1>0, <2>3, <3>2 DEF BeginNode, Emit, TypeInv, TypeOK
      <4>2. /\ InputNodesTo(n) \subseteq visitedNodes
            /\ ~ HasErroredInputNode(erroredNodes, n)
            /\ ~ MustExclude(n)
        BY <2>3 DEF BeginNode, ShouldSkipNodeProcessing, MustWait, WaitingForInputNode,
                    MustExclude
      <4>. QED BY <4>1, <4>2 DEF DecisionOK, MustExclude
    <3>. QED BY <3>1, <3>2
  <2>4. CASE FinishStep(j)
    <3>1. lifecycle[n] = "started" /\ lifecycle'[n] = "finished"
      BY <1>0, <2>4 DEF FinishStep, NodeFinished, StoreOutputs, Emit, StageInv, TypeInv, TypeOK
    <3>. QED BY <1>0, <2>0, <3>1, DecisionKept
  <2>5. CASE FailStep(j)
    <3>1. PICK explained \in BOOLEAN : NodeErrored(n, explained)
      BY <2>5 DEF FailStep, NodeFailed
    <3>2. \/ lifecycle'[n] = "errored"
          \/ lifecycle'[n] = "excluded" /\ aborted
      BY <1>0, <3>1, ErroredEvent, NodesAreTyped DEF PhaseInv
    <3>. QED BY <1>0, <3>2 DEF DecisionOK
  <2>. QED BY <2>1, <2>2, <2>3, <2>4, <2>5, JobStepCases
<1>. QED BY <1>1, <1>2 DEF DecisionsStand, DecisionOK

LEMMA DecisionStep == DecisionInv /\ [Next]_vars => DecisionInv'
<1>. SUFFICES ASSUME DecisionInv, [Next]_vars PROVE DecisionInv'
  OBVIOUS
<1>1. EventInv'
  BY EventStep DEF DecisionInv
<1>2. CASE \E j \in Job : JobStep(j)
  BY <1>1, <1>2, DecisionJobStep DEF DecisionInv
<1>3. CASE GraphStep \/ Pause \/ Resume \/ Abort \/ RunEnded \/ UNCHANGED vars
  <2>1. RunStep /\ UNCHANGED dataVars
    BY <1>3, RunStepCases DEF DecisionInv, EventInv, JobsInv
  <2>2. aborted => aborted'
    BY <2>1 DEF RunStep, Starting, BeginDraining, Resuming, Watching
  <2>. QED
    BY <1>1, <2>1, <2>2
    DEF DecisionInv, DecisionsStand, dataVars, MustExclude, MustWait
<1>. QED BY <1>2, <1>3 DEF Next

LEMMA InitDecision == Init => DecisionInv
<1>. SUFFICES ASSUME Init PROVE DecisionInv
  OBVIOUS
<1>1. DecisionsStand
  BY DEF Init, DecisionsStand
<1>. QED BY <1>1, InitEvent DEF DecisionInv

(* No decision about a node is contradicted by anything stored later. *)
THEOREM DecisionsFinal == Spec => []DecisionsStand
<1>1. Spec => []DecisionInv
  BY InitDecision, DecisionStep, PTL DEF Spec
<1>. QED BY <1>1, PTL DEF DecisionInv

-----------------------------------------------------------------------------
(***************************************************************************)
(* No lost wakeup: every start node of a run that is neither aborted nor   *)
(* met by an error has an outcome when the queue runs dry.                 *)
(***************************************************************************)

(* What n depends on is n, or a dependency of one of its inputs. *)
LEMMA DependencyPath ==
  ASSUME NEW n \in Node, NEW m \in DependencyNodesDeep[n], m # n
  PROVE  \E i \in InputNodesTo(n) : m \in DependencyNodesDeep[i]
<1>. DEFINE T == {n} \cup {x \in Node : \E i \in InputNodesTo(n) : x \in DependencyNodesDeep[i]}
<1>1. T \in SUBSET Node /\ n \in T
  OBVIOUS
<1>2. ClosedUpstream(T)
  <2>. SUFFICES ASSUME NEW c \in Connection, c[2] \in T PROVE c[1] \in T
    BY DEF ClosedUpstream
  <2>1. c[1] \in Node /\ c = <<c[1], c[2]>>
    BY GraphAssumption
  <2>2. CASE c[2] = n
    <3>1. c[1] \in InputNodesTo(n)
      BY <2>1, <2>2 DEF InputNodesTo
    <3>. QED BY <2>1, <3>1, DependsOnSelf
  <2>3. CASE c[2] # n
    <3>1. PICK i \in InputNodesTo(n) : c[2] \in DependencyNodesDeep[i]
      BY <2>3
    <3>2. c[1] \in DependencyNodesDeep[i]
      BY <3>1, DependenciesClosed DEF ClosedUpstream, InputNodesTo
    <3>. QED BY <2>1, <3>1, <3>2
  <2>. QED BY <2>2, <2>3
<1>3. m \in T
  BY <1>1, <1>2 DEF DependencyNodesDeep
<1>. QED BY <1>3

LEMMA DependencyTransitive ==
  ASSUME NEW n \in Node, NEW m \in DependencyNodesDeep[n]
  PROVE  DependencyNodesDeep[m] \subseteq DependencyNodesDeep[n]
<1>1. DependencyNodesDeep[n] \in SUBSET Node /\ m \in Node
  BY DEF DependencyNodesDeep
<1>2. ClosedUpstream(DependencyNodesDeep[n])
  BY DependenciesClosed
<1>. QED BY <1>1, <1>2 DEF DependencyNodesDeep

(* An input does not depend on its reader. *)
LEMMA NoCircularInput ==
  ASSUME NEW n \in Node, NEW m \in InputNodesTo(n)
  PROVE  n \notin DependencyNodesDeep[m]
<1>. SUFFICES ASSUME n \in DependencyNodesDeep[m] PROVE FALSE
  OBVIOUS
<1>0. m \in Node
  BY DEF InputNodesTo
<1>. DEFINE S == {x \in Node : x \in DependencyNodesDeep[m] /\ n \in DependencyNodesDeep[x]}
<1>1. m \in S
  BY <1>0, DependsOnSelf
<1>2. ASSUME NEW x \in S PROVE \E y \in InputNodesTo(x) : y \in S
  <2>1. CASE x = n
    BY <1>1, <2>1
  <2>2. CASE x # n
    <3>1. PICK y \in InputNodesTo(x) : n \in DependencyNodesDeep[y]
      BY <2>2, DependencyPath
    <3>2. y \in Node /\ <<y, x>> \in Connection
      BY <3>1 DEF InputNodesTo
    <3>3. y \in DependencyNodesDeep[m]
      BY <1>0, <3>2, DependenciesClosed DEF ClosedUpstream
    <3>. QED BY <3>1, <3>2, <3>3
  <2>. QED BY <2>1, <2>2
<1>. HIDE DEF S
<1>3. S \in SUBSET Node
  BY DEF S
<1>. QED BY <1>1, <1>2, <1>3, AcyclicAssumption

(* What waits for a node behind a requested node is behind it too. *)
LEMMA BehindInput ==
  ASSUME NEW n \in Node, NEW m \in InputNodesTo(n), BehindRunTo(m)
  PROVE  BehindRunTo(n)
<1>0. m \in Node
  BY DEF InputNodesTo
<1>1. PICK r \in RunTo \ {m} : r \in DependencyNodesDeep[m]
  BY DEF BehindRunTo
<1>2. m \in DependencyNodesDeep[n]
  BY DependsOnSelf, DependenciesClosed DEF ClosedUpstream, InputNodesTo
<1>3. r \in DependencyNodesDeep[n]
  BY <1>1, <1>2, DependencyTransitive
<1>4. r # n
  BY <1>1, NoCircularInput
<1>. QED BY <1>1, <1>3, <1>4 DEF BehindRunTo

(***************************************************************************)
(* WakeInv.                                                                *)
(***************************************************************************)
NodesInv == EventInv /\ WakeInv /\ DemandInv

TriedBy(n, k) ==
  /\ NodeOf(k) = n
  /\ \/ job[k] = "fetched"
     \/ job[k] = "queued" /\ k[1] = "push"

(* A job that will try a node is not disturbed by the moves of others. *)
LEMMA TryKept ==
  ASSUME NEW j \in Job, NEW stage, NEW added, Moves(j, stage, added),
         NEW k \in Job, k # j, NEW n, TriedBy(n, k)
  PROVE  WillTry(n)'
<1>1. job'[k] = job[k]
  BY DEF Moves, TriedBy
<1>. QED BY <1>1 DEF TriedBy, WillTry

(* A job of another node leaves a node woken, unless it settles an input of
   it and does not push. *)
LEMMA WakeKept ==
  ASSUME NEW j \in Job, NEW stage, NEW added, Moves(j, stage, added),
         NEW n \in Node, NodeOf(j) # n, WakeOK(n),
         visitedNodes \subseteq visitedNodes',
         \A m \in Node \ {NodeOf(j)} :
           /\ m \in visitedNodes' <=> m \in visitedNodes
           /\ m \in currentlyProcessing' <=> m \in currentlyProcessing,
         \/ NodeOf(j) \notin visitedNodes'
         \/ NodeOf(j) \in currentlyProcessing'
         \/ /\ NodeOf(j) \in visitedNodes
            /\ NodeOf(j) \notin currentlyProcessing
         \/ PushOutputs(NodeOf(j)) \subseteq added
  PROVE  WakeOK(n)'
<1>1. CASE n \in visitedNodes \cup currentlyProcessing
  BY <1>1 DEF WakeOK
<1>2. CASE BehindRunTo(n)
  BY <1>2 DEF WakeOK
<1>3. CASE WillTry(n)
  <2>1. PICK k \in Job : TriedBy(n, k)
    BY <1>3 DEF WillTry, TriedBy
  <2>2. k # j
    BY <2>1 DEF TriedBy
  <2>. QED BY <2>1, <2>2, TryKept DEF WakeOK
<1>4. ASSUME NEW m \in InputNodesTo(n), m \notin visitedNodes \/ m \in currentlyProcessing
      PROVE  WakeOK(n)'
  <2>0. m \in Node
    BY DEF InputNodesTo
  <2>1. CASE m # NodeOf(j)
    BY <1>4, <2>0, <2>1 DEF WakeOK
  <2>2. CASE m = NodeOf(j) /\ (m \notin visitedNodes' \/ m \in currentlyProcessing')
    BY <1>4, <2>2 DEF WakeOK
  <2>3. CASE m = NodeOf(j) /\ PushOutputs(m) \subseteq added
    <3>1. <<"push", m, n>> \in PushOutputs(m)
      BY DEF PushOutputs, InputNodesTo, OutputNodesFrom
    <3>2. <<"push", m, n>> \in Job /\ job'[<<"push", m, n>>] = "queued"
      BY <2>3, <3>1 DEF Moves
    <3>3. WillTry(n)'
      BY <3>2 DEF WillTry, NodeOf
    <3>. QED BY <3>3 DEF WakeOK
  <2>. QED BY <1>4, <2>1, <2>2, <2>3
<1>. QED BY <1>1, <1>2, <1>3, <1>4 DEF WakeOK

(* What a job does to the other nodes in an undisturbed run. *)
LEMMA WakeOthers ==
  ASSUME NodesInv, NEW j \in Job, JobStep(j), Undisturbed, Undisturbed',
         NEW n \in Node, NodeOf(j) # n, WakeOK(n)
  PROVE  WakeOK(n)'
<1>. DEFINE p == NodeOf(j)
<1>. USE DEF NodesInv, EventInv, JobsInv
<1>0. /\ p \in Node
      /\ visitedNodes \subseteq visitedNodes'
      /\ \A m \in Node \ {p} :
           /\ m \in visitedNodes' <=> m \in visitedNodes
           /\ m \in currentlyProcessing' <=> m \in currentlyProcessing
  BY JobNode, JobStepStores, JobStepLocal DEF StoresFor, Untouched
<1>1. CASE FetchNodeData(j) \/ SkipNode(j)
  <2>1. PICK stage, added : Moves(j, stage, added)
    BY JobStepMoves
  <2>2. UNCHANGED <<visitedNodes, currentlyProcessing>>
    BY <1>1 DEF FetchNodeData, SkipNode, dataVars
  <2>. QED BY <1>0, <2>1, <2>2, WakeKept
<1>2. CASE ExcludeNode(j)
  <2>1. Moves(j, "done", PushOutputs(p))
    BY <1>2, ExcludeMoves
  <2>. QED BY <1>0, <2>1, WakeKept
<1>3. CASE BeginNode(j)
  <2>1. PICK stage : Moves(j, stage, {})
    BY <1>3, BeginMoves
  <2>2. p \in currentlyProcessing'
    BY <1>3 DEF BeginNode
  <2>. QED BY <1>0, <2>1, <2>2, WakeKept
<1>4. CASE NodeStarted(j) \/ NodeUnpaused(j) \/ FinishStep(j) \/ FailStep(j)
  <2>1. PICK stage : Moves(j, stage, {})
    BY <1>4, HeldMoves
  <2>2. p \in currentlyProcessing'
    BY <1>4, HeldMoves, HeldNode DEF Processing, Holding
  <2>. QED BY <1>0, <2>1, <2>2, WakeKept
<1>5. CASE NodeSettled(j)
  <2>1. job[j] # "stopping"
    BY DEF StageInv, Undisturbed
  <2>2. Moves(j, "done", PushOutputs(p))
    BY <1>5, <2>1, SettledMoves
  <2>. QED BY <1>0, <2>2, WakeKept
<1>. QED BY <1>1, <1>2, <1>3, <1>4, <1>5, JobStepCases

(* The job's own node, if it was demanded: a job that gives up on it does so
   because of the node itself or because of an input that is not there. *)
LEMMA WakeOwn ==
  ASSUME NodesInv, NEW j \in Job, JobStep(j), Undisturbed, Undisturbed',
         NodeOf(j) \in queuedNodes'
  PROVE  WakeOK(NodeOf(j))'
<1>. DEFINE n == NodeOf(j)
<1>. USE DEF NodesInv, EventInv, JobsInv
<1>0. n \in Node /\ job \in [Job -> Stage]
  BY JobNode DEF TypeInv, TypeOK
<1>1. CASE FetchNodeData(j)
  <2>0. UNCHANGED <<visitedNodes, currentlyProcessing>>
    BY <1>1 DEF FetchNodeData, dataVars
  <2>1. CASE Moves(j, "fetched", FetchInputs(n))
    BY <2>1 DEF Moves, WakeOK, WillTry
  <2>2. CASE Moves(j, "done", {}) /\ UNCHANGED queuedNodes
    <3>1. WakeOK(n)
      BY <2>2 DEF WakeInv
    <3>2. CASE WillTry(n)
      <4>1. PICK k \in Job : TriedBy(n, k)
        BY <3>2 DEF WillTry, TriedBy
      <4>2. k # j
        BY <1>1, <4>1 DEF TriedBy, FetchNodeData
      <4>. QED BY <2>2, <4>1, <4>2, TryKept DEF WakeOK
    <3>. QED BY <2>0, <3>1, <3>2 DEF WakeOK
  <2>. QED BY <1>1, <2>1, <2>2, FetchMoves
<1>2. CASE SkipNode(j)
  <2>0. UNCHANGED <<visitedNodes, currentlyProcessing>>
    BY <1>2 DEF SkipNode, dataVars
  <2>1. CASE ShouldSkipNodeProcessing(n)
    BY <2>0, <2>1
    DEF ShouldSkipNodeProcessing, HasErroredInputNode, Undisturbed, WakeOK
  <2>2. CASE MustWait(n)
    BY <2>0, <2>2 DEF MustWait, WaitingForInputNode, WakeOK
  <2>. QED BY <1>2, <2>1, <2>2 DEF SkipNode
<1>3. CASE ExcludeNode(j)
  BY <1>3 DEF ExcludeNode, StoreExclusion, WakeOK
<1>4. CASE BeginNode(j)
  BY <1>4 DEF BeginNode, WakeOK
<1>5. CASE NodeStarted(j) \/ NodeUnpaused(j) \/ FinishStep(j) \/ FailStep(j)
  <2>1. n \in currentlyProcessing'
    BY <1>5, HeldMoves, HeldNode DEF Processing, Holding
  <2>. QED BY <2>1 DEF WakeOK
<1>6. CASE NodeSettled(j)
  BY <1>6 DEF NodeSettled, WakeOK
<1>. QED BY <1>1, <1>2, <1>3, <1>4, <1>5, <1>6, JobStepCases

(* An error or an abort is never taken back. *)
LEMMA DisturbedStays ==
  ASSUME EventInv, NEW j \in Job, JobStep(j), Undisturbed'
  PROVE  Undisturbed
<1>1. aborted' <=> aborted
  BY JobStepMoves DEF EventInv, runVars
<1>2. erroredNodes \subseteq erroredNodes'
  BY JobStepCases
  DEF FetchNodeData, SkipNode, ExcludeNode, StoreExclusion, BeginNode, NodeStarted, NodeUnpaused,
      NodeSettled, FinishStep, FailStep, NodeFinished, StoreOutputs, NodeFailed, NodeErrored, dataVars
<1>. QED BY <1>1, <1>2 DEF Undisturbed

(* Only fetching a node adds it to the demanded ones. *)
LEMMA QueuedGrows ==
  ASSUME EventInv, NEW j \in Job, JobStep(j)
  PROVE  queuedNodes \subseteq queuedNodes' /\ queuedNodes' \subseteq queuedNodes \cup {NodeOf(j)}
BY JobStepCases
DEF FetchNodeData, SkipNode, ExcludeNode, StoreExclusion, BeginNode, NodeStarted, NodeUnpaused,
    NodeSettled, FinishStep, FailStep, NodeFinished, StoreOutputs, NodeFailed

LEMMA WakeJobStep ==
  ASSUME NodesInv, NEW j \in Job, JobStep(j)
  PROVE  WakeInv'
<1>. SUFFICES ASSUME Undisturbed', NEW n \in queuedNodes' PROVE WakeOK(n)'
  BY DEF WakeInv
<1>1. Undisturbed
  BY DisturbedStays DEF NodesInv
<1>2. CASE n = NodeOf(j)
  BY <1>1, <1>2, WakeOwn
<1>3. CASE n # NodeOf(j)
  <2>1. n \in queuedNodes /\ n \in Node
    BY <1>3, QueuedGrows DEF NodesInv, EventInv, JobsInv, TypeInv, TypeOK
  <2>2. WakeOK(n)
    BY <1>1, <2>1 DEF NodesInv, WakeInv
  <2>. QED BY <1>1, <1>3, <2>1, <2>2, WakeOthers
<1>. QED BY <1>2, <1>3

(***************************************************************************)
(* DemandInv.                                                              *)
(***************************************************************************)
LEMMA ReachedStays ==
  ASSUME NodesInv, NEW j \in Job, JobStep(j), Undisturbed, Undisturbed'
  PROVE  Reached \subseteq Reached'
<1>. USE DEF NodesInv, EventInv, JobsInv
<1>1. queuedNodes \subseteq queuedNodes'
  BY QueuedGrows
<1>2. nodeResults \subseteq nodeResults'
  BY JobStepCases
  DEF FetchNodeData, SkipNode, ExcludeNode, StoreExclusion, BeginNode, NodeStarted, NodeUnpaused,
      NodeSettled, FinishStep, FailStep, NodeFinished, StoreOutputs, NodeFailed, NodeErrored, dataVars
<1>3. CASE NodeSettled(j)
  <2>1. NodeOf(j) \in Node /\ NodeOf(j) \notin erroredNodes
    BY JobNode DEF Undisturbed
  <2>2. lifecycle[NodeOf(j)] \in {"finished", "errored", "excluded"}
    BY <1>3 DEF NodeSettled, StageInv
  <2>3. NodeOf(j) \in nodeResults
    BY <2>1, <2>2 DEF LifeInv, LifeOK
  <2>. QED BY <1>1, <1>2, <1>3, <2>3 DEF NodeSettled, Reached
<1>4. CASE ~ NodeSettled(j)
  <2>1. currentlyProcessing \subseteq currentlyProcessing'
    BY <1>4, JobStepCases, HeldMoves, ExcludeMoves
    DEF FetchNodeData, SkipNode, BeginNode
  <2>. QED BY <1>1, <1>2, <2>1 DEF Reached
<1>. QED BY <1>3, <1>4

(* The demand of a node is kept until the node has been reached. *)
LEMMA DemandKept ==
  ASSUME NodesInv, NEW j \in Job, JobStep(j), Undisturbed, Undisturbed',
         NEW k \in Job, k[1] \in {"start", "fetch"},
         NodeOf(k) \in Reached \/ job[k] = "queued"
  PROVE  NodeOf(k) \in Reached' \/ job'[k] = "queued"
<1>. USE DEF NodesInv, EventInv, JobsInv
<1>1. CASE NodeOf(k) \in Reached
  BY <1>1, ReachedStays
<1>2. CASE job[k] = "queued" /\ k # j
  <2>1. PICK stage, added : Moves(j, stage, added)
    BY JobStepMoves
  <2>. QED BY <1>2, <2>1 DEF Moves
<1>3. CASE job[k] = "queued" /\ k = j
  <2>1. FetchNodeData(j)
    BY <1>3, JobStepCases, HeldMoves
    DEF SkipNode, ExcludeNode, StoreExclusion, BeginNode, AtTry, NodeSettled, Processing
  <2>2. CASE FetchIsPointless(NodeOf(j))
    <3>1. NodeOf(j) \in Reached
      BY <2>2 DEF FetchIsPointless, HasErroredInputNode, Undisturbed, Reached
    <3>. QED BY <1>3, <3>1, ReachedStays
  <2>3. CASE queuedNodes' = queuedNodes \cup {NodeOf(j)}
    BY <1>3, <2>3 DEF Reached
  <2>. QED BY <2>1, <2>2, <2>3, FetchMoves
<1>. QED BY <1>1, <1>2, <1>3

LEMMA DemandJobStep ==
  ASSUME NodesInv, NEW j \in Job, JobStep(j)
  PROVE  DemandInv'
<1>. SUFFICES ASSUME Undisturbed' PROVE DemandInv'
  BY DEF DemandInv
<1>. USE DEF NodesInv
<1>1. Undisturbed
  BY DisturbedStays
<1>2. ASSUME NEW n \in queuedNodes', NEW m \in InputNodesTo(n)
      PROVE  m \in Reached' \/ job'[<<"fetch", n, m>>] = "queued"
  <2>0. n \in Node /\ queuedNodes \subseteq Node
    BY JobNode, QueuedGrows DEF EventInv, JobsInv, TypeInv, TypeOK
  <2>1. <<"fetch", n, m>> \in FetchInputs(n)
    BY DEF FetchInputs
  <2>2. <<"fetch", n, m>> \in Job
    BY <2>0, <2>1, AddedJobs
  <2>3. CASE n \in queuedNodes
    <3>1. m \in Reached \/ job[<<"fetch", n, m>>] = "queued"
      BY <1>1, <2>3 DEF DemandInv
    <3>2. NodeOf(<<"fetch", n, m>>) = m
      BY DEF NodeOf
    <3>. QED BY <1>1, <2>2, <3>1, <3>2, DemandKept
  <2>4. CASE n \notin queuedNodes
    <3>1. n = NodeOf(j) /\ queuedNodes' # queuedNodes
      BY <2>4, QueuedGrows
    <3>2. FetchNodeData(j)
      BY <3>1, JobStepCases
      DEF SkipNode, ExcludeNode, StoreExclusion, BeginNode, NodeStarted, NodeUnpaused, NodeSettled,
          FinishStep, FailStep, NodeFinished, StoreOutputs, NodeFailed
    <3>3. Moves(j, "fetched", FetchInputs(n))
      BY <3>1, <3>2, FetchMoves DEF EventInv
    <3>. QED BY <2>1, <3>3 DEF Moves
  <2>. QED BY <2>3, <2>4
<1>3. ASSUME runPhase' \in {"draining", "erroring", "resolved"}, NEW n \in StartNodes
      PROVE  n \in Reached' \/ job'[<<"start", n, n>>] = "queued"
  <2>1. <<"start", n, n>> \in Job /\ NodeOf(<<"start", n, n>>) = n
    BY DEF Job, StartJobs, NodeOf
  <2>2. runPhase = "draining"
    BY JobStepMoves DEF EventInv
  <2>3. n \in Reached \/ job[<<"start", n, n>>] = "queued"
    BY <1>1, <2>2 DEF DemandInv
  <2>. QED BY <1>1, <2>1, <2>3, DemandKept
<1>. QED BY <1>2, <1>3 DEF DemandInv

(***************************************************************************)
(* Steps of the envelope and of the host.                                  *)
(***************************************************************************)
LEMMA NodesRunStep ==
  ASSUME NodesInv, RunStep, UNCHANGED <<queuedNodes, currentlyProcessing, dataVars>>
  PROVE  WakeInv' /\ DemandInv'
<1>. USE DEF NodesInv, EventInv, JobsInv
<1>1. Undisturbed' => Undisturbed
  BY DEF Undisturbed, RunStep, Starting, BeginDraining, Resuming, Watching, dataVars
<1>2. \A k \in Job : job[k] \in {"queued", "fetched"} => job'[k] = job[k]
  <2>1. CASE Starting
    BY <2>1 DEF Starting, BeginDraining, PhaseInv
  <2>2. CASE Resuming
    BY <2>2 DEF Resuming
  <2>3. CASE Watching
    BY <2>3 DEF Watching
  <2>. QED BY <2>1, <2>2, <2>3 DEF RunStep
<1>3. WakeInv'
  <2>. SUFFICES ASSUME Undisturbed', NEW n \in queuedNodes PROVE WakeOK(n)'
    BY DEF WakeInv
  <2>1. WakeOK(n)
    BY <1>1 DEF WakeInv
  <2>2. WillTry(n) => WillTry(n)'
    BY <1>2 DEF WillTry
  <2>. QED BY <2>1, <2>2 DEF WakeOK, dataVars
<1>4. Reached' = Reached
  BY DEF Reached, dataVars
<1>5. ASSUME Undisturbed', NEW n \in queuedNodes, NEW m \in InputNodesTo(n)
      PROVE  m \in Reached' \/ job'[<<"fetch", n, m>>] = "queued"
  <2>1. <<"fetch", n, m>> \in Job
    BY AddedJobs DEF FetchInputs, TypeInv, TypeOK
  <2>2. m \in Reached \/ job[<<"fetch", n, m>>] = "queued"
    BY <1>1, <1>5 DEF DemandInv
  <2>. QED BY <1>2, <1>4, <2>1, <2>2
<1>6. ASSUME Undisturbed', runPhase' \in {"draining", "erroring", "resolved"},
             NEW n \in StartNodes
      PROVE  n \in Reached' \/ job'[<<"start", n, n>>] = "queued"
  <2>0. <<"start", n, n>> \in StartJobs /\ <<"start", n, n>> \in Job
    BY DEF Job, StartJobs
  <2>1. CASE Starting
    BY <2>0, <2>1 DEF Starting, BeginDraining
  <2>2. CASE Resuming \/ Watching
    <3>1. runPhase \in {"draining", "erroring", "resolved"}
      BY <1>6, <2>2 DEF Resuming, Watching
    <3>2. n \in Reached \/ job[<<"start", n, n>>] = "queued"
      BY <1>1, <1>6, <3>1 DEF DemandInv
    <3>. QED BY <1>2, <1>4, <2>0, <3>2
  <2>. QED BY <2>1, <2>2 DEF RunStep
<1>7. DemandInv'
  BY <1>5, <1>6 DEF DemandInv
<1>. QED BY <1>3, <1>7

LEMMA InitNodes == Init => NodesInv
<1>. SUFFICES ASSUME Init PROVE NodesInv
  OBVIOUS
<1>1. queuedNodes = {} /\ runPhase = "starting"
  BY DEF Init
<1>. QED BY <1>1, InitEvent DEF NodesInv, WakeInv, DemandInv

LEMMA NodesStep == NodesInv /\ [Next]_vars => NodesInv'
<1>. SUFFICES ASSUME NodesInv, [Next]_vars PROVE NodesInv'
  OBVIOUS
<1>1. EventInv'
  BY EventStep DEF NodesInv
<1>2. CASE \E j \in Job : JobStep(j)
  BY <1>1, <1>2, WakeJobStep, DemandJobStep DEF NodesInv
<1>3. CASE GraphStep \/ Pause \/ Resume \/ Abort \/ RunEnded \/ UNCHANGED vars
  BY <1>1, <1>3, RunStepCases, NodesRunStep DEF NodesInv, EventInv, JobsInv
<1>. QED BY <1>2, <1>3 DEF Next

(***************************************************************************)
(* When the queue is idle a demanded node without an outcome waits for one *)
(* of its inputs, which is demanded too: an endless way upstream.          *)
(***************************************************************************)
LEMMA IdleStall ==
  ASSUME NodesInv, runPhase = "draining", QueueIdle, Undisturbed
  PROVE  /\ currentlyProcessing = {}
         /\ \A n \in queuedNodes : n \in visitedNodes \/ BehindRunTo(n)
<1>. USE DEF NodesInv, EventInv, JobsInv
<1>1. currentlyProcessing = {}
  BY DEF OneJobPerNode, QueueIdle, Holding
<1>. DEFINE U == {n \in queuedNodes : n \notin visitedNodes /\ ~ BehindRunTo(n)}
<1>2. ASSUME NEW n \in U PROVE \E m \in InputNodesTo(n) : m \in U
  <2>0. n \in Node /\ n \in queuedNodes
    BY DEF TypeInv, TypeOK
  <2>1. ~ WillTry(n)
    BY DEF WillTry, QueueIdle
  <2>2. PICK m \in InputNodesTo(n) : m \notin visitedNodes
    BY <1>1, <2>1 DEF WakeInv, WakeOK
  <2>3. m \in Node /\ <<"fetch", n, m>> \in Job
    BY <2>0, AddedJobs DEF InputNodesTo, FetchInputs
  <2>4. m \in queuedNodes \cup nodeResults
    BY <1>1, <2>0, <2>3 DEF DemandInv, Reached, QueueIdle
  <2>5. m \notin nodeResults
    BY <1>1, <2>2, <2>3 DEF LifeInv, LifeOK, TypeInv, TypeOK
  <2>6. ~ BehindRunTo(m)
    BY <2>0, BehindInput
  <2>. QED BY <2>2, <2>4, <2>5, <2>6
<1>3. U \in SUBSET Node
  BY DEF TypeInv, TypeOK
<1>. HIDE DEF U
<1>4. U = {}
  BY <1>2, <1>3, AcyclicAssumption
<1>. QED BY <1>1, <1>4 DEF U

LEMMA NoStallHolds == NodesInv => NoStall
<1>. SUFFICES ASSUME NodesInv, runPhase = "draining", QueueIdle,
                     ~ aborted, erroredNodes = {}, NEW n \in StartNodes
              PROVE  n \in visitedNodes \/ BehindRunTo(n)
  BY DEF NoStall
<1>. USE DEF NodesInv, EventInv, JobsInv
<1>1. /\ currentlyProcessing = {}
      /\ \A m \in queuedNodes : m \in visitedNodes \/ BehindRunTo(m)
  BY IdleStall DEF Undisturbed
<1>2. n \in Node /\ <<"start", n, n>> \in Job
  BY GraphAssumption DEF StartNodes, Job, StartJobs
<1>3. n \in queuedNodes \cup nodeResults
  BY <1>1, <1>2 DEF DemandInv, Undisturbed, Reached, QueueIdle
<1>4. n \in nodeResults => n \in visitedNodes
  BY <1>1, <1>2 DEF LifeInv, LifeOK, TypeInv, TypeOK
<1>. QED BY <1>1, <1>3, <1>4

(* When the queue of an undisturbed run is idle, every start node has an
   outcome: no job ever gives up on a node that nobody will try again. *)
THEOREM NoLostWakeup == Spec => []NoStall
<1>1. Spec => []NodesInv
  BY InitNodes, NodesStep, PTL DEF Spec
<1>. QED BY <1>1, NoStallHolds, PTL

-----------------------------------------------------------------------------
(***************************************************************************)
(* The scheduler implements the abstract run of NodeLifecycle.             *)
(***************************************************************************)

RunInv == NodesInv /\ NothingYet

LEMMA InitRun == Init => RunInv
<1>. SUFFICES ASSUME Init PROVE RunInv
  OBVIOUS
<1>1. NothingYet
  BY DEF Init, NothingYet
<1>. QED BY <1>1, InitNodes DEF RunInv

LEMMA RunInvStep == RunInv /\ [Next]_vars => RunInv'
<1>. SUFFICES ASSUME RunInv, [Next]_vars PROVE RunInv'
  OBVIOUS
<1>1. NodesInv'
  BY NodesStep DEF RunInv
<1>2. CASE \E j \in Job : JobStep(j)
  <2>1. runPhase' = "draining"
    BY <1>2, JobStepMoves DEF RunInv, NodesInv, EventInv, runVars
  <2>. QED BY <1>1, <2>1 DEF RunInv, NothingYet
<1>3. CASE GraphStep \/ Pause \/ Resume \/ Abort \/ RunEnded \/ UNCHANGED vars
  <2>1. RunStep /\ UNCHANGED lifecycle
    BY <1>3, RunStepCases DEF RunInv, NodesInv, EventInv, JobsInv, dataVars
  <2>. QED
    BY <1>1, <2>1
    DEF RunInv, NothingYet, RunStep, Starting, BeginDraining, Resuming, Watching
<1>. QED BY <1>2, <1>3 DEF Next

(***************************************************************************)
(* Each step of a job is an event of its node, or nothing to an observer.  *)
(***************************************************************************)
LEMMA NodesAreOK == RunInv => NodesOK
BY NodesAreTyped DEF RunInv, NodesInv, EventInv, JobsInv, TypeInv, PhaseInv, NodesOK

LEMMA JobStepEvent ==
  ASSUME RunInv, NEW j \in Job, JobStep(j)
  PROVE  Quiet \/ (NodeOf(j) \in Node /\ Lifecycle!NodeEvent(NodeOf(j)))
<1>0. NodeOf(j) \in Node /\ NodesOK
  BY JobNode, NodesAreOK
<1>1. CASE FetchNodeData(j) \/ SkipNode(j) \/ NodeStarted(j) \/ NodeUnpaused(j) \/ NodeSettled(j)
  BY <1>1 DEF FetchNodeData, SkipNode, NodeStarted, NodeUnpaused, NodeSettled, runVars,
              dataVars, Quiet
<1>2. CASE ExcludeNode(j)
  BY <1>0, <1>2, ExclusionEvent DEF ExcludeNode, Lifecycle!NodeEvent
<1>3. CASE BeginNode(j)
  BY <1>0, <1>3, BeginEvent DEF BeginNode
<1>4. CASE FinishStep(j)
  <2>1. lifecycle[NodeOf(j)] = "started"
    BY <1>4 DEF FinishStep, RunInv, NodesInv, EventInv, StageInv
  <2>. QED BY <1>0, <1>4, <2>1, FinishEvent DEF FinishStep, NodeFinished, Lifecycle!NodeEvent
<1>5. CASE FailStep(j)
  <2>1. PICK explained \in BOOLEAN : NodeErrored(NodeOf(j), explained) /\ UNCHANGED runVars
    BY <1>5 DEF FailStep, NodeFailed
  <2>2. lifecycle[NodeOf(j)] = "started"
    BY <1>5 DEF FailStep, RunInv, NodesInv, EventInv, StageInv
  <2>. QED BY <1>0, <2>1, <2>2, ErrorEvent DEF Lifecycle!NodeEvent
<1>. QED BY <1>1, <1>2, <1>3, <1>4, <1>5, JobStepCases

(***************************************************************************)
(* Steps of the envelope: how a run ends is what its events say.           *)
(***************************************************************************)
LEMMA DrainedEvent ==
  ASSUME RunInv, GraphDrained
  PROVE  Lifecycle!Next
<1>. USE DEF RunInv, NodesInv, EventInv, JobsInv
<1>1. /\ runPhase = "draining" /\ QueueIdle
      /\ UNCHANGED <<lifecycle, portValue, aborted, abortSuccessfully>>
      /\ abortSuccessfully => aborted
  BY DEF GraphDrained, RunResult, dataVars, PhaseInv
<1>2. Lifecycle!NodesThat("started") = {}
  <2>1. currentlyProcessing = {}
    BY <1>1 DEF OneJobPerNode, QueueIdle, Holding
  <2>. QED BY <2>1 DEF LifeInv, LifeOK, Lifecycle!NodesThat
<1>3. CASE erroredNodes # {} /\ ~ abortSuccessfully
  <2>1. runPhase' = "erroring"
    BY <1>3 DEF GraphDrained, RunResult
  <2>2. Lifecycle!Reject
    BY <1>1, <1>3, <2>1, ErroredSet, NodesAreOK DEF Lifecycle!Reject
  <2>. QED BY <1>1, <1>2, <2>2 DEF Lifecycle!Next, Lifecycle!Conclude
<1>4. CASE ~ (erroredNodes # {} /\ ~ abortSuccessfully)
  <2>1. runPhase' = "resolved"
    BY <1>4 DEF GraphDrained, RunResult
  <2>2. ASSUME ~ aborted PROVE Lifecycle!Complete
    <3>1. erroredNodes = {} /\ \A n \in StartNodes : n \in visitedNodes \/ BehindRunTo(n)
      BY <1>1, <1>4, <2>2, NoStallHolds DEF NoStall
    <3>2. \A n \in StartNodes : n \in Lifecycle!Settled \/ BehindRunTo(n)
      BY <3>1, VisitedSettled, NodesAreOK, GraphAssumption DEF StartNodes
    <3>. QED BY <3>2, SameGraph DEF Lifecycle!Complete
  <2>3. Lifecycle!Resolve
    BY <1>1, <1>4, <2>1, <2>2, ErroredSet, NodesAreOK DEF Lifecycle!Resolve
  <2>. QED BY <1>1, <1>2, <2>3 DEF Lifecycle!Next, Lifecycle!Conclude
<1>. QED BY <1>3, <1>4

(* A run aborted at its pause gate. *)
LEMMA RejectedEvent ==
  ASSUME RunInv, runPhase \in {"starting", "paused", "resumed"}, aborted,
         runPhase' = "rejected",
         UNCHANGED <<lifecycle, portValue, aborted, abortSuccessfully>>
  PROVE  Lifecycle!Next
<1>. USE DEF RunInv, NodesInv, EventInv, JobsInv
<1>1. Lifecycle!NodesThat("none") \cup Preloaded = Node
  BY ProcessorAssumption DEF NothingYet, Lifecycle!NodesThat
<1>2. Lifecycle!NodesThat("started") = {}
  <2>1. \A j \in Job : job[j] = "none"
    BY DEF PhaseInv
  <2>2. currentlyProcessing = {}
    BY <2>1 DEF OneJobPerNode, Holding
  <2>. QED BY <2>2 DEF LifeInv, LifeOK, Lifecycle!NodesThat
<1>3. Lifecycle!Reject
  BY <1>1 DEF Lifecycle!Reject
<1>. QED BY <1>2, <1>3 DEF Lifecycle!Next, Lifecycle!Conclude

LEMMA GraphStepEvent ==
  ASSUME RunInv, GraphStep
  PROVE  Lifecycle!Next \/ UNCHANGED Lifecycle!lifecycleVars
<1>1. UNCHANGED <<lifecycle, portValue, aborted, abortSuccessfully>>
  BY DEF GraphStep, GraphStarted, GraphUnpaused, PausedGraphAborted, GraphDrained,
         RunResult, GraphErrorEmitted, BeginDraining, dataVars
<1>2. CASE GraphDrained
  BY <1>2, DrainedEvent
<1>3. CASE runPhase \in {"starting", "paused", "resumed"} /\ aborted /\ runPhase' = "rejected"
  BY <1>1, <1>3, RejectedEvent
<1>4. CASE \/ runPhase \in {"starting", "paused", "resumed"} /\ runPhase' \in {"draining", "paused"}
           \/ runPhase = "erroring" /\ runPhase' = "rejected"
  BY <1>1, <1>4 DEF Lifecycle!lifecycleVars
<1>. QED
  BY <1>2, <1>3, <1>4
  DEF GraphStep, GraphStarted, GraphUnpaused, PausedGraphAborted, GraphErrorEmitted,
      BeginDraining

LEMMA HostEvent ==
  ASSUME RunInv, Pause \/ Resume \/ Abort \/ RunEnded \/ UNCHANGED vars
  PROVE  Lifecycle!Next \/ UNCHANGED Lifecycle!lifecycleVars
<1>1. CASE Pause \/ RunEnded \/ UNCHANGED vars
  BY <1>1 DEF Pause, RunEnded, vars, runVars, dataVars, Lifecycle!lifecycleVars
<1>2. CASE Resume
  BY <1>2 DEF Resume, dataVars, Lifecycle!lifecycleVars
<1>3. CASE Abort
  <2>1. Lifecycle!Stop
    BY <1>3 DEF Abort, dataVars, Lifecycle!Stop
  <2>. QED BY <2>1 DEF Lifecycle!Next
<1>. QED BY <1>1, <1>2, <1>3

LEMMA EventOfStep ==
  ASSUME RunInv, [Next]_vars
  PROVE  [Lifecycle!Next]_(Lifecycle!lifecycleVars)
<1>1. ASSUME NEW j \in Job, JobStep(j)
      PROVE  Lifecycle!Next \/ UNCHANGED Lifecycle!lifecycleVars
  <2>1. runPhase = "draining"
    BY <1>1, JobStepMoves DEF RunInv, NodesInv, EventInv
  <2>. QED BY <1>1, <2>1, JobStepEvent, QuietStutters DEF Lifecycle!Next
<1>. QED BY <1>1, GraphStepEvent, HostEvent DEF Next

LEMMA InitEventMap == Init => Lifecycle!Init
BY SameGraph DEF Init, Lifecycle!Init, PortValue

(* Every run of the scheduler is a run of NodeLifecycle. *)
THEOREM SchedulerImplementsLifecycle == Spec => ImplementsLifecycle
<1>1. Spec => []RunInv
  BY InitRun, RunInvStep, PTL DEF Spec
<1>2. RunInv /\ [Next]_vars => [Lifecycle!Next]_(Lifecycle!lifecycleVars)
  BY EventOfStep
<1>. QED BY <1>1, <1>2, InitEventMap, PTL DEF Spec, ImplementsLifecycle, Lifecycle!Spec

(* The promise of run() settles only when no node is at work any more; it
   resolves when none has failed, a successful abort apart, and, if it was not
   aborted, every requested node has come to its end but those behind another
   one; it rejects only for a failed node or an abort.  Of processGraph after it
   has awaited the queue, and of the nodes' last events. *)
THEOREM OutcomesAreEarned == Spec => []Lifecycle!OutcomeIsEarned
BY SchedulerImplementsLifecycle, EarnedOutcome, PTL
=============================================================================
