--------------------- MODULE FastAcyclicScheduler_proofs ---------------------
(***************************************************************************)
(* Proofs about FastAcyclicScheduler, for every acyclic graph and every    *)
(* concurrency: IInv is inductive, the safety properties follow from it,   *)
(* and the scheduler implements the abstract run of NodeLifecycle.         *)
(***************************************************************************)
EXTENDS FastAcyclicSchedulerInv, NodeProcessing_proofs

(***************************************************************************)
(* The steps of a node, with the ways it may finish or fail lumped         *)
(* together.                                                               *)
(***************************************************************************)
StartStep(n) == NodeStarted(n) \/ NodeUnpaused(n)

FinishStep(n) ==
  \E place \in {"settling", "stopping"} :
    /\ activity[n] \in Processing
    /\ place = "stopping" => aborted
    /\ NodeFinished(n, place)

FailStep(n) ==
  \E explained \in BOOLEAN : activity[n] \in Processing /\ NodeFailed(n, explained)

Take(n) == SkipNode(n) \/ ExcludeNode(n) \/ BeginNode(n)

LEMMA NodeStepCases ==
  ASSUME NEW n \in Node, NodeStep(n)
  PROVE  \/ StartStep(n) \/ FinishStep(n) \/ FailStep(n)
         \/ NodeSettled(n) \/ QueueReadyOutputs(n) \/ LeaveAndPump(n)
BY DEF NodeStep, PausedNodeAborted, NodeReturned, NodeThrew, FrozenNodeReplayed,
       StartStep, FinishStep, FailStep, Processing

(***************************************************************************)
(* Sets of nodes are finite.                                               *)
(***************************************************************************)
LEMMA NodesFinite ==
  ASSUME NEW S \in SUBSET Node
  PROVE  IsFiniteSet(S) /\ Cardinality(S) \in Nat
BY GraphAssumption, FS_Subset, FS_CardinalityType

LEMMA Fewer ==
  ASSUME NEW S \in SUBSET Node, NEW T \in SUBSET S
  PROVE  Cardinality(T) <= Cardinality(S)
BY NodesFinite, FS_Subset

LEMMA OneFewer ==
  ASSUME NEW S \in SUBSET Node, NEW n \in S
  PROVE  Cardinality(S \ {n}) = Cardinality(S) - 1
BY NodesFinite, FS_RemoveElement

LEMMA NoneLeft ==
  ASSUME NEW S \in SUBSET Node
  PROVE  Cardinality(S) = 0 <=> S = {}
BY NodesFinite, FS_EmptySet

(* A node that enters takes a free slot; nothing else takes one. *)
LEMMA SlotsKept ==
  ASSUME Cardinality(Active) <= NodeConcurrency, NEW n \in Node,
         \/ Active' \subseteq Active
         \/ HasFreeSlot /\ Active' \subseteq Active \cup {n}
  PROVE  Cardinality(Active') <= NodeConcurrency
<1>. DEFINE More == Active \cup {n}
<1>1. Active \subseteq Node /\ Active' \subseteq Node /\ More \subseteq Node
  BY DEF Active
<1>2. /\ Cardinality(Active) \in Nat
      /\ Cardinality(Active') \in Nat
      /\ Cardinality(More) \in Nat
      /\ NodeConcurrency \in Nat
  BY <1>1, NodesFinite, ProcessorAssumption
<1>3. CASE Active' \subseteq Active
  <2>1. Cardinality(Active') <= Cardinality(Active)
    BY <1>1, <1>3, Fewer
  <2>. QED BY <1>2, <2>1
<1>4. CASE HasFreeSlot /\ Active' \subseteq More
  <2>1. Cardinality(Active') <= Cardinality(More)
    BY <1>1, <1>4, Fewer
  <2>2. Cardinality(More) <= Cardinality(Active) + 1
    <3>1. CASE n \in Active
      <4>1. Cardinality(More) = Cardinality(Active)
        <5>1. More = Active
          BY <3>1
        <5>. QED BY <5>1
      <4>. HIDE DEF More
      <4>. QED BY <1>2, <4>1
    <3>2. CASE n \notin Active
      <4>1. More \ {n} = Active
        BY <3>2
      <4>2. Cardinality(Active) = Cardinality(More) - 1
        BY <1>1, <4>1, OneFewer
      <4>. QED BY <1>2, <4>2
    <3>. QED BY <3>1, <3>2
  <2>3. Cardinality(Active) < NodeConcurrency
    BY <1>4 DEF HasFreeSlot
  <2>. HIDE DEF More
  <2>. QED BY <1>2, <2>1, <2>2, <2>3
<1>. QED BY <1>3, <1>4

(***************************************************************************)
(* What every step of a node does: it moves that node, and leaves the      *)
(* others and the run alone.                                               *)
(***************************************************************************)
Moves(n, place) ==
  /\ activity[n] # "waiting"
  /\ place \in Activity \ {"waiting", "ready"}
  /\ activity' = [activity EXCEPT ![n] = place]
  /\ \A p \in Node \ {n} : Untouched(p)
  /\ visitedNodes \subseteq visitedNodes'
  /\ erroredNodes \subseteq erroredNodes'
  /\ UNCHANGED <<runVars, remainingInputs>>

(* What is stored for the node alone keeps its type. *)
DataTyped ==
  /\ NodesTyped
  /\ currentlyProcessing \subseteq Node
  /\ visitedNodes \subseteq Node

LEMMA TypeOfData == TypeOK <=>
  /\ DataTyped
  /\ runPhase \in {"starting", "paused", "resumed", "draining", "erroring",
                   "resolved", "rejected"}
  /\ isPaused \in BOOLEAN
  /\ aborted \in BOOLEAN
  /\ abortSuccessfully \in BOOLEAN
  /\ activity \in [Node -> Activity]
  /\ remainingInputs \in [Node -> Nat]
  /\ pumping \in BOOLEAN
  /\ Cardinality(Active) <= NodeConcurrency
BY DEF TypeOK, DataTyped, NodesTyped

(* A node that is taken is new to the run, and its inputs are all there. *)
LEMMA TakenNode ==
  ASSUME IInv, NEW n \in Node, CanTake(n)
  PROVE  /\ activity[n] = "ready" /\ lifecycle[n] = "none"
         /\ n \notin visitedNodes \cup erroredNodes \cup nodeResults \cup currentlyProcessing
         /\ InputNodesTo(n) \subseteq visitedNodes
         /\ ~ MustWait(n)
         /\ ShouldSkipNodeProcessing(n) <=> HasErroredInputNode(erroredNodes, n)
<1>1. activity[n] = "ready"
  BY DEF CanTake
<1>2. lifecycle[n] = "none"
  BY <1>1 DEF IInv, PlaceInv, PlaceOK
<1>3. n \notin visitedNodes \cup erroredNodes \cup nodeResults \cup currentlyProcessing
  BY <1>2 DEF IInv, LifeInv, LifeOK
<1>4. InputNodesTo(n) \subseteq visitedNodes
  BY <1>1 DEF IInv, ReadyInv, Pending
<1>5. ~ BehindRunTo(n)
  BY FastAssumption DEF BehindRunTo
<1>. QED
  BY <1>1, <1>2, <1>3, <1>4, <1>5 DEF MustWait, WaitingForInputNode, ShouldSkipNodeProcessing

LEMMA DecisionsHold == ASSUME IInv, NEW n \in Node PROVE DecisionOK(n)
BY FastAssumption DEF IInv, DecisionsStand, DecisionOK

(* A step of a node, but for those that only pass on that it is through. *)
Step(n, place) ==
  /\ Moves(n, place)
  /\ DataTyped' /\ pumping' \in BOOLEAN
  /\ activity[n] = "ready" => HasFreeSlot
  /\ activity[n] # "done"
  /\ activity[n] \in Through => place \in Through /\ UNCHANGED visitedNodes
  /\ activity[n] \notin Through /\ place \in Through => n \notin visitedNodes' \/ aborted
  /\ StoresFor(n)
  /\ LifeOK(n)' /\ PlaceOK(n)' /\ DecisionOK(n)'

LEMMA SkipIsStep ==
  ASSUME IInv, NEW n \in Node, SkipNode(n)
  PROVE  Step(n, "leaving")
<1>1. CanTake(n)
  BY DEF SkipNode
<1>2. HasErroredInputNode(erroredNodes, n)
  BY <1>1, TakenNode DEF SkipNode
<1>3. /\ activity[n] = "ready" /\ lifecycle[n] = "none"
      /\ n \notin visitedNodes /\ n \notin currentlyProcessing
  BY <1>1, TakenNode
<1>4. TypeOK /\ LifeOK(n)
  BY DEF IInv, LifeInv
<1>5. Moves(n, "leaving")
  BY <1>3, <1>4 DEF SkipNode, Enter, Moves, Untouched, Activity, dataVars, TypeOK
<1>6. DataTyped' /\ pumping' \in BOOLEAN
  BY <1>4, TypeOfData DEF SkipNode, DataTyped, NodesTyped, dataVars
<1>7. LifeOK(n)'
  BY <1>4 DEF SkipNode, LifeOK, dataVars
<1>8. activity'[n] = "leaving"
  BY <1>4, <1>5 DEF Moves, TypeOK
<1>9. PlaceOK(n)'
  BY <1>2, <1>3, <1>8 DEF SkipNode, PlaceOK, dataVars, Processing, Through, Holding
<1>10. StoresFor(n) /\ Same(n) /\ (aborted => aborted')
  BY DEF SkipNode, dataVars, runVars, StoresFor, Same
<1>11. DecisionOK(n)'
  BY <1>10, DecisionsHold, DecisionKept
<1>. QED
  BY <1>1, <1>3, <1>5, <1>6, <1>7, <1>9, <1>10, <1>11
  DEF Step, SkipNode, dataVars, Through, CanTake

LEMMA ExcludeIsStep ==
  ASSUME IInv, NEW n \in Node, ExcludeNode(n)
  PROVE  Step(n, "returned")
<1>1. CanTake(n)
  BY DEF ExcludeNode
<1>2. /\ activity[n] = "ready" /\ lifecycle[n] = "none"
      /\ n \notin visitedNodes \cup erroredNodes \cup nodeResults \cup currentlyProcessing
      /\ InputNodesTo(n) \subseteq visitedNodes
  BY <1>1, TakenNode
<1>3. TypeOK
  BY DEF IInv
<1>4. Moves(n, "returned")
  BY <1>2, <1>3
  DEF ExcludeNode, StoreExclusion, Emit, Enter, Moves, Untouched, Activity, TypeOK
<1>5. DataTyped' /\ pumping' \in BOOLEAN
  BY <1>3, OutputsType, TypeOfData
  DEF ExcludeNode, StoreExclusion, Emit, DataTyped, NodesTyped, TypeOK
<1>6. lifecycle'[n] = "excluded" /\ activity'[n] = "returned"
  BY <1>3 DEF ExcludeNode, StoreExclusion, Emit, Enter, TypeOK
<1>7. LifeOK(n)'
  BY <1>2, <1>6 DEF ExcludeNode, StoreExclusion, LifeOK
<1>8. PlaceOK(n)'
  BY <1>2, <1>6 DEF ExcludeNode, StoreExclusion, PlaceOK, Processing, Through, Holding
<1>9. StoresFor(n)
  BY <1>2, ValuesKept DEF ExcludeNode, StoreExclusion, StoresFor
<1>10. DecisionOK(n)'
  <2>1. MustExclude(n)' /\ ~ MustWait(n)'
    BY <1>2, <1>9, InputsKept DEF ExcludeNode, MustExclude, MustWait, WaitingForInputNode
  <2>. QED BY <1>6, <2>1 DEF DecisionOK
<1>. QED
  BY <1>1, <1>2, <1>4, <1>5, <1>7, <1>8, <1>9, <1>10 DEF Step, Through, CanTake

LEMMA BeginIsStep ==
  ASSUME IInv, NEW n \in Node, BeginNode(n)
  PROVE  \E place : Step(n, place)
<1>1. CanTake(n)
  BY DEF BeginNode
<1>2. /\ activity[n] = "ready" /\ lifecycle[n] = "none"
      /\ n \notin visitedNodes \cup erroredNodes \cup nodeResults \cup currentlyProcessing
      /\ InputNodesTo(n) \subseteq visitedNodes
  BY <1>1, TakenNode
<1>3. TypeOK /\ NodesTyped
  BY TypeOfData DEF IInv, DataTyped
<1>4. PICK place \in {"starting", "stopping"} :
        Enter(n, place) /\ (place = "stopping" <=> aborted)
  BY DEF BeginNode
<1>5. /\ n \in currentlyProcessing' /\ UNCHANGED <<visitedNodes, runVars>>
      /\ activity'[n] = place
  BY <1>3, <1>4 DEF BeginNode, Enter, TypeOK
<1>6. \/ ~ aborted /\ Emit(n, "started") /\ UNCHANGED <<nodeResults, portValue, erroredNodes>>
      \/ aborted /\ NodeErrored(n, TRUE)
  BY DEF BeginNode
<1>7. /\ \A p \in Node \ {n} : Untouched(p)
      /\ erroredNodes \subseteq erroredNodes'
  <2>1. CASE aborted
    BY <1>2, <1>3, <1>6, <2>1, ErroredEvent DEF BeginNode, Untouched, NodesTyped
  <2>2. CASE ~ aborted
    BY <1>3, <1>6, <2>2 DEF BeginNode, Untouched, Emit, TypeOK
  <2>. QED BY <2>1, <2>2
<1>8. Moves(n, place)
  BY <1>2, <1>4, <1>5, <1>7 DEF BeginNode, Enter, Moves, Activity, Holding
<1>9. DataTyped' /\ pumping' \in BOOLEAN
  <2>1. NodesTyped'
    BY <1>3, <1>6, NodeErroredType DEF NodesTyped, Emit
  <2>. QED BY <1>3, <2>1 DEF BeginNode, DataTyped, TypeOK
<1>10. \/ ~ aborted /\ lifecycle'[n] = "started" /\ UNCHANGED <<nodeResults, erroredNodes>>
       \/ /\ aborted /\ lifecycle'[n] = "errored"
          /\ n \in erroredNodes' /\ UNCHANGED nodeResults
       \/ /\ aborted /\ lifecycle'[n] = "excluded"
          /\ n \in nodeResults' /\ UNCHANGED erroredNodes
  BY <1>3, <1>6, ErroredEvent DEF Emit, TypeOK
<1>11. LifeOK(n)'
  BY <1>2, <1>5, <1>10 DEF LifeOK
<1>12. PlaceOK(n)'
  BY <1>4, <1>5, <1>10 DEF PlaceOK, Processing, Through, Holding, runVars
<1>13. StoresFor(n)
  BY <1>2, <1>5, <1>6, <1>7, ValuesKept DEF StoresFor, Untouched, NodeErrored
<1>14. DecisionOK(n)'
  <2>1. CASE aborted
    BY <1>5, <1>10, <2>1 DEF DecisionOK, runVars
  <2>2. CASE ~ aborted
    <3>1. UNCHANGED <<portValue, erroredNodes, visitedNodes>>
      BY <1>5, <1>6, <2>2
    <3>2. ~ MustExclude(n) /\ ~ HasErroredInputNode(erroredNodes, n)
      BY DEF BeginNode, ShouldSkipNodeProcessing
    <3>. QED
      BY <1>2, <1>10, <2>2, <3>1, <3>2 DEF DecisionOK, MustExclude
  <2>. QED BY <2>1, <2>2
<1>. QED
  BY <1>1, <1>2, <1>4, <1>8, <1>9, <1>11, <1>12, <1>13, <1>14 DEF Step, Through, CanTake

LEMMA StartIsStep ==
  ASSUME IInv, NEW n \in Node, StartStep(n)
  PROVE  \E place : Step(n, place)
<1>1. PICK place \in {"running", "paused"} : Enter(n, place)
  BY DEF StartStep, NodeStarted, NodeUnpaused
<1>2. /\ activity[n] \in Processing
      /\ UNCHANGED <<runVars, remainingInputs, pumping, currentlyProcessing, dataVars>>
  BY DEF StartStep, NodeStarted, NodeUnpaused, Processing
<1>3. TypeOK /\ LifeOK(n) /\ PlaceOK(n)
  BY DEF IInv, LifeInv, PlaceInv
<1>4. activity'[n] = place
  BY <1>1, <1>3 DEF Enter, TypeOK
<1>5. Moves(n, place)
  BY <1>1, <1>2 DEF Enter, Moves, Untouched, Activity, Processing, Holding, dataVars
<1>6. DataTyped' /\ pumping' \in BOOLEAN
  BY <1>2, <1>3 DEF TypeOK, DataTyped, NodesTyped, dataVars
<1>7. LifeOK(n)'
  BY <1>2, <1>3 DEF LifeOK, dataVars
<1>8. PlaceOK(n)'
  BY <1>2, <1>3, <1>4 DEF PlaceOK, dataVars, Processing, Through, Holding
<1>9. StoresFor(n) /\ Same(n) /\ (aborted => aborted')
  BY <1>2 DEF dataVars, runVars, StoresFor, Same
<1>10. DecisionOK(n)'
  BY <1>9, DecisionsHold, DecisionKept
<1>. QED
  BY <1>2, <1>5, <1>6, <1>7, <1>8, <1>9, <1>10 DEF Step, Through, Processing

(* A node that is processed has been started and has stored nothing yet. *)
LEMMA ProcessedNode ==
  ASSUME IInv, NEW n \in Node, activity[n] \in Processing
  PROVE  /\ lifecycle[n] = "started"
         /\ n \in currentlyProcessing
         /\ n \notin visitedNodes \cup erroredNodes \cup nodeResults
BY DEF IInv, PlaceInv, PlaceOK, LifeInv, LifeOK

LEMMA FinishIsStep ==
  ASSUME IInv, NEW n \in Node, FinishStep(n)
  PROVE  \E place : Step(n, place)
<1>1. PICK place \in {"settling", "stopping"} :
        /\ activity[n] \in Processing
        /\ place = "stopping" => aborted
        /\ NodeFinished(n, place)
  BY DEF FinishStep
<1>2. PICK out \in OutputsOf(n) : portValue' = WithOutputs(portValue, n, out)
  BY <1>1 DEF NodeFinished, StoreOutputs
<1>3. TypeOK
  BY DEF IInv
<1>4. /\ activity'[n] = place /\ lifecycle'[n] = "finished"
      /\ visitedNodes' = visitedNodes \cup {n}
      /\ nodeResults' = nodeResults \cup {n}
      /\ UNCHANGED <<runVars, remainingInputs, pumping, currentlyProcessing, erroredNodes>>
  BY <1>1, <1>3 DEF NodeFinished, StoreOutputs, Emit, Enter, TypeOK
<1>5. /\ lifecycle[n] = "started" /\ n \in currentlyProcessing
      /\ n \notin visitedNodes \cup erroredNodes \cup nodeResults
  BY <1>1, ProcessedNode
<1>6. Moves(n, place)
  BY <1>1, <1>3
  DEF NodeFinished, StoreOutputs, Emit, Enter, Moves, Untouched, Activity, Processing,
      Holding, TypeOK
<1>7. DataTyped' /\ pumping' \in BOOLEAN
  <2>1. portValue' \in [Connection -> PortValue]
    BY <1>2, <1>3, OutputsType DEF TypeOK
  <2>. QED
    BY <1>1, <1>3, <2>1 DEF NodeFinished, StoreOutputs, Emit, TypeOK, DataTyped, NodesTyped
<1>8. LifeOK(n)'
  BY <1>4, <1>5 DEF LifeOK
<1>9. PlaceOK(n)'
  BY <1>1, <1>4, <1>5 DEF PlaceOK, Processing, Through, Holding, runVars
<1>10. StoresFor(n)
  BY <1>2, <1>4, <1>5, ValuesKept DEF StoresFor
<1>11. DecisionOK(n)'
  BY <1>4, <1>5, <1>10, DecisionsHold, DecisionKept DEF runVars
<1>. QED
  BY <1>1, <1>4, <1>6, <1>7, <1>8, <1>9, <1>10, <1>11 DEF Step, Through, Processing

LEMMA FailIsStep ==
  ASSUME IInv, NEW n \in Node, FailStep(n)
  PROVE  \E place : Step(n, place)
<1>1. PICK explained \in BOOLEAN : activity[n] \in Processing /\ NodeFailed(n, explained)
  BY DEF FailStep
<1>2. PICK place \in {"settling", "stopping"} :
        /\ Enter(n, place)
        /\ place = "stopping" <=> abortSuccessfully /\ explained
  BY <1>1 DEF NodeFailed
<1>3. TypeOK /\ NodesTyped /\ (abortSuccessfully => aborted)
  BY TypeOfData DEF IInv, PhaseInv, DataTyped
<1>4. /\ activity'[n] = place
      /\ UNCHANGED <<runVars, remainingInputs, pumping, currentlyProcessing, visitedNodes>>
  BY <1>1, <1>2, <1>3 DEF NodeFailed, Enter, TypeOK
<1>5. /\ lifecycle[n] = "started" /\ n \in currentlyProcessing
      /\ n \notin visitedNodes \cup erroredNodes \cup nodeResults
  BY <1>1, ProcessedNode
<1>6. \/ /\ abortSuccessfully /\ explained /\ lifecycle'[n] = "excluded"
         /\ nodeResults' = nodeResults \cup {n} /\ UNCHANGED erroredNodes
         /\ portValue' = WithOutputs(portValue, n, ExcludedOutputs)
      \/ /\ ~ (abortSuccessfully /\ explained) /\ lifecycle'[n] = "errored"
         /\ erroredNodes' = erroredNodes \cup {n} /\ UNCHANGED <<nodeResults, portValue>>
  BY <1>1, <1>3 DEF NodeFailed, NodeErrored, Emit, TypeOK
<1>7. \A p \in Node \ {n} : Untouched(p)
  BY <1>1, <1>3, <1>4, ErroredEvent DEF NodeFailed, Untouched
<1>8. Moves(n, place)
  BY <1>1, <1>2, <1>4, <1>6, <1>7 DEF Enter, Moves, Activity, Processing, Holding
<1>9. DataTyped' /\ pumping' \in BOOLEAN
  BY <1>1, <1>3, <1>4, NodeErroredType DEF NodeFailed, DataTyped, NodesTyped, TypeOK
<1>10. LifeOK(n)'
  BY <1>4, <1>5, <1>6 DEF LifeOK
<1>11. PlaceOK(n)'
  BY <1>2, <1>3, <1>4, <1>5, <1>6 DEF PlaceOK, Processing, Through, Holding, runVars
<1>12. StoresFor(n)
  BY <1>4, <1>5, <1>6, ValuesKept DEF StoresFor
<1>13. DecisionOK(n)'
  BY <1>3, <1>4, <1>6 DEF DecisionOK, runVars
<1>. QED
  BY <1>1, <1>4, <1>8, <1>9, <1>10, <1>11, <1>12, <1>13 DEF Step, Through, Processing

LEMMA SettleIsStep ==
  ASSUME IInv, NEW n \in Node, NodeSettled(n)
  PROVE  \E place : Step(n, place)
<1>1. PICK place \in {"returned", "leaving"} :
        Enter(n, place) /\ (place = "returned" <=> activity[n] = "settling")
  BY DEF NodeSettled
<1>2. /\ activity[n] \in {"settling", "stopping"}
      /\ visitedNodes' = visitedNodes \cup {n}
      /\ currentlyProcessing' = currentlyProcessing \ {n}
      /\ UNCHANGED <<runVars, remainingInputs, pumping, erroredNodes, nodeResults,
                     portValue, lifecycle>>
  BY DEF NodeSettled
<1>3. TypeOK /\ LifeOK(n) /\ PlaceOK(n)
  BY DEF IInv, LifeInv, PlaceInv
<1>4. activity'[n] = place
  BY <1>1, <1>3 DEF Enter, TypeOK
<1>5. Moves(n, place)
  BY <1>1, <1>2 DEF Enter, Moves, Untouched, Activity
<1>6. DataTyped' /\ pumping' \in BOOLEAN
  BY <1>2, <1>3 DEF TypeOK, DataTyped, NodesTyped
<1>7. LifeOK(n)'
  BY <1>2, <1>3 DEF LifeOK, PlaceOK
<1>8. PlaceOK(n)'
  BY <1>1, <1>2, <1>3, <1>4 DEF PlaceOK, Processing, Through, Holding, runVars
<1>9. StoresFor(n) /\ Same(n) /\ (aborted => aborted')
  BY <1>2 DEF StoresFor, Same, runVars
<1>10. DecisionOK(n)'
  BY <1>9, DecisionsHold, DecisionKept
<1>11. place = "leaving" => aborted
  BY <1>1, <1>2, <1>3 DEF PlaceOK
<1>. QED
  BY <1>1, <1>2, <1>5, <1>6, <1>7, <1>8, <1>9, <1>10, <1>11 DEF Step, Through

LEMMA LeaveIsStep ==
  ASSUME IInv, NEW n \in Node, LeaveAndPump(n)
  PROVE  Step(n, "done")
<1>1. /\ activity[n] = "leaving" /\ Enter(n, "done")
      /\ UNCHANGED <<runVars, remainingInputs, currentlyProcessing, dataVars>>
      /\ pumping' = TRUE
  BY DEF LeaveAndPump
<1>2. TypeOK /\ LifeOK(n) /\ PlaceOK(n)
  BY DEF IInv, LifeInv, PlaceInv
<1>3. activity'[n] = "done"
  BY <1>1, <1>2 DEF Enter, TypeOK
<1>4. Moves(n, "done")
  BY <1>1 DEF Enter, Moves, Untouched, Activity, Resting, dataVars
<1>5. DataTyped' /\ pumping' \in BOOLEAN
  BY <1>1, <1>2 DEF TypeOK, DataTyped, NodesTyped, dataVars
<1>6. LifeOK(n)'
  BY <1>1, <1>2 DEF LifeOK, dataVars
<1>7. PlaceOK(n)'
  BY <1>1, <1>2, <1>3 DEF PlaceOK, Processing, Through, Holding, dataVars
<1>8. StoresFor(n) /\ Same(n) /\ (aborted => aborted')
  BY <1>1 DEF StoresFor, Same, runVars, dataVars
<1>9. DecisionOK(n)'
  BY <1>8, DecisionsHold, DecisionKept
<1>. QED
  BY <1>1, <1>4, <1>5, <1>6, <1>7, <1>8, <1>9 DEF Step, Through, dataVars

(***************************************************************************)
(* The steps of a node preserve the invariant.                             *)
(***************************************************************************)
LEMMA PendingKept ==
  ASSUME visitedNodes \subseteq visitedNodes',
         \A m \in Node : activity[m] \in Through => activity'[m] \in Through,
         NEW n \in Node
  PROVE  Pending(n)' \subseteq Pending(n)
BY DEF Pending, InputNodesTo

(* The parts of the invariant about what nodes have stored. *)
NodesInv == PlaceInv /\ LifeInv /\ DecisionsStand

LEMMA StepKeepsNodes ==
  ASSUME IInv, NEW n \in Node, NEW place, Step(n, place)
  PROVE  NodesInv'
<1>1. ASSUME NEW p \in Node PROVE LifeOK(p)' /\ PlaceOK(p)' /\ DecisionOK(p)'
  <2>1. CASE p = n
    BY <2>1 DEF Step
  <2>2. CASE p # n
    <3>1. Untouched(p) /\ activity'[p] = activity[p] /\ UNCHANGED runVars
      BY <2>2 DEF Step, Moves, IInv, TypeOK
    <3>2. LifeOK(p)'
      BY <3>1 DEF Untouched, LifeOK, IInv, LifeInv
    <3>3. HasErroredInputNode(erroredNodes, p) => HasErroredInputNode(erroredNodes', p)
      BY DEF Step, Moves, HasErroredInputNode
    <3>4. PlaceOK(p)'
      BY <3>1, <3>3 DEF Untouched, PlaceOK, IInv, PlaceInv, runVars
    <3>5. DecisionOK(p)'
      BY <3>1, DecisionsHold, DecisionKept DEF Step, Same, Untouched, runVars
    <3>. QED BY <3>2, <3>4, <3>5
  <2>. QED BY <2>1, <2>2
<1>. QED BY <1>1 DEF NodesInv, LifeInv, PlaceInv, DecisionsStand, DecisionOK

LEMMA StepKeepsTypes ==
  ASSUME IInv, NEW n \in Node, NEW place, Step(n, place)
  PROVE  TypeOK'
<1>1. TypeOK
  BY DEF IInv
<1>2. activity' \in [Node -> Activity]
  BY <1>1 DEF Step, Moves, TypeOK
<1>3. Cardinality(Active') <= NodeConcurrency
  <2>1. CASE activity[n] = "ready"
    <3>1. HasFreeSlot /\ Active' \subseteq Active \cup {n}
      BY <2>1 DEF Step, Moves, Active
    <3>. QED BY <1>1, <3>1, SlotsKept DEF TypeOK
  <2>2. CASE activity[n] # "ready"
    <3>1. activity[n] \notin Resting
      BY <2>2 DEF Step, Moves, Resting
    <3>2. Active' \subseteq Active
      BY <3>1 DEF Step, Moves, Active
    <3>. QED BY <1>1, <3>2, SlotsKept DEF TypeOK
  <2>. QED BY <2>1, <2>2
<1>. QED
  BY <1>1, <1>2, <1>3, TypeOfData DEF Step, Moves, DataTyped, NodesTyped, TypeOK, runVars

LEMMA StepKeepsCounts ==
  ASSUME IInv, NEW n \in Node, NEW place, Step(n, place)
  PROVE  CountInv' /\ ReadyInv'
<1>0. TypeOK
  BY DEF IInv
<1>1. /\ activity'[n] = place /\ place # "waiting" /\ activity[n] # "waiting"
      /\ \A m \in Node \ {n} : activity'[m] = activity[m]
      /\ UNCHANGED remainingInputs
      /\ runPhase' = runPhase /\ aborted' = aborted
      /\ visitedNodes \subseteq visitedNodes'
      /\ \A m \in Node \ {n} : m \in visitedNodes' <=> m \in visitedNodes
  BY <1>0 DEF Step, Moves, TypeOK, runVars, Untouched
<1>2. ASSUME NEW p \in Node
      PROVE  /\ Pending(p)' \subseteq Pending(p)
             /\ ~ aborted => Pending(p)' = Pending(p)
             /\ Cardinality(Pending(p)') <= Cardinality(Pending(p))
             /\ Cardinality(Pending(p)) \in Nat
             /\ Cardinality(Pending(p)') \in Nat
             /\ remainingInputs'[p] = remainingInputs[p]
             /\ remainingInputs[p] \in Nat
  <2>1. Pending(p) \subseteq Node /\ Pending(p)' \subseteq Node
    BY DEF Pending, InputNodesTo
  <2>2. Pending(p)' \subseteq Pending(p)
    BY <1>1 DEF Step, Pending, InputNodesTo
  <2>3. ASSUME ~ aborted PROVE Pending(p) \subseteq Pending(p)'
    <3>1. ASSUME NEW m \in Pending(p) PROVE m \in Pending(p)'
      <4>1. m \in Node /\ m \in InputNodesTo(p)
        BY DEF Pending, InputNodesTo
      <4>2. CASE m # n
        BY <1>1, <4>1, <4>2 DEF Pending
      <4>3. CASE m = n
        BY <1>1, <2>3, <4>1, <4>3 DEF Pending, Step
      <4>. QED BY <4>2, <4>3
    <3>. QED BY <3>1
  <2>4. /\ Cardinality(Pending(p)') <= Cardinality(Pending(p))
        /\ Cardinality(Pending(p)) \in Nat
        /\ Cardinality(Pending(p)') \in Nat
    BY <2>1, <2>2, Fewer, NodesFinite
  <2>. QED BY <1>0, <1>1, <2>2, <2>3, <2>4 DEF TypeOK
<1>3. CountInv'
  <2>1. SUFFICES ASSUME Begun', NEW p \in Node
                 PROVE  /\ Cardinality(Pending(p)') <= remainingInputs'[p]
                        /\ ~ aborted /\ p \in RelevantNodes =>
                             remainingInputs'[p] = Cardinality(Pending(p)')
    BY <1>1 DEF CountInv, RelevantNodes, StartNodes, DependencyNodesDeep
  <2>2. /\ Cardinality(Pending(p)) <= remainingInputs[p]
        /\ ~ aborted /\ p \in RelevantNodes => remainingInputs[p] = Cardinality(Pending(p))
    BY <1>1, <2>1 DEF IInv, CountInv, Begun
  <2>3. CASE aborted
    BY <1>2, <2>2, <2>3
  <2>4. CASE ~ aborted
    BY <1>2, <2>2, <2>4
  <2>. QED BY <2>3, <2>4
<1>4. ReadyInv'
  <2>1. ASSUME NEW p \in Node, activity'[p] # "waiting" PROVE Pending(p)' = {}
    <3>1. activity[p] # "waiting"
      BY <1>1, <2>1
    <3>. QED BY <1>2, <3>1 DEF IInv, ReadyInv
  <2>2. ASSUME Begun', NEW p \in RelevantNodes, activity'[p] = "waiting"
        PROVE  remainingInputs'[p] > 0
    <3>1. p \in Node /\ activity[p] = "waiting"
      BY <1>1, <2>2 DEF RelevantNodes
    <3>. QED BY <1>1, <1>2, <2>2, <3>1 DEF IInv, ReadyInv, Begun
  <2>. QED BY <2>1, <2>2 DEF ReadyInv, RelevantNodes, StartNodes, DependencyNodesDeep
<1>. QED BY <1>3, <1>4

(* Nodes move only while the graph is being processed. *)
LEMMA StepKeepsPhase ==
  ASSUME IInv, NEW n \in Node, NEW place, Step(n, place)
  PROVE  PhaseInv'
<1>1. Begun
  <2>1. activity[n] # "waiting" /\ activity[n] # "done"
    BY DEF Step, Moves
  <2>2. n \in Active \/ n \in readyNodes
    BY <2>1 DEF Active, readyNodes, Resting
  <2>. QED BY <2>2 DEF IInv, PhaseInv, AllSettled
<1>. QED BY <1>1 DEF IInv, PhaseInv, Begun, Step, Moves, runVars

LEMMA StepKeepsInv ==
  ASSUME IInv, NEW n \in Node, NEW place, Step(n, place)
  PROVE  IInv'
BY StepKeepsNodes, StepKeepsTypes, StepKeepsCounts, StepKeepsPhase DEF IInv, NodesInv

(***************************************************************************)
(* A node that is through counts its outputs down.                         *)
(***************************************************************************)
LEMMA QueueKeepsInv ==
  ASSUME IInv, NEW n \in Node, QueueReadyOutputs(n)
  PROVE  IInv'
<1>. DEFINE told == OutputNodesFrom(n) \cap RelevantNodes
<1>0. TypeOK /\ DecisionsStand
  BY DEF IInv
<1>1. /\ activity[n] = "returned" /\ activity'[n] = "leaving"
      /\ UNCHANGED <<runVars, pumping, currentlyProcessing, dataVars>>
      /\ activity' \in [Node -> Activity]
      /\ \A p \in Node :
           remainingInputs'[p] = remainingInputs[p] - (IF p \in told THEN 1 ELSE 0)
      /\ \A p \in Node \ {n} :
           \/ activity'[p] = activity[p] /\ (p \in told /\ activity[p] = "waiting" =>
                                               ~ (remainingInputs'[p] <= 0))
           \/ /\ p \in told /\ activity[p] = "waiting" /\ activity'[p] = "ready"
              /\ remainingInputs'[p] <= 0
  BY <1>0 DEF QueueReadyOutputs, Activity, Resting, TypeOK
<1>2. runPhase = "draining"
  <2>1. n \in Active
    BY <1>1 DEF Active, Resting
  <2>. QED BY <2>1 DEF IInv, PhaseInv, AllSettled, Begun
<1>3. n \in visitedNodes /\ n \notin currentlyProcessing
  BY <1>1 DEF IInv, PlaceInv, PlaceOK, LifeInv, LifeOK, Holding
<1>. HIDE DEF told
<1>4. ASSUME NEW p \in Node
      PROVE  /\ Pending(p)' \subseteq Pending(p)
             /\ Cardinality(Pending(p)') \in Nat
             /\ remainingInputs'[p] \in Nat
             /\ Cardinality(Pending(p)') <= remainingInputs'[p]
             /\ ~ aborted /\ p \in RelevantNodes =>
                  remainingInputs'[p] = Cardinality(Pending(p)')
             /\ p \notin told => remainingInputs'[p] = remainingInputs[p]
  <2>1. Pending(p) \subseteq Node /\ Pending(p)' = Pending(p) \ {n}
    BY <1>1, <1>3 DEF Pending, InputNodesTo, Through, dataVars
  <2>2. n \in Pending(p) <=> p \in OutputNodesFrom(n)
    BY <1>1 DEF Pending, InputNodesTo, OutputNodesFrom, Through
  <2>3. /\ Cardinality(Pending(p)) <= remainingInputs[p]
        /\ ~ aborted /\ p \in RelevantNodes => remainingInputs[p] = Cardinality(Pending(p))
    BY <1>2 DEF IInv, CountInv, Begun
  <2>4. Cardinality(Pending(p)) \in Nat /\ Cardinality(Pending(p)') \in Nat
    BY <2>1, NodesFinite
  <2>5. remainingInputs[p] \in Nat
    BY <1>0 DEF TypeOK
  <2>6. CASE p \in OutputNodesFrom(n)
    <3>1. Cardinality(Pending(p)') = Cardinality(Pending(p)) - 1
      BY <2>1, <2>2, <2>6, OneFewer
    <3>2. p \in told <=> p \in RelevantNodes
      BY <2>6 DEF told
    <3>. QED BY <1>1, <2>1, <2>3, <2>4, <2>5, <3>1, <3>2
  <2>7. CASE p \notin OutputNodesFrom(n)
    <3>1. Pending(p)' = Pending(p) /\ p \notin told
      BY <2>1, <2>2, <2>7 DEF told
    <3>. QED BY <1>1, <2>3, <2>4, <2>5, <3>1
  <2>. QED BY <2>6, <2>7
<1>5. CountInv'
  BY <1>1, <1>4 DEF CountInv, runVars, RelevantNodes, StartNodes, DependencyNodesDeep
<1>6. ReadyInv'
  <2>1. ASSUME NEW p \in Node, activity'[p] # "waiting" PROVE Pending(p)' = {}
    <3>1. CASE activity[p] # "waiting"
      BY <1>4, <3>1 DEF IInv, ReadyInv
    <3>2. CASE activity[p] = "waiting"
      <4>1. remainingInputs'[p] <= 0
        BY <1>1, <2>1, <3>2
      <4>2. Cardinality(Pending(p)') = 0
        BY <1>4, <4>1
      <4>3. Pending(p)' \subseteq Node
        BY DEF Pending, InputNodesTo
      <4>. QED BY <4>2, <4>3, NoneLeft
    <3>. QED BY <3>1, <3>2
  <2>2. ASSUME NEW p \in RelevantNodes, activity'[p] = "waiting"
        PROVE  remainingInputs'[p] > 0
    <3>1. p \in Node /\ p # n /\ activity[p] = "waiting"
      BY <1>1, <2>2 DEF RelevantNodes
    <3>2. CASE p \in told
      BY <1>1, <1>4, <2>2, <3>1, <3>2
    <3>3. CASE p \notin told
      BY <1>2, <1>4, <2>2, <3>1, <3>3 DEF IInv, ReadyInv, Begun
    <3>. QED BY <3>2, <3>3
  <2>. QED BY <2>1, <2>2 DEF ReadyInv, RelevantNodes, StartNodes, DependencyNodesDeep
<1>7. PlaceInv'
  <2>1. ASSUME NEW p \in Node PROVE PlaceOK(p)'
    <3>1. PlaceOK(p)
      BY DEF IInv, PlaceInv
    <3>2. CASE p = n
      BY <1>1, <3>1, <3>2 DEF PlaceOK, Processing, Through, Holding, dataVars
    <3>3. CASE p # n
      BY <1>1, <3>1, <3>3 DEF PlaceOK, Processing, Through, Holding, dataVars, runVars
    <3>. QED BY <3>2, <3>3
  <2>. QED BY <2>1 DEF PlaceInv
<1>8. TypeOK'
  <2>1. remainingInputs' \in [Node -> Nat]
    BY <1>0, <1>4 DEF QueueReadyOutputs, TypeOK
  <2>2. Active' \subseteq Active
    BY <1>1 DEF Active, Resting
  <2>3. Cardinality(Active') <= NodeConcurrency
    BY <1>0, <1>3, <2>2, SlotsKept DEF TypeOK
  <2>. QED BY <1>0, <1>1, <2>1, <2>3 DEF TypeOK, runVars, dataVars
<1>9. LifeInv'
  BY <1>1 DEF IInv, LifeInv, LifeOK, dataVars
<1>10. DecisionsStand'
  BY <1>0, <1>1
  DEF DecisionsStand, dataVars, runVars, MustExclude, MustWait
<1>11. PhaseInv'
  BY <1>1, <1>2 DEF IInv, PhaseInv, Begun, runVars
<1>. QED BY <1>5, <1>6, <1>7, <1>8, <1>9, <1>10, <1>11 DEF IInv

LEMMA NodeStepInv ==
  ASSUME IInv, NEW n \in Node, Take(n) \/ NodeStep(n)
  PROVE  IInv'
<1>1. ASSUME \E place : Step(n, place) PROVE IInv'
  BY <1>1, StepKeepsInv
<1>. QED
  BY <1>1, NodeStepCases, QueueKeepsInv, SkipIsStep, ExcludeIsStep, BeginIsStep, StartIsStep,
     FinishIsStep, FailIsStep, SettleIsStep, LeaveIsStep
  DEF Take

(***************************************************************************)
(* The envelope, the host and the end of the pump.                         *)
(***************************************************************************)
(* A step in which no node moves, or only those that are resumed. *)
Elsewhere ==
  /\ activity' \in [Node -> Activity]
  /\ \A p \in Node : \/ activity'[p] = activity[p]
                     \/ activity[p] = "paused" /\ activity'[p] = "resumed"
  /\ UNCHANGED <<remainingInputs, currentlyProcessing, dataVars>>
  /\ runPhase' \in {"starting", "paused", "resumed", "draining", "erroring",
                    "resolved", "rejected"}
  /\ isPaused' \in BOOLEAN
  /\ aborted' \in BOOLEAN
  /\ abortSuccessfully' \in BOOLEAN
  /\ pumping' \in BOOLEAN
  /\ aborted => aborted'
  /\ abortSuccessfully' => aborted'
  /\ runPhase' = "draining" => runPhase = "draining"
  /\ runPhase' \in {"starting", "paused", "resumed"} =>
       runPhase \in {"starting", "paused", "resumed"}
  /\ runPhase' # "draining" => AllSettled /\ ~ pumping'

LEMMA ElsewhereKeepsInv == ASSUME IInv, Elsewhere PROVE IInv'
<1>0. TypeOK
  BY DEF IInv
<1>1. \A p \in Node : /\ activity'[p] \in Through <=> activity[p] \in Through
                      /\ activity'[p] = "waiting" <=> activity[p] = "waiting"
                      /\ activity'[p] = "ready" <=> activity[p] = "ready"
                      /\ activity'[p] \in Resting <=> activity[p] \in Resting
  BY DEF Elsewhere, Through, Resting
<1>2. Active' = Active /\ readyNodes' = readyNodes
  BY <1>1 DEF Active, readyNodes
<1>3. \A p \in Node : Pending(p)' = Pending(p)
  BY <1>1 DEF Elsewhere, Pending, InputNodesTo, dataVars
<1>4. TypeOK'
  BY <1>0, <1>2 DEF Elsewhere, TypeOK, dataVars
<1>5. LifeInv'
  BY DEF Elsewhere, dataVars, IInv, LifeInv, LifeOK
<1>6. PlaceInv'
  <2>1. ASSUME NEW p \in Node PROVE PlaceOK(p)'
    <3>1. PlaceOK(p)
      BY DEF IInv, PlaceInv
    <3>2. CASE activity'[p] = activity[p]
      BY <3>1, <3>2 DEF Elsewhere, PlaceOK, dataVars
    <3>3. CASE activity[p] = "paused" /\ activity'[p] = "resumed"
      BY <3>1, <3>3 DEF Elsewhere, PlaceOK, dataVars, Processing, Through, Holding
    <3>. QED BY <3>2, <3>3 DEF Elsewhere
  <2>. QED BY <2>1 DEF PlaceInv
<1>7. CountInv'
  BY <1>3
  DEF Elsewhere, IInv, CountInv, Begun, RelevantNodes, StartNodes, DependencyNodesDeep
<1>8. ReadyInv'
  BY <1>1, <1>3
  DEF Elsewhere, IInv, ReadyInv, Begun, RelevantNodes, StartNodes, DependencyNodesDeep
<1>9. PhaseInv'
  BY <1>1, <1>2 DEF Elsewhere, IInv, PhaseInv, Begun, AllSettled
<1>10. DecisionsStand'
  BY DEF Elsewhere, dataVars, IInv, DecisionsStand, MustExclude, MustWait
<1>. QED BY <1>4, <1>5, <1>6, <1>7, <1>8, <1>9, <1>10 DEF IInv

LEMMA BeginKeepsInv ==
  ASSUME IInv, runPhase \in {"starting", "resumed"}, BeginPumping
  PROVE  IInv'
<1>0. TypeOK
  BY DEF IInv
<1>1. \A p \in Node : activity[p] = "waiting"
  BY DEF IInv, PhaseInv
<1>2. /\ runPhase' = "draining" /\ pumping' = TRUE
      /\ UNCHANGED <<isPaused, aborted, abortSuccessfully, currentlyProcessing, dataVars>>
      /\ \A p \in Node :
           /\ remainingInputs'[p] = Cardinality(InputNodesTo(p))
           /\ activity'[p] \in {"waiting", "ready"}
           /\ activity'[p] = "ready" <=> p \in RelevantNodes /\ InputNodesTo(p) = {}
  BY DEF BeginPumping
<1>3. ASSUME NEW p \in Node
      PROVE  /\ Pending(p)' = InputNodesTo(p) /\ Pending(p) = InputNodesTo(p)
             /\ Cardinality(InputNodesTo(p)) \in Nat
             /\ Cardinality(InputNodesTo(p)) = 0 <=> InputNodesTo(p) = {}
  <2>1. InputNodesTo(p) \subseteq Node
    BY DEF InputNodesTo
  <2>2. Pending(p)' = InputNodesTo(p) /\ Pending(p) = InputNodesTo(p)
    BY <1>1, <1>2, <2>1 DEF Pending, Through
  <2>. QED BY <2>1, <2>2, NodesFinite, NoneLeft
<1>4. TypeOK'
  <2>1. remainingInputs' \in [Node -> Nat]
    BY <1>3 DEF BeginPumping
  <2>2. activity' \in [Node -> Activity]
    BY DEF BeginPumping, Activity, Resting
  <2>3. Active' \subseteq Active
    BY <1>2 DEF Active, Resting
  <2>4. Cardinality(Active) <= NodeConcurrency /\ Active \subseteq Node /\ Active' \subseteq Node
    BY <1>0 DEF TypeOK, Active
  <2>5. Cardinality(Active') <= NodeConcurrency
    BY <2>3, <2>4, Fewer, NodesFinite, ProcessorAssumption
  <2>. QED BY <1>0, <1>2, <2>1, <2>2, <2>5 DEF TypeOK, dataVars
<1>5. LifeInv'
  BY <1>2 DEF dataVars, IInv, LifeInv, LifeOK
<1>6. PlaceInv'
  BY <1>1, <1>2 DEF IInv, PlaceInv, PlaceOK, dataVars, Processing, Through, Holding
<1>7. CountInv'
  BY <1>2, <1>3 DEF CountInv, RelevantNodes, StartNodes, DependencyNodesDeep
<1>8. ReadyInv'
  <2>1. ASSUME NEW p \in Node, activity'[p] # "waiting" PROVE Pending(p)' = {}
    BY <1>2, <1>3, <2>1
  <2>2. ASSUME NEW p \in RelevantNodes, activity'[p] = "waiting"
        PROVE  remainingInputs'[p] > 0
    <3>1. p \in Node
      BY DEF RelevantNodes
    <3>2. InputNodesTo(p) # {}
      BY <1>2, <2>2, <3>1
    <3>. QED BY <1>2, <1>3, <3>1, <3>2
  <2>. QED BY <2>1, <2>2 DEF ReadyInv, RelevantNodes, StartNodes, DependencyNodesDeep
<1>9. PhaseInv'
  BY <1>2 DEF IInv, PhaseInv, Begun
<1>10. DecisionsStand'
  BY <1>2 DEF dataVars, IInv, DecisionsStand, MustExclude, MustWait
<1>. QED BY <1>4, <1>5, <1>6, <1>7, <1>8, <1>9, <1>10 DEF IInv

(* Where the graph moves, but for the start of the pump. *)
LEMMA RunStepElsewhere ==
  ASSUME IInv,
         \/ PumpEnds
         \/ ~ pumping /\ (GraphStep \/ Pause \/ Resume \/ Abort \/ RunEnded)
         \/ UNCHANGED vars
  PROVE  Elsewhere \/ (runPhase \in {"starting", "resumed"} /\ BeginPumping)
<1>0. TypeOK /\ PhaseInv
  BY DEF IInv
<1>1. CASE PumpEnds
  BY <1>0, <1>1 DEF PumpEnds, Elsewhere, TypeOK, PhaseInv, Begun, runVars
<1>2. CASE ~ pumping /\ GraphStep
  <2>1. ASSUME NEW phase, GraphMoves(phase), ~ pumping,
               \/ runPhase \in {"starting", "paused", "resumed"} /\ phase \in {"paused", "rejected"}
               \/ runPhase = "draining" /\ AllSettled /\ phase \in {"erroring", "resolved"}
               \/ runPhase = "erroring" /\ phase = "rejected"
        PROVE  Elsewhere
    BY <1>0, <2>1 DEF GraphMoves, Elsewhere, TypeOK, PhaseInv, Begun
  <2>. QED
    BY <1>2, <2>1
    DEF GraphStep, GraphStarted, GraphUnpaused, PausedGraphAborted, GraphDrained,
        GraphErrorEmitted, RunResult
<1>3. CASE ~ pumping /\ Pause
  BY <1>0, <1>3 DEF Pause, Elsewhere, TypeOK, PhaseInv, Begun
<1>4. CASE ~ pumping /\ Resume
  <2>1. /\ activity' \in [Node -> Activity]
        /\ \A p \in Node : \/ activity'[p] = activity[p]
                           \/ activity[p] = "paused" /\ activity'[p] = "resumed"
    BY <1>0, <1>4 DEF Resume, TypeOK, Activity, Holding
  <2>. QED BY <1>0, <1>4, <2>1 DEF Resume, Elsewhere, TypeOK, PhaseInv, Begun
<1>5. CASE ~ pumping /\ Abort
  BY <1>0, <1>5 DEF Abort, Elsewhere, TypeOK, PhaseInv, Begun
<1>6. CASE RunEnded \/ UNCHANGED vars
  BY <1>0, <1>6 DEF RunEnded, vars, Elsewhere, TypeOK, PhaseInv, Begun, runVars
<1>. QED BY <1>1, <1>2, <1>3, <1>4, <1>5, <1>6

LEMMA InvStep == IInv /\ [Next]_vars => IInv'
<1>. SUFFICES ASSUME IInv, [Next]_vars PROVE IInv'
  OBVIOUS
<1>1. CASE \E n \in Node : Take(n) \/ NodeStep(n)
  BY <1>1, NodeStepInv
<1>2. CASE \/ PumpEnds
           \/ ~ pumping /\ (GraphStep \/ Pause \/ Resume \/ Abort \/ RunEnded)
           \/ UNCHANGED vars
  BY <1>2, RunStepElsewhere, ElsewhereKeepsInv, BeginKeepsInv
<1>. QED BY <1>1, <1>2 DEF Next, PumpStep, Take

LEMMA InitInv == Init => IInv
<1>. SUFFICES ASSUME Init PROVE IInv
  OBVIOUS
<1>1. TypeOK
  <2>1. Active = {}
    BY DEF Init, Active, Resting
  <2>2. Cardinality(Active) <= NodeConcurrency
    BY <2>1, FS_EmptySet, ProcessorAssumption
  <2>. QED BY <2>2 DEF Init, TypeOK, Activity, Resting, PortValue
<1>2. LifeInv /\ PlaceInv /\ DecisionsStand
  BY DEF Init, LifeInv, LifeOK, PlaceInv, PlaceOK, DecisionsStand, Processing, Through, Holding
<1>3. CountInv /\ ReadyInv
  BY DEF Init, CountInv, ReadyInv, Begun, RelevantNodes
<1>4. PhaseInv
  BY DEF Init, PhaseInv, Begun, AllSettled, Active, readyNodes, Resting
<1>. QED BY <1>1, <1>2, <1>3, <1>4 DEF IInv

LEMMA InvHolds == Spec => []IInv
BY InitInv, InvStep, PTL DEF Spec

(***************************************************************************)
(* What follows from the invariant.                                        *)
(***************************************************************************)
LEMMA SafetyHolds ==
  ASSUME IInv
  PROVE  TypeOK /\ ReadyNeverWaits /\ OnlyErrorsHoldBack
<1>0. TypeOK
  BY DEF IInv
<1>1. ReadyNeverWaits
  BY DEF IInv, ReadyInv, Pending, ReadyNeverWaits, readyNodes
<1>2. ASSUME runPhase = "draining", AllSettled, ~ aborted,
             NEW n \in RelevantNodes, lifecycle[n] = "none"
      PROVE  \E m \in InputNodesTo(n) : lifecycle[m] \in {"none", "errored"}
  <2>0. n \in Node
    BY DEF RelevantNodes
  <2>1. \A m \in Node : activity[m] \in {"waiting", "done"}
    BY <1>2 DEF AllSettled, Active, readyNodes, Resting
  <2>2. \A m \in Node : m \notin currentlyProcessing
    BY <2>1 DEF IInv, PlaceInv, PlaceOK, Holding
  <2>3. CASE activity[n] = "waiting"
    <3>1. remainingInputs[n] > 0 /\ remainingInputs[n] = Cardinality(Pending(n))
      BY <1>2, <2>0, <2>3 DEF IInv, CountInv, ReadyInv, Begun
    <3>2. Pending(n) # {}
      BY <3>1, FS_EmptySet
    <3>3. PICK m \in InputNodesTo(n) : m \notin visitedNodes \/ activity[m] = "waiting"
      BY <2>1, <3>2 DEF Pending, Through, InputNodesTo
    <3>4. m \in Node
      BY DEF InputNodesTo
    <3>5. lifecycle[m] \in {"none", "errored"}
      BY <1>0, <2>2, <3>3, <3>4 DEF TypeOK, IInv, LifeInv, LifeOK, PlaceInv, PlaceOK
    <3>. QED BY <3>5
  <2>4. CASE activity[n] = "done"
    <3>1. PICK m \in InputNodesTo(n) : m \in erroredNodes
      BY <1>2, <2>0, <2>4 DEF IInv, PlaceInv, PlaceOK, Through, HasErroredInputNode
    <3>2. lifecycle[m] = "errored"
      BY <1>0, <3>1 DEF TypeOK, IInv, LifeInv, LifeOK
    <3>. QED BY <3>2
  <2>. QED BY <2>0, <2>1, <2>3, <2>4
<1>. QED BY <1>0, <1>1, <1>2 DEF OnlyErrorsHoldBack

(* Every variable has its type, at most NodeConcurrency nodes are active, and
   no count of missing inputs goes below zero. *)
THEOREM FastTypeCorrect == Spec => []TypeOK
BY InvHolds, SafetyHolds, PTL

(* A node is never taken out of the ready list before its inputs are through. *)
THEOREM FastReadyNeverWaits == Spec => []ReadyNeverWaits
BY InvHolds, SafetyHolds, PTL

(* A run that drains without an abort has left out only nodes behind errors. *)
THEOREM FastOnlyErrorsHoldBack == Spec => []OnlyErrorsHoldBack
BY InvHolds, SafetyHolds, PTL

(* What was decided about a node still holds of all that is stored later. *)
THEOREM FastDecisionsStand == Spec => []DecisionsStand
<1>1. IInv => DecisionsStand
  BY DEF IInv
<1>. QED BY <1>1, InvHolds, PTL

(***************************************************************************)
(* The scheduler implements the abstract run.                              *)
(***************************************************************************)
LEMMA InvNodesOK == IInv => NodesOK
BY TypeOfData DEF IInv, PhaseInv, DataTyped, NodesOK

LEMMA NodeEventOfStep ==
  ASSUME IInv, NEW n \in Node, Take(n) \/ NodeStep(n)
  PROVE  Quiet \/ Lifecycle!NodeEvent(n)
<1>0. NodesOK
  BY InvNodesOK
<1>1. CASE \/ SkipNode(n) \/ StartStep(n) \/ NodeSettled(n) \/ QueueReadyOutputs(n)
           \/ LeaveAndPump(n)
  BY <1>1
  DEF SkipNode, StartStep, NodeStarted, NodeUnpaused, NodeSettled, QueueReadyOutputs,
      LeaveAndPump, runVars, dataVars, Quiet
<1>2. CASE ExcludeNode(n)
  BY <1>0, <1>2, ExclusionEvent DEF ExcludeNode, Lifecycle!NodeEvent
<1>3. CASE BeginNode(n)
  BY <1>0, <1>3, BeginEvent DEF BeginNode
<1>4. CASE FinishStep(n)
  <2>1. lifecycle[n] = "started"
    BY <1>4, ProcessedNode DEF FinishStep
  <2>. QED BY <1>4, <2>1, FinishEvent DEF FinishStep, NodeFinished, Lifecycle!NodeEvent
<1>5. CASE FailStep(n)
  <2>1. PICK explained \in BOOLEAN : NodeErrored(n, explained) /\ UNCHANGED runVars
    BY <1>5 DEF FailStep, NodeFailed
  <2>2. lifecycle[n] = "started"
    BY <1>5, ProcessedNode DEF FailStep
  <2>. QED BY <1>0, <2>1, <2>2, ErrorEvent DEF Lifecycle!NodeEvent
<1>. QED BY <1>1, <1>2, <1>3, <1>4, <1>5, NodeStepCases DEF Take

(* Without errors nothing was held back: of the nodes left out, one would
   have all its inputs through. *)
LEMMA DrainedComplete ==
  ASSUME IInv, runPhase = "draining", ~ pumping, AllSettled, ~ aborted, erroredNodes = {}
  PROVE  Lifecycle!Complete
<1>0. TypeOK
  BY DEF IInv
<1>. DEFINE Left == {n \in RelevantNodes : lifecycle[n] = "none"}
<1>1. Left = {}
  <2>. SUFFICES ASSUME Left # {} PROVE FALSE
    OBVIOUS
  <2>1. Left \in SUBSET Node
    BY DEF RelevantNodes
  <2>. HIDE DEF Left
  <2>2. PICK n \in Left : InputNodesTo(n) \cap Left = {}
    BY <2>1, AcyclicAssumption
  <2>. USE DEF Left
  <2>3. n \in RelevantNodes /\ lifecycle[n] = "none"
    BY <2>2
  <2>4. PICK m \in InputNodesTo(n) : lifecycle[m] \in {"none", "errored"}
    BY <2>3, SafetyHolds DEF OnlyErrorsHoldBack
  <2>5. m \in Node /\ <<m, n>> \in Connection
    BY DEF InputNodesTo
  <2>6. lifecycle[m] = "none"
    BY <2>4, <2>5 DEF IInv, LifeInv, LifeOK
  <2>7. m \in RelevantNodes
    <3>1. PICK s \in StartNodes : n \in DependencyNodesDeep[s]
      BY <2>3 DEF RelevantNodes
    <3>2. s \in Node
      BY GraphAssumption DEF StartNodes
    <3>3. m \in DependencyNodesDeep[s]
      BY <2>5, <3>1, <3>2, DependenciesClosed DEF ClosedUpstream
    <3>. QED BY <2>5, <3>3 DEF RelevantNodes
  <2>. QED BY <2>2, <2>6, <2>7
<1>2. ASSUME NEW n \in StartNodes PROVE n \in Lifecycle!Settled
  <2>1. n \in Node
    BY GraphAssumption DEF StartNodes
  <2>2. n \in RelevantNodes
    BY <2>1, DependsOnSelf DEF RelevantNodes
  <2>3. lifecycle[n] # "none" /\ lifecycle[n] # "errored"
    BY <1>1, <2>1, <2>2 DEF IInv, LifeInv, LifeOK
  <2>4. lifecycle[n] # "started"
    BY <2>1 DEF AllSettled, Active, readyNodes, Resting, IInv, PlaceInv, PlaceOK, Through
  <2>. QED
    BY <1>0, <2>1, <2>3, <2>4 DEF TypeOK, Lifecycle!Settled, Lifecycle!NodesThat
<1>. QED BY <1>2, SameGraph DEF Lifecycle!Complete

(* Nothing is in the air when no node is active or ready. *)
LEMMA NoneStarted ==
  ASSUME IInv, AllSettled
  PROVE  Lifecycle!NodesThat("started") = {}
BY DEF AllSettled, Active, readyNodes, Resting, IInv, PlaceInv, PlaceOK, Through,
       Lifecycle!NodesThat

LEMMA DrainedEvent ==
  ASSUME IInv, ~ pumping, GraphDrained
  PROVE  Lifecycle!Next
<1>1. /\ runPhase = "draining" /\ AllSettled
      /\ UNCHANGED <<lifecycle, portValue, aborted, abortSuccessfully>>
      /\ runPhase' = RunResult
      /\ abortSuccessfully => aborted
  BY DEF GraphDrained, GraphMoves, dataVars, IInv, PhaseInv
<1>2. Lifecycle!NodesThat("started") = {}
  BY <1>1, NoneStarted
<1>3. CASE erroredNodes # {} /\ ~ abortSuccessfully
  <2>1. Lifecycle!Reject
    BY <1>1, <1>3, ErroredSet, InvNodesOK DEF RunResult, Lifecycle!Reject
  <2>. QED BY <1>1, <1>2, <2>1 DEF Lifecycle!Next, Lifecycle!Conclude
<1>4. CASE ~ (erroredNodes # {} /\ ~ abortSuccessfully)
  <2>1. ~ aborted => Lifecycle!Complete
    BY <1>1, <1>4, DrainedComplete
  <2>2. Lifecycle!Resolve
    BY <1>1, <1>4, <2>1, ErroredSet, InvNodesOK DEF RunResult, Lifecycle!Resolve
  <2>. QED BY <1>1, <1>2, <2>2 DEF Lifecycle!Next, Lifecycle!Conclude
<1>. QED BY <1>3, <1>4

(* A run aborted at its pause gate. *)
LEMMA RejectedEvent ==
  ASSUME IInv, runPhase \in {"starting", "paused", "resumed"}, aborted, GraphMoves("rejected")
  PROVE  Lifecycle!Next
<1>1. \A n \in Node : lifecycle[n] = "none"
  BY DEF IInv, PhaseInv, PlaceInv, PlaceOK
<1>2. /\ Lifecycle!NodesThat("none") \cup Preloaded = Node
      /\ Lifecycle!NodesThat("started") = {}
  BY <1>1, FastAssumption DEF Lifecycle!NodesThat
<1>3. Lifecycle!Reject
  BY <1>2 DEF GraphMoves, Lifecycle!Reject
<1>. QED BY <1>2, <1>3 DEF GraphMoves, dataVars, Lifecycle!Next, Lifecycle!Conclude

LEMMA RunEventOfStep ==
  ASSUME IInv,
         \/ PumpEnds
         \/ ~ pumping /\ (GraphStep \/ Pause \/ Resume \/ Abort \/ RunEnded)
         \/ UNCHANGED vars
  PROVE  Lifecycle!Next \/ UNCHANGED Lifecycle!lifecycleVars
<1>1. CASE ~ pumping /\ GraphDrained
  BY <1>1, DrainedEvent
<1>2. CASE runPhase \in {"starting", "paused", "resumed"} /\ aborted /\ GraphMoves("rejected")
  BY <1>2, RejectedEvent
<1>3. CASE \/ runPhase \in {"starting", "resumed"} /\ (BeginPumping \/ GraphMoves("paused"))
           \/ GraphErrorEmitted
           \/ PumpEnds \/ Pause \/ Resume \/ RunEnded \/ UNCHANGED vars
  BY <1>3
  DEF BeginPumping, GraphMoves, GraphErrorEmitted, PumpEnds, Pause, Resume, RunEnded, vars,
      runVars, dataVars, Lifecycle!lifecycleVars
<1>4. CASE Abort
  <2>1. Lifecycle!Stop
    BY <1>4 DEF Abort, dataVars, Lifecycle!Stop
  <2>. QED BY <2>1 DEF Lifecycle!Next
<1>. QED
  BY <1>1, <1>2, <1>3, <1>4 DEF GraphStep, GraphStarted, GraphUnpaused, PausedGraphAborted

LEMMA EventOfStep ==
  ASSUME IInv, [Next]_vars
  PROVE  [Lifecycle!Next]_(Lifecycle!lifecycleVars)
<1>1. ASSUME NEW n \in Node, Take(n) \/ NodeStep(n)
      PROVE  Lifecycle!Next \/ UNCHANGED Lifecycle!lifecycleVars
  <2>1. runPhase = "draining"
    <3>1. activity[n] # "waiting" /\ activity[n] # "done"
      BY <1>1, NodeStepCases
      DEF Take, SkipNode, ExcludeNode, BeginNode, CanTake, StartStep, NodeStarted,
          NodeUnpaused, FinishStep, FailStep, Processing, NodeSettled, QueueReadyOutputs,
          LeaveAndPump
    <3>2. n \in Active \/ n \in readyNodes
      BY <3>1 DEF Active, readyNodes, Resting
    <3>. QED BY <3>2 DEF IInv, PhaseInv, AllSettled, Begun
  <2>. QED BY <1>1, <2>1, NodeEventOfStep, QuietStutters DEF Lifecycle!Next
<1>. QED BY <1>1, RunEventOfStep DEF Next, PumpStep, Take

LEMMA InitEventMap == Init => Lifecycle!Init
BY SameGraph, FastAssumption DEF Init, Lifecycle!Init, PortValue

(* Every run under the fast-acyclic scheduler is a run of NodeLifecycle. *)
THEOREM FastSchedulerImplementsLifecycle == Spec => ImplementsLifecycle
<1>1. IInv /\ [Next]_vars => [Lifecycle!Next]_(Lifecycle!lifecycleVars)
  BY EventOfStep
<1>. QED
  BY <1>1, InvHolds, InitEventMap, PTL DEF Spec, ImplementsLifecycle, Lifecycle!Spec

(* Under the fast-acyclic scheduler too the promise of run() settles only when
   no node is at work any more; it resolves when none has failed, a successful
   abort apart, and, if it was not aborted, every node nobody reads has come to
   its end; it rejects only for a failed node or an abort.  Its run ends when
   the last node has left. *)
THEOREM FastOutcomesAreEarned == Spec => []Lifecycle!OutcomeIsEarned
BY FastSchedulerImplementsLifecycle, EarnedOutcome, PTL
=============================================================================
