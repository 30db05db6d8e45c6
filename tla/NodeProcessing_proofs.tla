----------------------- MODULE NodeProcessing_proofs -----------------------
(***************************************************************************)
(* Lemmas about the graph and about what the processing of one node does,  *)
(* for both schedulers.                                                    *)
(***************************************************************************)
EXTENDS NodeProcessing, TLAPS, FiniteSetTheorems

(***************************************************************************)
(* Dependencies.                                                           *)
(***************************************************************************)
LEMMA DependsOnSelf ==
  ASSUME NEW n \in Node
  PROVE  n \in DependencyNodesDeep[n]
BY DEF DependencyNodesDeep

LEMMA DependenciesClosed ==
  ASSUME NEW n \in Node
  PROVE  ClosedUpstream(DependencyNodesDeep[n])
<1>. SUFFICES ASSUME NEW c \in Connection, c[2] \in DependencyNodesDeep[n]
              PROVE  c[1] \in DependencyNodesDeep[n]
  BY DEF ClosedUpstream
<1>1. c[1] \in Node
  BY GraphAssumption
<1>2. ASSUME NEW S \in SUBSET Node, n \in S, ClosedUpstream(S) PROVE c[1] \in S
  <2>1. c[2] \in S
    BY <1>2 DEF DependencyNodesDeep
  <2>. QED BY <1>2, <2>1 DEF ClosedUpstream
<1>. QED BY <1>1, <1>2 DEF DependencyNodesDeep

(***************************************************************************)
(* What a node stores.                                                     *)
(***************************************************************************)
NodesTyped ==
  /\ erroredNodes \subseteq Node
  /\ nodeResults \subseteq Node
  /\ portValue \in [Connection -> PortValue]
  /\ lifecycle \in [Node -> {"none", "started", "finished", "errored", "excluded"}]

LEMMA OutputsType ==
  ASSUME NEW n \in Node, portValue \in [Connection -> PortValue]
  PROVE  /\ WithOutputs(portValue, n, ExcludedOutputs) \in [Connection -> PortValue]
         /\ \A out \in OutputsOf(n) :
              WithOutputs(portValue, n, out) \in [Connection -> PortValue]
BY DEF WithOutputs, ExcludedOutputs, OutputsOf, PortValue

LEMMA NodeErroredType ==
  ASSUME NodesTyped, NEW n \in Node, NEW explained \in BOOLEAN,
         NodeErrored(n, explained)
  PROVE  /\ erroredNodes' \subseteq Node
         /\ nodeResults' \subseteq Node
         /\ portValue' \in [Connection -> PortValue]
         /\ lifecycle' \in [Node -> {"none", "started", "finished", "errored", "excluded"}]
<1>1. CASE abortSuccessfully /\ explained
  BY <1>1, OutputsType DEF NodeErrored, NodesTyped, Emit
<1>2. CASE ~ (abortSuccessfully /\ explained)
  BY <1>2 DEF NodeErrored, NodesTyped, Emit
<1>. QED BY <1>1, <1>2

(* A step leaves a node alone. *)
Untouched(p) ==
  /\ lifecycle'[p] = lifecycle[p]
  /\ p \in visitedNodes' <=> p \in visitedNodes
  /\ p \in erroredNodes' <=> p \in erroredNodes
  /\ p \in nodeResults' <=> p \in nodeResults
  /\ p \in currentlyProcessing' <=> p \in currentlyProcessing

LEMMA ErroredEvent ==
  ASSUME NodesTyped, NEW n \in Node, NEW explained \in BOOLEAN, NodeErrored(n, explained)
  PROVE  /\ \A p \in Node \ {n} :
              /\ lifecycle'[p] = lifecycle[p]
              /\ p \in erroredNodes' <=> p \in erroredNodes
              /\ p \in nodeResults' <=> p \in nodeResults
         /\ \/ /\ abortSuccessfully /\ lifecycle'[n] = "excluded" /\ n \in nodeResults'
               /\ UNCHANGED erroredNodes
            \/ /\ lifecycle'[n] = "errored" /\ n \in erroredNodes'
               /\ UNCHANGED <<nodeResults, portValue>>
<1>1. CASE abortSuccessfully /\ explained
  BY <1>1 DEF NodeErrored, Emit, NodesTyped
<1>2. CASE ~ (abortSuccessfully /\ explained)
  BY <1>2 DEF NodeErrored, Emit, NodesTyped
<1>. QED BY <1>1, <1>2

(***************************************************************************)
(* Decisions: see DecisionsStand.                                          *)
(***************************************************************************)
DecisionOK(n) ==
  /\ lifecycle[n] \in {"started", "finished"} =>
       /\ InputNodesTo(n) \subseteq visitedNodes
       /\ ~ HasErroredInputNode(erroredNodes, n)
       /\ ~ MustExclude(n)
  /\ lifecycle[n] = "excluded" /\ ~ aborted => MustExclude(n) /\ ~ MustWait(n)

(* What the connections out of other nodes carry is left alone. *)
LEMMA ValuesKept ==
  ASSUME NEW values, NEW n \in Node, NEW out
  PROVE  \A c \in Connection :
           c[1] # n => WithOutputs(values, n, out)[c] = values[c]
BY DEF WithOutputs

(* A step of a job changes the outputs and the errors of one node at most,
   and of none that was visited. *)
StoresFor(n) ==
  /\ visitedNodes \subseteq visitedNodes'
  /\ \A m \in Node \ {n} : m \in erroredNodes' <=> m \in erroredNodes
  /\ \A c \in Connection : c[1] # n => portValue'[c] = portValue[c]
  /\ \/ n \notin visitedNodes
     \/ UNCHANGED <<erroredNodes, portValue>>

(* A node all of whose inputs were visited sees nothing of the step. *)
LEMMA InputsKept ==
  ASSUME NEW p \in Node, StoresFor(p), NEW n \in Node, InputNodesTo(n) \subseteq visitedNodes
  PROVE  /\ InputNodesTo(n) \subseteq visitedNodes'
         /\ HasErroredInputNode(erroredNodes', n) <=> HasErroredInputNode(erroredNodes, n)
         /\ ExcludedByInputs(portValue', n) <=> ExcludedByInputs(portValue, n)
<1>1. \A m \in InputNodesTo(n) : m \in Node /\ <<m, n>> \in Connection
  BY DEF InputNodesTo
<1>2. \A m \in InputNodesTo(n) : portValue'[<<m, n>>] = portValue[<<m, n>>]
  BY <1>1 DEF StoresFor
<1>3. \A m \in InputNodesTo(n) : m \in erroredNodes' <=> m \in erroredNodes
  BY <1>1 DEF StoresFor
<1>4. HasExcludedInput(portValue', n) <=> HasExcludedInput(portValue, n)
  BY <1>2 DEF HasExcludedInput
<1>5. \A m \in Node : <<m, n>> \in IfPort => m \in InputNodesTo(n)
  BY GraphAssumption DEF InputNodesTo
<1>6. IfPortIsFalse(portValue', n) <=> IfPortIsFalse(portValue, n)
  BY <1>2, <1>5 DEF IfPortIsFalse
<1>7. HasErroredInputNode(erroredNodes', n) <=> HasErroredInputNode(erroredNodes, n)
  BY <1>3 DEF HasErroredInputNode
<1>8. InputNodesTo(n) \subseteq visitedNodes'
  BY DEF StoresFor
<1>. QED BY <1>4, <1>6, <1>7, <1>8 DEF ExcludedByInputs

(* A decision that the step did not make. *)
Same(n) == lifecycle'[n] = lifecycle[n]
LEMMA DecisionKept ==
  ASSUME NEW p \in Node, StoresFor(p), NEW n \in Node, DecisionOK(n),
         Same(n) \/ (lifecycle[n] = "started" /\ lifecycle'[n] = "finished"),
         aborted => aborted'
  PROVE  DecisionOK(n)'
<1>. USE DEF Same
<1>1. CASE lifecycle[n] \in {"started", "finished"}
  <2>1. InputNodesTo(n) \subseteq visitedNodes
    BY <1>1 DEF DecisionOK
  <2>. QED BY <1>1, <2>1, InputsKept DEF DecisionOK, MustExclude
<1>2. CASE lifecycle[n] = "excluded"
  <2>1. CASE n \in Disabled
    BY <1>2, <2>1 DEF DecisionOK, MustExclude, MustWait
  <2>2. CASE aborted
    BY <1>2, <2>2 DEF DecisionOK
  <2>3. CASE n \notin Disabled /\ ~ aborted
    <3>1. InputNodesTo(n) \subseteq visitedNodes /\ ExcludedByInputs(portValue, n)
      BY <1>2, <2>3 DEF DecisionOK, MustExclude, MustWait, WaitingForInputNode
    <3>. QED
      BY <1>2, <3>1, InputsKept DEF DecisionOK, MustExclude, MustWait, WaitingForInputNode
  <2>. QED BY <2>1, <2>2, <2>3
<1>3. CASE lifecycle'[n] \notin {"started", "finished", "excluded"}
  BY <1>3 DEF DecisionOK
<1>. QED BY <1>1, <1>2, <1>3

(***************************************************************************)
(* The abstract run.                                                       *)
(***************************************************************************)
(* Both modules read one graph. *)
LEMMA SameGraph ==
  /\ \A n : Lifecycle!InputNodesTo(n) = InputNodesTo(n)
  /\ Lifecycle!StartNodes = StartNodes
  /\ \A n : Lifecycle!BehindRunTo(n) = BehindRunTo(n)
  /\ Lifecycle!PortValue = PortValue
  /\ \A n : Lifecycle!OutputsOf(n) = OutputsOf(n)
  /\ Lifecycle!ExcludedOutputs = ExcludedOutputs
  /\ \A v, n, o : Lifecycle!WithOutputs(v, n, o) = WithOutputs(v, n, o)
  /\ \A e, n : Lifecycle!HasErroredInputNode(e, n) = HasErroredInputNode(e, n)
  /\ \A v, n : Lifecycle!ExcludedByInputs(v, n) = ExcludedByInputs(v, n)
<1>1. \A n : Lifecycle!InputNodesTo(n) = InputNodesTo(n)
  BY DEF InputNodesTo, Lifecycle!InputNodesTo
<1>2. \A n : Lifecycle!OutputNodesFrom(n) = OutputNodesFrom(n)
  BY DEF OutputNodesFrom, Lifecycle!OutputNodesFrom
<1>3. Lifecycle!StartNodes = StartNodes
  BY <1>2 DEF StartNodes, Lifecycle!StartNodes
<1>4. \A S : Lifecycle!ClosedUpstream(S) = ClosedUpstream(S)
  BY DEF ClosedUpstream, Lifecycle!ClosedUpstream
<1>5. Lifecycle!DependencyNodesDeep = DependencyNodesDeep
  BY <1>4 DEF DependencyNodesDeep, Lifecycle!DependencyNodesDeep
<1>6. \A n : Lifecycle!BehindRunTo(n) = BehindRunTo(n)
  BY <1>5 DEF BehindRunTo, Lifecycle!BehindRunTo
<1>7. Lifecycle!PortValue = PortValue
  BY DEF PortValue, Lifecycle!PortValue
<1>8. \A n : Lifecycle!OutputsOf(n) = OutputsOf(n)
  BY <1>7 DEF OutputsOf, Lifecycle!OutputsOf
<1>9. Lifecycle!ExcludedOutputs = ExcludedOutputs
  BY DEF ExcludedOutputs, Lifecycle!ExcludedOutputs
<1>10. \A v, n, o : Lifecycle!WithOutputs(v, n, o) = WithOutputs(v, n, o)
  BY DEF WithOutputs, Lifecycle!WithOutputs
<1>11. \A e, n : Lifecycle!HasErroredInputNode(e, n) = HasErroredInputNode(e, n)
  BY <1>1 DEF HasErroredInputNode, Lifecycle!HasErroredInputNode
<1>12. \A v, n : Lifecycle!ExcludedByInputs(v, n) = ExcludedByInputs(v, n)
  BY <1>1 DEF ExcludedByInputs, Lifecycle!ExcludedByInputs, HasExcludedInput,
              Lifecycle!HasExcludedInput, IfPortIsFalse, Lifecycle!IfPortIsFalse
<1>. QED BY <1>1, <1>3, <1>6, <1>7, <1>8, <1>9, <1>10, <1>11, <1>12

(* What is known of the nodes whichever scheduler runs them. *)
NodesOK == NodesTyped /\ LifeInv /\ (abortSuccessfully => aborted)

(* A node that is neither settled nor held has had no event. *)
LEMMA NoEventYet ==
  ASSUME NodesOK, NEW n \in Node,
         n \notin visitedNodes \cup erroredNodes \cup currentlyProcessing
  PROVE  lifecycle[n] = "none" /\ n \notin nodeResults
BY DEF NodesOK, NodesTyped, LifeInv, LifeOK

LEMMA ErroredSet ==
  ASSUME NodesOK
  PROVE  Lifecycle!NodesThat("errored") = erroredNodes
BY DEF NodesOK, NodesTyped, LifeInv, LifeOK, Lifecycle!NodesThat

LEMMA VisitedSettled ==
  ASSUME NodesOK, NEW n \in Node, n \in visitedNodes, n \notin erroredNodes
  PROVE  n \in Lifecycle!Settled
BY DEF NodesOK, NodesTyped, LifeInv, LifeOK, Lifecycle!Settled,
       Lifecycle!NodesThat

LEMMA TriedNodeReady ==
  ASSUME NodesOK, NEW n \in Node, ~ ShouldSkipNodeProcessing(n)
  PROVE  /\ lifecycle[n] = "none"
         /\ n \notin Disabled /\ ~ MustWait(n) => Lifecycle!Ready(n)
         /\ ~ HasErroredInputNode(Lifecycle!NodesThat("errored"), n)
<1>1. lifecycle[n] = "none"
  BY NoEventYet DEF ShouldSkipNodeProcessing
<1>2. ~ HasErroredInputNode(erroredNodes, n)
  BY DEF ShouldSkipNodeProcessing
<1>3. ASSUME n \notin Disabled, ~ MustWait(n) PROVE Lifecycle!Ready(n)
  <2>1. InputNodesTo(n) \subseteq visitedNodes
    BY <1>3 DEF MustWait, WaitingForInputNode
  <2>2. \A m \in InputNodesTo(n) : m \notin erroredNodes
    BY <1>2 DEF HasErroredInputNode
  <2>3. \A m \in InputNodesTo(n) : m \in Lifecycle!Settled
    BY <2>1, <2>2, VisitedSettled DEF InputNodesTo
  <2>. QED BY <2>3, SameGraph DEF Lifecycle!Ready
<1>. QED BY <1>1, <1>2, <1>3, ErroredSet

(* Nothing an observer sees. *)
Quiet == UNCHANGED <<lifecycle, portValue, aborted, abortSuccessfully, runPhase>>

LEMMA QuietStutters == Quiet => UNCHANGED Lifecycle!lifecycleVars
BY DEF Quiet, Lifecycle!lifecycleVars

LEMMA ExclusionEvent ==
  ASSUME NodesOK, NEW n \in Node, ~ ShouldSkipNodeProcessing(n), ~ MustWait(n),
         MustExclude(n), StoreExclusion(n), UNCHANGED runVars
  PROVE  Lifecycle!Exclude(n)
<1>1. lifecycle[n] = "none"
  BY TriedNodeReady
<1>2. \/ n \in Disabled /\ ~ Lifecycle!HasErroredInputNode(Lifecycle!NodesThat("errored"), n)
      \/ Lifecycle!Ready(n) /\ Lifecycle!ExcludedByInputs(portValue, n)
  BY TriedNodeReady, SameGraph DEF MustExclude
<1>3. /\ Lifecycle!Happens(n, "excluded")
      /\ portValue' = Lifecycle!WithOutputs(portValue, n, Lifecycle!ExcludedOutputs)
  BY SameGraph DEF StoreExclusion, Emit, Lifecycle!Happens
<1>. QED BY <1>1, <1>2, <1>3 DEF Lifecycle!Exclude, runVars

(* An error ends a node that was started, or one that an aborted run was
   about to start. *)
LEMMA ErrorEvent ==
  ASSUME NodesOK, NEW n \in Node, NEW explained \in BOOLEAN, NodeErrored(n, explained),
         UNCHANGED runVars,
         \/ lifecycle[n] = "started"
         \/ lifecycle[n] = "none" /\ aborted /\ explained /\ Lifecycle!Ready(n)
  PROVE  Lifecycle!Fail(n) \/ Lifecycle!Cancel(n)
<1>0. abortSuccessfully => aborted
  BY DEF NodesOK
<1>1. CASE abortSuccessfully /\ explained
  <2>1. /\ Lifecycle!Happens(n, "excluded")
        /\ portValue' = Lifecycle!WithOutputs(portValue, n, Lifecycle!ExcludedOutputs)
    BY <1>1, SameGraph DEF NodeErrored, Emit, Lifecycle!Happens
  <2>. QED BY <1>0, <1>1, <2>1 DEF Lifecycle!Cancel, runVars
<1>2. CASE ~ (abortSuccessfully /\ explained)
  <2>1. Lifecycle!Happens(n, "errored") /\ UNCHANGED portValue
    BY <1>2 DEF NodeErrored, Emit, Lifecycle!Happens
  <2>2. CASE lifecycle[n] = "started"
    BY <2>1, <2>2 DEF Lifecycle!Fail, runVars
  <2>3. CASE lifecycle[n] = "none" /\ aborted /\ explained /\ Lifecycle!Ready(n)
    BY <1>2, <2>1, <2>3 DEF Lifecycle!Cancel, runVars
  <2>. QED BY <2>2, <2>3
<1>. QED BY <1>1, <1>2

LEMMA BeginEvent ==
  ASSUME NodesOK, NEW n \in Node, ~ ShouldSkipNodeProcessing(n), ~ MustWait(n),
         ~ MustExclude(n), UNCHANGED runVars,
         IF aborted THEN NodeErrored(n, TRUE)
                    ELSE Emit(n, "started") /\ UNCHANGED portValue
  PROVE  Lifecycle!NodeEvent(n)
<1>1. lifecycle[n] = "none" /\ Lifecycle!Ready(n)
  BY TriedNodeReady DEF MustExclude
<1>2. CASE aborted
  BY <1>1, <1>2, ErrorEvent DEF Lifecycle!NodeEvent
<1>3. CASE ~ aborted
  <2>1. n \notin Disabled /\ ~ Lifecycle!ExcludedByInputs(portValue, n)
    BY SameGraph DEF MustExclude
  <2>2. Lifecycle!Happens(n, "started") /\ UNCHANGED portValue
    BY <1>3 DEF Emit, Lifecycle!Happens
  <2>3. Lifecycle!Start(n)
    BY <1>1, <1>3, <2>1, <2>2 DEF Lifecycle!Start, runVars
  <2>. QED BY <2>3 DEF Lifecycle!NodeEvent
<1>. QED BY <1>2, <1>3

LEMMA FinishEvent ==
  ASSUME NEW n \in Node, lifecycle[n] = "started", StoreOutputs(n), UNCHANGED runVars
  PROVE  Lifecycle!Finish(n)
<1>1. Lifecycle!Happens(n, "finished")
  BY DEF StoreOutputs, Emit, Lifecycle!Happens
<1>2. \E out \in Lifecycle!OutputsOf(n) : portValue' = Lifecycle!WithOutputs(portValue, n, out)
  BY SameGraph DEF StoreOutputs
<1>. QED BY <1>1, <1>2 DEF Lifecycle!Finish, runVars

(* A scheduler that implements the abstract run tells its caller the truth. *)
LEMMA EarnedOutcome == ImplementsLifecycle => []Lifecycle!OutcomeIsEarned
<1>1. Lifecycle!Init => Lifecycle!OutcomeIsEarned
  BY DEF Lifecycle!Init, Lifecycle!OutcomeIsEarned
<1>2. Lifecycle!OutcomeIsEarned /\ [Lifecycle!Next]_(Lifecycle!lifecycleVars)
        => Lifecycle!OutcomeIsEarned'
  <2>. SUFFICES ASSUME Lifecycle!OutcomeIsEarned, [Lifecycle!Next]_(Lifecycle!lifecycleVars)
                PROVE  Lifecycle!OutcomeIsEarned'
    OBVIOUS
  <2>1. CASE UNCHANGED Lifecycle!lifecycleVars
    BY <2>1 DEF Lifecycle!lifecycleVars, Lifecycle!OutcomeIsEarned, Lifecycle!NodesThat,
                Lifecycle!Complete, Lifecycle!Settled
  <2>2. CASE Lifecycle!Stop
    BY <2>2 DEF Lifecycle!Stop, Lifecycle!OutcomeIsEarned, Lifecycle!NodesThat,
                Lifecycle!Complete, Lifecycle!Settled
  <2>3. CASE Lifecycle!Conclude
    BY <2>3 DEF Lifecycle!Conclude, Lifecycle!Resolve, Lifecycle!Reject,
                Lifecycle!OutcomeIsEarned, Lifecycle!NodesThat, Lifecycle!Complete,
                Lifecycle!Settled
  <2>4. ASSUME NEW n \in Node, Lifecycle!NodeEvent(n), runPhase \notin {"erroring", "rejected", "resolved"}
        PROVE  Lifecycle!OutcomeIsEarned'
    BY <2>4 DEF Lifecycle!NodeEvent, Lifecycle!Start, Lifecycle!Finish, Lifecycle!Fail,
                Lifecycle!Exclude, Lifecycle!Cancel, Lifecycle!OutcomeIsEarned
  <2>. QED BY <2>1, <2>2, <2>3, <2>4 DEF Lifecycle!Next
<1>. QED BY <1>1, <1>2, PTL DEF ImplementsLifecycle, Lifecycle!Spec
=============================================================================
