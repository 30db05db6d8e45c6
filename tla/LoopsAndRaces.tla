--------------------------- MODULE LoopsAndRaces ---------------------------
(***************************************************************************)
(* The compatible scheduler on a graph with a loop controller and races:   *)
(* what it attaches to nodes, the nodes it runs again, the branches it     *)
(* cancels.  Pauses, if ports, disabled nodes and requested nodes are in   *)
(* GraphProcessor.                                                         *)
(*                                                                         *)
(* At most one connection joins two nodes, as in ProjectGraph.             *)
(***************************************************************************)
EXTENDS Integers, SequencesExt

CONSTANTS
  Node, Connection,   \* pairs <<output node, input node>>
  LoopController,     \* one node at most: nested loops are refused
  BreakPort,          \* the connections that leave its break port
  RaceInputs,         \* race nodes
  MayFail,            \* nodes whose process() may throw
  MayExclude,         \* nodes that may put out an excluded value
  MaxIterations,
  NodeConcurrency,
  HostAborts

ASSUME LoopAssumption ==
  /\ IsFiniteSet(Node) /\ Connection \subseteq Node \X Node
  /\ {LoopController, RaceInputs, MayFail, MayExclude} \subseteq SUBSET Node
  /\ Cardinality(LoopController) <= 1 /\ LoopController \cap RaceInputs = {}
  /\ BreakPort \subseteq Connection \cap (LoopController \X Node)
  /\ {MaxIterations, NodeConcurrency} \subseteq Nat \ {0}
  /\ HostAborts \in BOOLEAN

InputNodesTo(n) == {m \in Node : <<m, n>> \in Connection}
OutputNodesFrom(n) == {m \in Node : <<n, m>> \in Connection}

(* The nodes a value of n can get to. *)
Downstream ==
  [n \in Node |->
     {m \in Node : \A S \in SUBSET Node :
        n \in S /\ (\A c \in Connection : c[1] \in S => c[2] \in S) => m \in S}]
InSameCycle(m, n) == m \in Downstream[n] /\ n \in Downstream[m]

(* The nodes that a controller runs again, and those of its loop. *)
Body(l) == {n \in Node \ {l} : InSameCycle(n, l)}
LoopOf(l) == Body(l) \cup {l}

VARIABLES
  queue,               \* processingQueue: nodes to "fetch", and to "try" again
  proc,                \* the nodes being processed
  queuedNodes, currentlyProcessing, visitedNodes, erroredNodes,
  loopControllersSeen,
  outcome,             \* what nodeResults has for each node
  stamp,               \* history: the iterations of the loop that it rests on
  races,               \* attached data: the races a node runs for
  late,                \* history: attached to a race that was over
  loopInfo,            \* attached data: iterationCount of a loop, 0 without one
  loopNodes,           \* the nodes of that loop
  aborted              \* "no", "failed" or "successful"

setVars == <<queuedNodes, currentlyProcessing, visitedNodes, erroredNodes,
             loopControllersSeen>>
resultVars == <<outcome, stamp>>
attachedNodeData == <<races, late, loopInfo, loopNodes>>
vars == <<queue, proc, setVars, resultVars, attachedNodeData, aborted>>

(* "interrupted" is what the exclusion of a loop controller stores. *)
Outcome == {"none", "value", "excluded", "looping", "broken", "interrupted"}
NoRace == [raceIds |-> {}, completed |-> FALSE]
InRace(r) == {n \in Node : r \in races[n].raceIds}

(* What a connection carries. *)
PortValue(c) ==
  LET o == outcome[c[1]] IN
  CASE o = "none" -> "absent"
    [] c \in BreakPort /\ o = "broken" -> "value"
    [] c \in BreakPort /\ o \in {"looping", "interrupted"} -> "notBroken"
    [] c \notin BreakPort /\ o \in {"value", "looping"} -> "value"
    [] OTHER -> "excluded"

HasInput(n, value) == \E m \in InputNodesTo(n) : PortValue(<<m, n>>) = value

(* addAll takes them in the order of the connections, which is fixed. *)
Jobs(kind, nodes) ==
  LET order == SetToSeq(nodes) IN [i \in DOMAIN order |-> <<kind, order[i]>>]

Init ==
  /\ queue = Jobs("fetch", {n \in Node : OutputNodesFrom(n) = {}})
  /\ proc = {}
  /\ queuedNodes = {} /\ currentlyProcessing = {} /\ visitedNodes = {}
  /\ erroredNodes = {} /\ loopControllersSeen = {}
  /\ outcome = [n \in Node |-> "none"]
  /\ stamp = [n \in Node |-> {}]
  /\ races = [n \in Node |-> NoRace] /\ late = {}
  /\ loopInfo = [n \in Node |-> 0] /\ loopNodes = {}
  /\ aborted = "no"

-----------------------------------------------------------------------------
HasFreeSlot == Cardinality(proc) < NodeConcurrency

ShouldSkipNodeProcessing(n) ==
  \/ n \in currentlyProcessing \cup erroredNodes
  \/ n \in visitedNodes /\ n \notin LoopController
  \/ InputNodesTo(n) \cap erroredNodes # {}

ShouldSkipCompletedRaceNode_Never(n) == FALSE   \* mutant
ShouldSkipCompletedRaceNode(n) == races[n].completed

(* A race goes on with its first value; a controller that has not run yet
   does not wait for its own loop. *)
WaitingForInputNode(n) ==
  /\ ~ (n \in RaceInputs /\ HasInput(n, "value")
          /\ InputNodesTo(n) \cap visitedNodes # {})
  /\ \E m \in InputNodesTo(n) \ visitedNodes :
       ~ (n \in LoopController \ loopControllersSeen /\ InSameCycle(m, n))

RegisterNodeInActiveLoop_No(n) == loopNodes' = loopNodes   \* mutant
RegisterNodeInActiveLoop(n) ==
  loopNodes' = IF loopInfo[n] > 0 /\ n \notin LoopController
               THEN loopNodes \cup {n} ELSE loopNodes

(* The loop goes with every connection but those of the break port. *)
Propagated(n, info) ==
  [m \in Node |-> IF <<n, m>> \in Connection \ BreakPort /\ info > 0
                  THEN info ELSE loopInfo[m]]

(* Of those of S that have a result. *)
StampsOf(S) == UNION {stamp[m] : m \in {m \in S : outcome[m] # "none"}}
InputsInCycle(n) == {m \in InputNodesTo(n) : InSameCycle(m, n)}
StampOf(n) ==
  IF n \in LoopController THEN {loopInfo[n] + 1} ELSE StampsOf(InputNodesTo(n))

ExcludeNode(n, jobs) ==
  /\ RegisterNodeInActiveLoop(n)
  /\ visitedNodes' = visitedNodes \cup {n}
  /\ outcome' = [outcome EXCEPT ![n] = "excluded"]
  /\ stamp' = [stamp EXCEPT ![n] = StampOf(n)]
  /\ currentlyProcessing' = currentlyProcessing \ {n}
  /\ loopInfo' = Propagated(n, loopInfo[n])
  /\ queue' = jobs \o Jobs("try", OutputNodesFrom(n))
  /\ UNCHANGED <<proc, erroredNodes, loopControllersSeen>>

(* In a graph that was aborted the node fails as its first step. *)
BeginNode(n, jobs) ==
  /\ currentlyProcessing' = currentlyProcessing \cup {n}
  /\ loopControllersSeen' = loopControllersSeen \cup (LoopController \cap {n})
  /\ RegisterNodeInActiveLoop(n)
  /\ proc' = proc \cup {[node |-> n, stage |-> "running", stamp |-> StampOf(n),
                         reads |-> StampsOf(InputsInCycle(n)), pushes |-> aborted = "no",
                         signal |-> IF aborted = "no" THEN "none" ELSE "abort"]}
  /\ queue' = jobs
  /\ UNCHANGED <<visitedNodes, erroredNodes, resultVars, loopInfo>>

SkipNode(jobs) ==
  /\ queue' = jobs
  /\ UNCHANGED <<proc, currentlyProcessing, visitedNodes, erroredNodes,
                 loopControllersSeen, resultVars, loopInfo, loopNodes>>

(* processNodeIfAllInputsAvailable up to its first await. *)
Try(n, jobs) ==
  IF \/ ShouldSkipNodeProcessing(n) \/ ShouldSkipCompletedRaceNode(n)
     \/ HasInput(n, "notBroken") \/ WaitingForInputNode(n)
  THEN SkipNode(jobs)
  ELSE IF HasInput(n, "excluded") /\ n \notin LoopController \cup RaceInputs
  THEN ExcludeNode(n, jobs)
  ELSE BeginNode(n, jobs)

(* fetchNodeDataAndProcessNode: the inputs of a race, and what they need in
   turn, run for that race, be it over or not. *)
FetchNodeData(n) ==
  LET pointless == \/ n \in currentlyProcessing \cup queuedNodes \cup erroredNodes
                   \/ outcome[n] # "none"
                   \/ InputNodesTo(n) \cap erroredNodes # {}
      raceIds == races[n].raceIds \cup (RaceInputs \cap {n})
  IN
  IF pointless
  THEN SkipNode(Tail(queue)) /\ UNCHANGED <<queuedNodes, races, late>>
  ELSE /\ queuedNodes' = queuedNodes \cup {n}
       /\ races' = [m \in Node |->
            IF raceIds # {} /\ m \in InputNodesTo(n)
            THEN [raceIds |-> raceIds, completed |-> FALSE] ELSE races[m]]
       /\ late' = IF races[n].completed \/ n \in late THEN late \cup InputNodesTo(n) ELSE late
       /\ Try(n, Tail(queue) \o Jobs("fetch", InputNodesTo(n)))

NextJob ==
  /\ queue # <<>> /\ HasFreeSlot
  /\ \/ queue[1][1] = "fetch" /\ FetchNodeData(queue[1][2])
     \/ /\ queue[1][1] = "try"
        /\ Try(queue[1][2], Tail(queue))
        /\ UNCHANGED <<queuedNodes, races, late>>
  /\ UNCHANGED aborted

-----------------------------------------------------------------------------
(***************************************************************************)
(* process() ends.  The last event is awaited; the sets of the scheduler   *)
(* are brought up to date after that.                                      *)
(***************************************************************************)
Emits(p, pushes) ==
  proc' = (proc \ {p}) \cup {[p EXCEPT !.stage = "emitting", !.pushes = pushes]}

Store(p, o) ==
  /\ outcome' = [outcome EXCEPT ![p.node] = o]
  /\ stamp' = [stamp EXCEPT ![p.node] = p.stamp]

PastMaximum(p) == p.node \in LoopController /\ \E i \in p.stamp : i > MaxIterations

OutcomesOf(p) ==
  LET n == p.node
      defaultsExcluded == \E m \in InputNodesTo(n) :
                            ~ InSameCycle(m, n) /\ PortValue(<<m, n>>) = "excluded"
  IN IF n \in LoopController
     THEN IF defaultsExcluded THEN {"excluded"}
          ELSE IF PastMaximum(p) THEN {"broken"} ELSE {"looping", "broken"}
     ELSE IF n \in RaceInputs /\ ~ HasInput(n, "value") THEN {"excluded"}
     ELSE IF n \in MayExclude THEN {"value", "excluded"} ELSE {"value"}

Keeps(p) == p.signal = "none" \/ (p.signal = "abort" /\ aborted = "successful" /\ p.pushes)

NodeFinished(p) ==
  /\ p \in proc /\ p.stage = "running"
  /\ Keeps(p)
  /\ \E o \in OutcomesOf(p) : Store(p, o)
  /\ visitedNodes' = visitedNodes \cup {p.node}
  /\ Emits(p, p.signal = "none")
  /\ UNCHANGED <<queue, queuedNodes, currentlyProcessing, erroredNodes,
                 loopControllersSeen, attachedNodeData, aborted>>

(* nodeErrored: a branch that lost, or that a successful abort interrupted,
   is excluded; any other error is the node's. *)
NodeErrored(p) ==
  LET n == p.node
      lost == races[n].completed \/ p.signal = "race"
      stopped == p.signal = "abort" /\ aborted = "successful"
  IN /\ IF lost \/ stopped
        THEN Store(p, IF n \in LoopController THEN "interrupted" ELSE "excluded")
             /\ UNCHANGED erroredNodes
        ELSE erroredNodes' = erroredNodes \cup {n} /\ UNCHANGED resultVars
     /\ Emits(p, p.pushes /\ (lost \/ ~ stopped))

NodeFailed(p) ==
  /\ p \in proc /\ p.stage = "running"
  /\ \/ p.signal # "none"
     \/ p.node \in MayFail
     \/ PastMaximum(p)
  /\ NodeErrored(p)
  /\ UNCHANGED <<queue, queuedNodes, currentlyProcessing, visitedNodes,
                 loopControllersSeen, attachedNodeData, aborted>>

-----------------------------------------------------------------------------
(* A controller that did not break clears its loop.  The results it reads are
   those of an earlier iteration if it has failed now. *)
Cleared_InputsOnly(n) ==   \* mutant: clears the nodes next to it
  IF n \in LoopController /\ outcome[n] \in {"looping", "interrupted"}
  THEN loopNodes \cap InputNodesTo(n) \cap OutputNodesFrom(n) ELSE {}
Cleared(n) ==
  IF n \in LoopController /\ outcome[n] \in {"looping", "interrupted"}
  THEN loopNodes ELSE {}

(* A controller without results, as its first run failed: a TypeError ends
   the job here. *)
PostProcessThrows(n) == n \in LoopController /\ outcome[n] = "none"

Winners(r) == InRace(r)

(* A race that has been run is over for all that ran for it, and those being
   processed get the signal, except one that still awaits the listeners of its
   nodeStart (not a stage of its own here): it has no abort controller yet, and
   asks only for the signal of the graph when it has. *)
HandleCompletedRace(p) ==
  LET over == IF p.node \in RaceInputs THEN Winners(p.node) ELSE {}
      losers == {q \in proc \ {p} :
                   q.node \in over /\ q.stage = "running" /\ q.signal = "none"}
  IN
  /\ races' = [n \in Node |->
                 IF n \in over THEN [races[n] EXCEPT !.completed = TRUE] ELSE races[n]]
  /\ \E registered \in SUBSET losers :
       proc' = {IF q \in registered THEN [q EXCEPT !.signal = "race"] ELSE q : q \in proc \ {p}}

AssignChildLoopInfo_Stays(n) == IF n \in LoopController THEN 1 ELSE loopInfo[n]   \* mutant
AssignChildLoopInfo(n) ==
  IF n \in LoopController THEN loopInfo[n] + 1 ELSE loopInfo[n]

AfterLastEvent(p) ==
  LET n == p.node
      throws == PostProcessThrows(n)
      info == AssignChildLoopInfo(n)
  IN /\ visitedNodes' = (visitedNodes \cup {n}) \ Cleared(n)
     /\ currentlyProcessing' = currentlyProcessing \ ({n} \cup Cleared(n))
     /\ outcome' = [m \in Node |-> IF m \in Cleared(n) THEN "none" ELSE outcome[m]]
     /\ IF throws
        THEN proc' = proc \ {p} /\ UNCHANGED <<races, loopInfo, queue>>
        ELSE /\ HandleCompletedRace(p)
             /\ loopInfo' = [Propagated(n, info) EXCEPT ![n] = info]
             /\ queue' = IF p.pushes THEN queue \o Jobs("try", OutputNodesFrom(n)) ELSE queue
  /\ UNCHANGED <<queuedNodes, erroredNodes, loopControllersSeen, stamp,
                 late, loopNodes, aborted>>

Emitted(p) ==
  /\ p \in proc /\ p.stage = "emitting"
  /\ AfterLastEvent(p)

Abort ==
  /\ HostAborts
  /\ aborted = "no"
  /\ aborted' \in {"failed", "successful"}
  /\ proc' = {IF p.stage = "running" /\ p.signal = "none"
              THEN [p EXCEPT !.signal = "abort"] ELSE p : p \in proc}
  /\ UNCHANGED <<queue, setVars, resultVars, attachedNodeData>>

Idle == proc = {} /\ queue = <<>>

SchedulerStep ==
  \/ NextJob
  \/ \E p \in proc : NodeFinished(p) \/ NodeFailed(p) \/ Emitted(p)

Next ==
  \/ SchedulerStep
  \/ ~ Idle /\ Abort
  \/ Idle /\ UNCHANGED vars

Spec == Init /\ [][Next]_vars

(* Listeners return and process() ends. *)
FairSpec == Spec /\ WF_vars(SchedulerStep)

-----------------------------------------------------------------------------
(* Every variable has its type, and no more nodes are processed than slots. *)
TypeOK ==
  /\ stamp \in [Node -> SUBSET Nat] /\ loopInfo \in [Node -> Nat]
  /\ UNION {queuedNodes, currentlyProcessing, visitedNodes, erroredNodes, loopNodes, late} \subseteq Node
  /\ loopControllersSeen \subseteq LoopController
  /\ outcome \in [Node -> Outcome]
  /\ races \in [Node -> [raceIds : SUBSET RaceInputs, completed : BOOLEAN]]
  /\ aborted \in {"no", "failed", "successful"}
  /\ Cardinality(proc) <= NodeConcurrency

(* A node is never processed twice at a time, although the loop takes nodes
   out of currentlyProcessing. *)
OneJobPerNode == \A p, q \in proc : p.node = q.node => p = q

(* The loop goes in step: an iteration of the controller reads what the nodes
   of its loop made of the iteration before, all of them; and those work on
   the outputs of the last iteration, none on older ones.  A controller that
   broke or was excluded and is tried again makes no iteration. *)
IterationsKeepStep ==
  \A p \in proc, l \in LoopController :
    /\ p.node = l /\ p.stage = "running" /\ outcome[l] \notin {"broken", "excluded"}
         => p.reads \subseteq stamp[l]
    /\ p.node \in Body(l) => p.stamp = stamp[l]

(* The loop is sound while it turns: no node twice at a time, no more nodes
   than slots, and every node on the data of its own iteration. *)
LoopIsSound == TypeOK /\ OneJobPerNode /\ IterationsKeepStep

(* What it takes, beyond a few graphs.  All that the body feeds leads back to
   the controller, and the loop and the break port part the controller's
   readers; no race of the body starts on some of its inputs. *)
ClosedLoop ==
  \A l \in LoopController :
    /\ \A n \in Body(l) : OutputNodesFrom(n) \subseteq LoopOf(l) /\ n \notin RaceInputs
    /\ \A n \in OutputNodesFrom(l) : n \in LoopOf(l) <=> <<l, n>> \notin BreakPort

(* A node starts, or is excluded as its start. *)
Begins(n) ==
  \/ n \in currentlyProcessing' \ currentlyProcessing
  \/ n \in visitedNodes' \ (visitedNodes \cup currentlyProcessing)

(* And the listeners keep up with the loop: none of its nodes begins while the
   last event of one that it reads there is being awaited. *)
PromptLoop ==
  [][\A l \in LoopController : \A n \in LoopOf(l) : Begins(n) =>
       \A p \in proc : p.node \in InputNodesTo(n) \cap LoopOf(l) => p.stage = "running"]_vars

(* A run that neither failed nor was aborted does not stop in mid-loop: its
   controller broke, and all that waits for it was processed. *)
LoopGoesOn ==
  Idle /\ erroredNodes = {} /\ aborted = "no" =>
    /\ \A l \in LoopController : outcome[l] \in {"broken", "excluded"}
    /\ \A n \in Node : OutputNodesFrom(n) = {} => n \in visitedNodes

(* What that takes, beyond a few graphs.  Every circle passes a controller,
   and that closes one, leads to an end of the graph and to no race; its body
   reads from outside only what it reads itself; and what runs for a race runs
   for nothing else. *)
PassableGraph ==
  /\ \A S \in SUBSET Node \ {{}} :
       (\A n \in S : S \cap InputNodesTo(n) # {}) => S \cap LoopController # {}
  /\ \A l \in LoopController :
       /\ InputsInCycle(l) # {} /\ \E n \in Downstream[l] : OutputNodesFrom(n) = {}
       /\ Downstream[l] \cap RaceInputs = {}
       /\ \A n \in Body(l) : InputNodesTo(n) \subseteq LoopOf(l) \cup InputNodesTo(l)
  /\ \A r \in RaceInputs, n \in Node :
       n # r /\ r \in Downstream[n] => \A m \in OutputNodesFrom(n) : r \in Downstream[m]

UnhandledErroredNodes_All == erroredNodes   \* mutant
UnhandledErroredNodes == {n \in erroredNodes : ~ races[n].completed}

(* A race that has a result makes no failure of the run, whatever became of
   its other branches and whenever they did; but the needs of a branch that
   were fetched only then can. *)
WonRaceIsNoFailure ==
  \A r \in RaceInputs :
    outcome[r] = "value" /\ (\A p \in proc : p.node # r)
      => UnhandledErroredNodes \cap InRace(r) \subseteq late

(* No node of a race starts once the race is over, with the same exception. *)
NoLoserStarts ==
  [][\A r \in RaceInputs, n \in Node :
       /\ outcome[r] = "value" /\ (\A p \in proc : p.node # r)
       /\ r \in races[n].raceIds /\ n \notin currentlyProcessing \cup late
       => n \notin currentlyProcessing']_vars

(* Every run comes to an end, the loop by its break or its maximum. *)
RunEnds == <>Idle
=============================================================================
