----------------------- MODULE LoopsAndRaces_proofs -----------------------
(***************************************************************************)
(* Proofs about races and types, for every graph, with a loop or without;  *)
(* and about loops: what keeps them sound, and what makes a run go on      *)
(* until its loop has ended.                                               *)
(***************************************************************************)
EXTENDS LoopsAndRaces, TLAPS, FiniteSetTheorems, SequenceTheorems

Job == {"fetch", "try"} \X Node
RaceData == [raceIds : SUBSET RaceInputs, completed : BOOLEAN]

TypeInv ==
  /\ queue \in Seq(Job)
  /\ outcome \in [Node -> Outcome]
  /\ races \in [Node -> RaceData]
  /\ late \subseteq Node /\ currentlyProcessing \subseteq Node
  /\ \A p \in proc : p.node \in Node /\ "node" \in DOMAIN p

(* A race that has been run, and is not run again. *)
Over(r) == outcome[r] = "value" /\ \A p \in proc : p.node # r

(* A race that is over is so for all that are attached to it, but for those
   that were attached when it was. *)
RaceInv ==
  \A r \in RaceInputs, n \in Node :
    Over(r) /\ r \in races[n].raceIds => races[n].completed \/ n \in late

IInv == TypeInv /\ RaceInv

LEMMA GraphFacts ==
  /\ IsFiniteSet(Node) /\ RaceInputs \subseteq Node /\ LoopController \subseteq Node
  /\ LoopController \cap RaceInputs = {}
  /\ \A n \in Node : InputNodesTo(n) \subseteq Node /\ OutputNodesFrom(n) \subseteq Node
BY LoopAssumption DEF InputNodesTo, OutputNodesFrom

LEMMA JobsTyped ==
  ASSUME NEW S \in SUBSET Node, NEW kind \in {"fetch", "try"}
  PROVE  Jobs(kind, S) \in Seq(Job)
<1>. DEFINE n == Cardinality(S)
<1>1. IsFiniteSet(S)
  BY GraphFacts, FS_Subset
<1>2. n \in Nat /\ ExistsBijection(1 .. n, S)
  BY <1>1, FS_CardinalityType
<1>3. \E f \in [1 .. n -> S] : IsInjective(f)
  BY <1>2 DEF ExistsBijection, Bijection, Injection, IsInjective
<1>4. SetToSeq(S) \in [1 .. n -> S]
  BY <1>3 DEF SetToSeq
<1>5. Jobs(kind, S) \in [1 .. n -> Job]
  BY <1>4 DEF Jobs, Job
<1>. QED BY <1>2, <1>5

(***************************************************************************)
(* What a job of the queue does.                                           *)
(***************************************************************************)
LEMMA TryStep ==
  ASSUME TypeInv, NEW n \in Node, NEW jobs \in Seq(Job), Try(n, jobs)
  PROVE  /\ queue' \in Seq(Job)
         /\ outcome' \in [Node -> Outcome]
         /\ \A r \in Node : outcome'[r] = "value" => outcome[r] = "value"
         /\ proc \subseteq proc'
         /\ \A p \in proc' \ proc : p.node = n /\ "node" \in DOMAIN p
         /\ currentlyProcessing' \subseteq Node
         /\ currentlyProcessing' \subseteq currentlyProcessing
              \/ (currentlyProcessing' = currentlyProcessing \cup {n} /\ ~ races[n].completed)
<1>1. CASE SkipNode(jobs)
  BY <1>1 DEF SkipNode, resultVars, TypeInv
<1>2. CASE ExcludeNode(n, jobs)
  <2>1. Jobs("try", OutputNodesFrom(n)) \in Seq(Job)
    BY GraphFacts, JobsTyped
  <2>2. jobs \o Jobs("try", OutputNodesFrom(n)) \in Seq(Job)
    BY <2>1, ConcatProperties
  <2>. QED BY <1>2, <2>2 DEF ExcludeNode, TypeInv, Outcome
<1>3. CASE BeginNode(n, jobs) /\ ~ races[n].completed
  BY <1>3 DEF BeginNode, TypeInv, resultVars
<1>4. SkipNode(jobs) \/ ExcludeNode(n, jobs) \/ (BeginNode(n, jobs) /\ ~ races[n].completed)
  BY DEF Try, ShouldSkipCompletedRaceNode
<1>. QED BY <1>1, <1>2, <1>3, <1>4

(* A job that leaves the attached data as they are. *)
LEMMA OverShrinks ==
  ASSUME NEW r \in Node, outcome'[r] = "value" => outcome[r] = "value", proc \subseteq proc',
         Over(r)'
  PROVE  Over(r)
BY DEF Over

LEMMA FetchStep ==
  ASSUME IInv, NEW n \in Node, Tail(queue) \in Seq(Job), FetchNodeData(n)
  PROVE  /\ IInv'
         /\ currentlyProcessing' \subseteq currentlyProcessing
              \/ (currentlyProcessing' = currentlyProcessing \cup {n} /\ ~ races[n].completed)
<1>1. CASE SkipNode(Tail(queue)) /\ UNCHANGED <<queuedNodes, races, late>>
  BY <1>1 DEF SkipNode, resultVars, IInv, TypeInv, RaceInv, Over
<1>2. CASE ~ (SkipNode(Tail(queue)) /\ UNCHANGED <<queuedNodes, races, late>>)
  <2>. DEFINE raceIds == races[n].raceIds \cup (RaceInputs \cap {n})
              jobs == Tail(queue) \o Jobs("fetch", InputNodesTo(n))
  <2>1. /\ outcome[n] = "none"
        /\ races' = [m \in Node |->
             IF raceIds # {} /\ m \in InputNodesTo(n)
             THEN [raceIds |-> raceIds, completed |-> FALSE] ELSE races[m]]
        /\ late' = IF races[n].completed \/ n \in late THEN late \cup InputNodesTo(n) ELSE late
        /\ Try(n, jobs)
    BY <1>2 DEF FetchNodeData
  <2>2. jobs \in Seq(Job)
    BY GraphFacts, JobsTyped, ConcatProperties
  <2>3. raceIds \in SUBSET RaceInputs /\ races[n].completed \in BOOLEAN
    BY DEF IInv, TypeInv, RaceData
  <2>. HIDE DEF jobs
  <2>4. /\ queue' \in Seq(Job)
        /\ outcome' \in [Node -> Outcome]
        /\ \A r \in Node : outcome'[r] = "value" => outcome[r] = "value"
        /\ proc \subseteq proc'
        /\ \A p \in proc' \ proc : p.node = n /\ "node" \in DOMAIN p
        /\ currentlyProcessing' \subseteq Node
        /\ currentlyProcessing' \subseteq currentlyProcessing
             \/ (currentlyProcessing' = currentlyProcessing \cup {n} /\ ~ races[n].completed)
    BY <2>1, <2>2, TryStep DEF IInv
  <2>5. TypeInv'
    <3>1. races' \in [Node -> RaceData] /\ late' \subseteq Node
      BY <2>1, <2>3, GraphFacts DEF IInv, TypeInv, RaceData
    <3>2. \A p \in proc' : p.node \in Node /\ "node" \in DOMAIN p
      BY <2>4 DEF IInv, TypeInv
    <3>. QED BY <2>4, <3>1, <3>2 DEF TypeInv
  <2>6. RaceInv'
    <3>. SUFFICES ASSUME NEW r \in RaceInputs, NEW m \in Node, Over(r)', r \in races'[m].raceIds
                  PROVE  races'[m].completed \/ m \in late'
      BY DEF RaceInv
    <3>1. Over(r) /\ r \in Node
      BY <2>4, GraphFacts, OverShrinks
    <3>2. CASE raceIds # {} /\ m \in InputNodesTo(n)
      <4>1. r \in raceIds
        BY <2>1, <3>2
      <4>2. r # n
        BY <2>1, <3>1 DEF Over
      <4>3. races[n].completed \/ n \in late
        BY <3>1, <4>1, <4>2 DEF IInv, RaceInv
      <4>. QED BY <2>1, <3>2, <4>3
    <3>3. CASE ~ (raceIds # {} /\ m \in InputNodesTo(n))
      <4>1. races'[m] = races[m] /\ late \subseteq late'
        BY <2>1, <3>3
      <4>. QED BY <3>1, <4>1 DEF IInv, RaceInv
    <3>. QED BY <3>2, <3>3
  <2>. QED BY <2>4, <2>5, <2>6 DEF IInv
<1>. QED BY <1>1, <1>2

LEMMA NextJobStep ==
  ASSUME IInv, NextJob
  PROVE  /\ IInv'
         /\ \A n \in Node : n \notin currentlyProcessing /\ n \in currentlyProcessing'
              => ~ races[n].completed
<1>1. PICK n \in Node : queue # <<>> /\ Tail(queue) \in Seq(Job) /\ n = queue[1][2]
  <2>1. queue # <<>> /\ queue \in Seq(Job)
    BY DEF NextJob, IInv, TypeInv
  <2>2. queue[1] \in Job /\ Tail(queue) \in Seq(Job)
    BY <2>1, HeadTailProperties
  <2>. QED BY <2>1, <2>2 DEF Job
<1>2. CASE FetchNodeData(n)
  BY <1>1, <1>2, FetchStep
<1>3. CASE Try(n, Tail(queue)) /\ UNCHANGED <<queuedNodes, races, late>>
  <2>1. /\ queue' \in Seq(Job)
        /\ outcome' \in [Node -> Outcome]
        /\ \A r \in Node : outcome'[r] = "value" => outcome[r] = "value"
        /\ proc \subseteq proc'
        /\ \A p \in proc' \ proc : p.node = n /\ "node" \in DOMAIN p
        /\ currentlyProcessing' \subseteq Node
        /\ currentlyProcessing' \subseteq currentlyProcessing
             \/ (currentlyProcessing' = currentlyProcessing \cup {n} /\ ~ races[n].completed)
    BY <1>1, <1>3, TryStep DEF IInv
  <2>2. TypeInv'
    BY <1>3, <2>1 DEF IInv, TypeInv
  <2>3. \A r \in RaceInputs : Over(r)' => Over(r)
    BY <2>1, GraphFacts, OverShrinks
  <2>4. RaceInv'
    BY <1>3, <2>3 DEF IInv, RaceInv
  <2>. QED BY <2>1, <2>2, <2>4 DEF IInv
<1>. QED BY <1>1, <1>2, <1>3 DEF NextJob

(***************************************************************************)
(* The end of a node.                                                      *)
(***************************************************************************)
LEMMA JobGoesOn ==
  ASSUME NEW p, "node" \in DOMAIN p, NEW pushes
  PROVE  LET q == [p EXCEPT !.stage = "emitting", !.pushes = pushes]
         IN q.node = p.node /\ "node" \in DOMAIN q
OBVIOUS

LEMMA SignalKeepsNode ==
  ASSUME NEW p, "node" \in DOMAIN p, NEW signal
  PROVE  [p EXCEPT !.signal = signal].node = p.node /\ "node" \in DOMAIN [p EXCEPT !.signal = signal]
OBVIOUS

(* The same nodes are processed, with p's job at its last event. *)
LEMMA EmitsStep ==
  ASSUME TypeInv, NEW p \in proc, NEW pushes, Emits(p, pushes)
  PROVE  /\ \A q \in proc' : q.node \in Node /\ "node" \in DOMAIN q
         /\ \A q \in proc : \E s \in proc' : s.node = q.node
<1>. DEFINE e == [p EXCEPT !.stage = "emitting", !.pushes = pushes]
<1>1. e.node = p.node /\ "node" \in DOMAIN e
  BY JobGoesOn DEF TypeInv
<1>2. proc' = (proc \ {p}) \cup {e}
  BY DEF Emits
<1>. HIDE DEF e
<1>. QED BY <1>1, <1>2 DEF TypeInv

(* Some jobs get a signal. *)
Signalled(P, S, signal) == {IF q \in S THEN [q EXCEPT !.signal = signal] ELSE q : q \in P}

(* A race that has been run signals some of those that ran for it. *)
OverBy(n) == IF n \in RaceInputs THEN InRace(n) ELSE {}

LEMMA CompletedRace ==
  ASSUME NEW p, HandleCompletedRace(p)
  PROVE  /\ races' = [n \in Node |->
              IF n \in OverBy(p.node) THEN [races[n] EXCEPT !.completed = TRUE] ELSE races[n]]
         /\ \E S \in SUBSET {q \in proc : q.node \in OverBy(p.node) /\ q.stage = "running"} :
              proc' = Signalled(proc \ {p}, S, "race")
<1>. DEFINE losers == {q \in proc \ {p} :
                         q.node \in OverBy(p.node) /\ q.stage = "running" /\ q.signal = "none"}
<1>1. PICK S \in SUBSET losers : proc' = Signalled(proc \ {p}, S, "race")
  BY Zenon DEF HandleCompletedRace, Winners, OverBy, Signalled
<1>2. S \in SUBSET {q \in proc : q.node \in OverBy(p.node) /\ q.stage = "running"}
  OBVIOUS
<1>. QED BY <1>1, <1>2 DEF HandleCompletedRace, Winners, OverBy

LEMMA SignalStep ==
  ASSUME NEW P, NEW S, NEW signal, \A q \in P : q.node \in Node /\ "node" \in DOMAIN q
  PROVE  /\ \A q \in Signalled(P, S, signal) : q.node \in Node /\ "node" \in DOMAIN q
         /\ \A q \in P : \E s \in Signalled(P, S, signal) : s.node = q.node
<1>. DEFINE f(q) == IF q \in S THEN [q EXCEPT !.signal = signal] ELSE q
<1>1. \A q \in P : f(q).node = q.node /\ "node" \in DOMAIN f(q)
  BY SignalKeepsNode
<1>2. Signalled(P, S, signal) = {f(q) : q \in P}
  BY DEF Signalled
<1>. HIDE DEF f
<1>. QED BY <1>1, <1>2

LEMMA NodeFinishedInv ==
  ASSUME IInv, NEW p, NodeFinished(p)
  PROVE  IInv' /\ currentlyProcessing' = currentlyProcessing
<1>1. PICK o \in OutcomesOf(p) : Store(p, o)
  BY DEF NodeFinished
<1>2. /\ p \in proc /\ p.node \in Node /\ outcome' = [outcome EXCEPT ![p.node] = o]
      /\ Emits(p, p.signal = "none")
      /\ UNCHANGED <<queue, queuedNodes, currentlyProcessing, erroredNodes,
                     loopControllersSeen, attachedNodeData, aborted>>
  BY <1>1 DEF NodeFinished, Store, IInv, TypeInv
<1>3. o \in Outcome
  BY DEF OutcomesOf, Outcome
<1>4. /\ \A q \in proc' : q.node \in Node /\ "node" \in DOMAIN q
      /\ \A q \in proc : \E s \in proc' : s.node = q.node
  BY <1>2, EmitsStep DEF IInv
<1>5. TypeInv'
  BY <1>2, <1>3, <1>4 DEF IInv, TypeInv, attachedNodeData
<1>6. \A r \in RaceInputs : Over(r)' => Over(r)
  BY <1>2, <1>4, GraphFacts DEF Over, IInv, TypeInv
<1>7. RaceInv'
  BY <1>2, <1>6 DEF IInv, RaceInv, attachedNodeData
<1>. QED BY <1>2, <1>5, <1>7 DEF IInv

LEMMA NodeFailedInv ==
  ASSUME IInv, NEW p, NodeFailed(p)
  PROVE  IInv' /\ currentlyProcessing' = currentlyProcessing
<1>1. /\ p \in proc /\ p.node \in Node /\ NodeErrored(p)
      /\ UNCHANGED <<queue, queuedNodes, currentlyProcessing, visitedNodes,
                     loopControllersSeen, attachedNodeData, aborted>>
  BY DEF NodeFailed, IInv, TypeInv
<1>2. \/ outcome' = outcome
      \/ \E o \in {"interrupted", "excluded"} : outcome' = [outcome EXCEPT ![p.node] = o]
  BY <1>1 DEF NodeErrored, Store, resultVars
<1>3. \E pushes : Emits(p, pushes)
  BY <1>1 DEF NodeErrored
<1>4. /\ \A q \in proc' : q.node \in Node /\ "node" \in DOMAIN q
      /\ \A q \in proc : \E s \in proc' : s.node = q.node
  BY <1>1, <1>3, EmitsStep DEF IInv
<1>5. TypeInv'
  BY <1>1, <1>2, <1>4 DEF IInv, TypeInv, attachedNodeData, Outcome
<1>6. \A r \in RaceInputs : Over(r)' => Over(r)
  BY <1>1, <1>2, <1>4, GraphFacts DEF Over, IInv, TypeInv
<1>7. RaceInv'
  BY <1>1, <1>6 DEF IInv, RaceInv, attachedNodeData
<1>. QED BY <1>1, <1>5, <1>7 DEF IInv

LEMMA AbortInv ==
  ASSUME IInv, Abort
  PROVE  IInv' /\ currentlyProcessing' = currentlyProcessing
<1>. DEFINE S == {p \in proc : p.stage = "running" /\ p.signal = "none"}
<1>1. /\ proc' = Signalled(proc, S, "abort")
      /\ UNCHANGED <<queue, setVars, resultVars, attachedNodeData>>
  BY DEF Abort, Signalled
<1>2. \A q \in proc : q.node \in Node /\ "node" \in DOMAIN q
  BY DEF IInv, TypeInv
<1>. HIDE DEF S
<1>3. /\ \A q \in proc' : q.node \in Node /\ "node" \in DOMAIN q
      /\ \A q \in proc : \E s \in proc' : s.node = q.node
  BY <1>1, <1>2, SignalStep
<1>4. TypeInv'
  BY <1>1, <1>3 DEF IInv, TypeInv, attachedNodeData, resultVars, setVars
<1>5. \A r \in RaceInputs : Over(r)' => Over(r)
  BY <1>1, <1>3 DEF Over, resultVars
<1>6. RaceInv'
  BY <1>1, <1>5 DEF IInv, RaceInv, attachedNodeData
<1>. QED BY <1>1, <1>4, <1>6 DEF IInv, setVars

LEMMA EmittedInv ==
  ASSUME IInv, NEW p, Emitted(p)
  PROVE  IInv' /\ currentlyProcessing' \subseteq currentlyProcessing
<1>1. p \in proc /\ p.node \in Node /\ AfterLastEvent(p)
  BY DEF Emitted, IInv, TypeInv
<1>2. /\ outcome' = [m \in Node |-> IF m \in Cleared(p.node) THEN "none" ELSE outcome[m]]
      /\ currentlyProcessing' \subseteq currentlyProcessing
      /\ UNCHANGED <<queuedNodes, erroredNodes, loopControllersSeen, stamp, late, loopNodes, aborted>>
  BY <1>1 DEF AfterLastEvent
<1>3. outcome' \in [Node -> Outcome] /\ \A r \in Node : outcome'[r] = "value" => outcome[r] = "value"
  BY <1>2 DEF IInv, TypeInv, Outcome
<1>4. CASE PostProcessThrows(p.node)
  <2>1. /\ proc' = proc \ {p} /\ UNCHANGED <<races, queue>> /\ p.node \notin RaceInputs
    BY <1>1, <1>4, GraphFacts DEF AfterLastEvent, PostProcessThrows
  <2>2. TypeInv'
    BY <1>2, <1>3, <2>1 DEF IInv, TypeInv
  <2>3. \A r \in RaceInputs : Over(r)' => Over(r)
    BY <1>3, <2>1, GraphFacts DEF Over
  <2>4. RaceInv'
    BY <1>2, <2>1, <2>3 DEF IInv, RaceInv
  <2>. QED BY <1>2, <2>2, <2>4 DEF IInv
<1>5. CASE ~ PostProcessThrows(p.node)
  <2>. DEFINE over == IF p.node \in RaceInputs THEN InRace(p.node) ELSE {}
  <2>1. PICK S :
          /\ races' = [n \in Node |->
                         IF n \in over THEN [races[n] EXCEPT !.completed = TRUE] ELSE races[n]]
          /\ proc' = Signalled(proc \ {p}, S, "race")
    BY <1>1, <1>5, CompletedRace DEF AfterLastEvent, OverBy
  <2>2. queue' \in Seq(Job)
    <3>1. Jobs("try", OutputNodesFrom(p.node)) \in Seq(Job)
      BY <1>1, GraphFacts, JobsTyped
    <3>2. queue' = queue \o Jobs("try", OutputNodesFrom(p.node)) \/ queue' = queue
      BY <1>1, <1>5 DEF AfterLastEvent
    <3>3. queue \in Seq(Job)
      BY DEF IInv, TypeInv
    <3>4. queue \o Jobs("try", OutputNodesFrom(p.node)) \in Seq(Job)
      BY <3>1, <3>3, ConcatProperties
    <3>. QED BY <3>2, <3>3, <3>4
  <2>3. \A q \in proc \ {p} : q.node \in Node /\ "node" \in DOMAIN q
    BY DEF IInv, TypeInv
  <2>4. \A n \in Node : /\ races[n] \in RaceData /\ races'[n] \in RaceData
                        /\ races'[n].raceIds = races[n].raceIds
                        /\ races'[n].completed = (races[n].completed \/ n \in over)
    BY <2>1 DEF IInv, TypeInv, RaceData
  <2>5. \A n \in Node : p.node \in RaceInputs /\ p.node \in races[n].raceIds => n \in over
    BY DEF InRace
  <2>. HIDE DEF over
  <2>6. /\ \A q \in proc' : q.node \in Node /\ "node" \in DOMAIN q
        /\ \A q \in proc \ {p} : \E s \in proc' : s.node = q.node
    BY <2>1, <2>3, SignalStep
  <2>7. TypeInv'
    <3>1. races' \in [Node -> RaceData]
      BY <2>1, <2>4
    <3>. QED BY <1>2, <1>3, <2>2, <2>6, <3>1 DEF IInv, TypeInv
  <2>8. \A r \in RaceInputs : Over(r)' => Over(r) \/ r = p.node
    BY <1>3, <2>6, GraphFacts DEF Over
  <2>9. RaceInv'
    BY <1>2, <2>4, <2>5, <2>8 DEF IInv, RaceInv
  <2>. QED BY <1>2, <2>7, <2>9 DEF IInv
<1>. QED BY <1>4, <1>5

-----------------------------------------------------------------------------
LEMMA InitInv == Init => IInv
<1>. SUFFICES ASSUME Init PROVE IInv
  OBVIOUS
<1>1. Jobs("fetch", {n \in Node : OutputNodesFrom(n) = {}}) \in Seq(Job)
  BY JobsTyped
<1>2. TypeInv
  BY <1>1 DEF Init, TypeInv, Outcome, RaceData, NoRace
<1>3. RaceInv
  BY DEF Init, RaceInv, Over, NoRace
<1>. QED BY <1>2, <1>3 DEF IInv

LEMMA StepInv ==
  ASSUME IInv, [Next]_vars
  PROVE  /\ IInv'
         /\ \A n \in Node : n \notin currentlyProcessing /\ n \in currentlyProcessing'
              => ~ races[n].completed
<1>1. CASE NextJob
  BY <1>1, NextJobStep
<1>2. CASE \E p \in proc : NodeFinished(p) \/ NodeFailed(p) \/ Emitted(p)
  BY <1>2, NodeFinishedInv, NodeFailedInv, EmittedInv
<1>3. CASE Abort
  BY <1>3, AbortInv
<1>4. CASE UNCHANGED vars
  BY <1>4 DEF vars, setVars, resultVars, attachedNodeData, IInv, TypeInv, RaceInv, Over
<1>. QED BY <1>1, <1>2, <1>3, <1>4 DEF Next, SchedulerStep

LEMMA Invariance == Spec => []IInv
<1>1. IInv /\ [Next]_vars => IInv'
  BY StepInv
<1>. QED BY <1>1, InitInv, PTL DEF Spec

(* A race that has a result makes no failure of the run: whatever graph it is
   in, an error of a node that ran for it counts only if the node was attached
   when the race was over.  Of handleCompletedRace, nodeErrored and the choice
   of the errors that a run reports. *)
THEOREM WonRacesDoNotFail == Spec => []WonRaceIsNoFailure
<1>1. IInv => WonRaceIsNoFailure
  BY DEF IInv, RaceInv, WonRaceIsNoFailure, Over, UnhandledErroredNodes, InRace
<1>. QED BY <1>1, Invariance, PTL

(* And no node that was attached before starts once the race is over. *)
THEOREM LosersDoNotStart == Spec => NoLoserStarts
<1>. DEFINE A == \A r \in RaceInputs, n \in Node :
       /\ outcome[r] = "value" /\ (\A p \in proc : p.node # r)
       /\ r \in races[n].raceIds /\ n \notin currentlyProcessing \cup late
       => n \notin currentlyProcessing'
<1>1. IInv /\ [Next]_vars => [A]_vars
  <2>. SUFFICES ASSUME IInv, [Next]_vars PROVE A
    OBVIOUS
  <2>1. \A n \in Node : n \notin currentlyProcessing /\ n \in currentlyProcessing'
              => ~ races[n].completed
    BY StepInv
  <2>. QED BY <2>1 DEF IInv, RaceInv, Over
<1>2. Spec => [][A]_vars
  BY <1>1, Invariance, PTL DEF Spec
<1>. QED BY <1>2 DEF NoLoserStarts

-----------------------------------------------------------------------------
(***************************************************************************)
(* Types and slots, for every graph.                                       *)
(***************************************************************************)
Proc == [node : Node, stage : {"running", "emitting"}, stamp : SUBSET Nat,
         reads : SUBSET Nat, pushes : BOOLEAN, signal : {"none", "abort", "race"}]

SlotInv == proc \subseteq Proc /\ IsFiniteSet(proc) /\ Cardinality(proc) <= NodeConcurrency

DataInv ==
  /\ stamp \in [Node -> SUBSET Nat] /\ loopInfo \in [Node -> Nat]
  /\ queuedNodes \subseteq Node /\ visitedNodes \subseteq Node /\ erroredNodes \subseteq Node
  /\ loopNodes \subseteq Node \ LoopController
  /\ loopControllersSeen \subseteq LoopController
  /\ aborted \in {"no", "failed", "successful"}

TypesInv == IInv /\ SlotInv /\ DataInv

(* What a job of the queue does to all but the attached races. *)
MayTry(n) == ~ ShouldSkipNodeProcessing(n) /\ ~ WaitingForInputNode(n)
workVars == <<proc, currentlyProcessing, visitedNodes, erroredNodes, loopControllersSeen,
              resultVars, loopInfo, loopNodes>>
JobOf(n) ==
  \/ UNCHANGED workVars
  \/ MayTry(n) /\ \E jobs : BeginNode(n, jobs) \/ (n \notin LoopController /\ ExcludeNode(n, jobs))

NewJob(n) ==
  [node |-> n, stage |-> "running", stamp |-> StampOf(n),
   reads |-> StampsOf(InputsInCycle(n)), pushes |-> aborted = "no",
   signal |-> IF aborted = "no" THEN "none" ELSE "abort"]

LEMMA BeginIsNewJob ==
  ASSUME NEW n, NEW jobs, BeginNode(n, jobs)
  PROVE  /\ proc' = proc \cup {NewJob(n)}
         /\ NewJob(n).node = n /\ NewJob(n).stage = "running"
         /\ NewJob(n).stamp = StampOf(n) /\ NewJob(n).reads = StampsOf(InputsInCycle(n))
BY DEF BeginNode, NewJob

LEMMA TryIsJob ==
  ASSUME NEW n, NEW jobs, Try(n, jobs)
  PROVE  JobOf(n)
BY DEF Try, JobOf, MayTry, SkipNode, workVars

LEMMA NextJobIsJob ==
  ASSUME IInv, NextJob
  PROVE  /\ UNCHANGED aborted /\ HasFreeSlot
         /\ \E n \in Node : JobOf(n) /\ queuedNodes' \subseteq queuedNodes \cup {n}
<1>1. PICK n \in Node : queue # <<>> /\ n = queue[1][2]
  <2>1. queue # <<>> /\ queue \in Seq(Job)
    BY DEF NextJob, IInv, TypeInv
  <2>2. queue[1] \in Job
    BY <2>1, HeadTailProperties
  <2>. QED BY <2>1, <2>2 DEF Job
<1>2. CASE FetchNodeData(n)
  <2>. DEFINE jobs == Tail(queue) \o Jobs("fetch", InputNodesTo(n))
  <2>1. \/ SkipNode(Tail(queue)) /\ UNCHANGED queuedNodes
        \/ Try(n, jobs) /\ queuedNodes' = queuedNodes \cup {n}
    BY <1>2 DEF FetchNodeData
  <2>2. SkipNode(Tail(queue)) => JobOf(n)
    BY DEF SkipNode, JobOf, workVars
  <2>. HIDE DEF jobs
  <2>. QED BY <2>1, <2>2, TryIsJob DEF NextJob
<1>3. CASE Try(n, Tail(queue)) /\ UNCHANGED <<queuedNodes, races, late>>
  <2>1. JobOf(n)
    BY <1>3, TryIsJob
  <2>. QED BY <1>3, <2>1 DEF NextJob
<1>. QED BY <1>1, <1>2, <1>3 DEF NextJob

LEMMA StampsTyped ==
  ASSUME DataInv, NEW S \in SUBSET Node
  PROVE  StampsOf(S) \in SUBSET Nat
BY DEF StampsOf, DataInv

LEMMA StampOfTyped ==
  ASSUME DataInv, NEW n \in Node
  PROVE  StampOf(n) \in SUBSET Nat /\ StampsOf(InputsInCycle(n)) \in SUBSET Nat
<1>1. InputNodesTo(n) \in SUBSET Node /\ InputsInCycle(n) \in SUBSET Node
  BY GraphFacts DEF InputsInCycle
<1>2. StampsOf(InputNodesTo(n)) \in SUBSET Nat /\ StampsOf(InputsInCycle(n)) \in SUBSET Nat
  BY <1>1, StampsTyped
<1>3. loopInfo[n] + 1 \in Nat
  BY DEF DataInv
<1>. QED BY <1>2, <1>3 DEF StampOf

LEMMA PropagatedTyped ==
  ASSUME DataInv, NEW n \in Node, NEW info \in Nat
  PROVE  Propagated(n, info) \in [Node -> Nat]
BY DEF DataInv, Propagated

LEMMA EmitsTyped ==
  ASSUME SlotInv, NEW p \in proc, NEW pushes \in BOOLEAN, Emits(p, pushes)
  PROVE  SlotInv'
<1>. DEFINE e == [p EXCEPT !.stage = "emitting", !.pushes = pushes]
<1>1. e \in Proc /\ proc' = (proc \ {p}) \cup {e}
  BY DEF Emits, SlotInv, Proc
<1>2. IsFiniteSet(proc \ {p}) /\ Cardinality(proc \ {p}) = Cardinality(proc) - 1
  BY FS_RemoveElement DEF SlotInv
<1>. HIDE DEF e
<1>3. /\ IsFiniteSet(proc')
      /\ Cardinality(proc') \in {Cardinality(proc \ {p}), Cardinality(proc \ {p}) + 1}
  BY <1>1, <1>2, FS_AddElement
<1>4. Cardinality(proc) \in Nat
  BY FS_CardinalityType DEF SlotInv
<1>5. Cardinality(proc') <= NodeConcurrency
  BY <1>2, <1>3, <1>4, LoopAssumption DEF SlotInv
<1>. QED BY <1>1, <1>3, <1>5 DEF SlotInv

LEMMA SignalledTyped ==
  ASSUME NEW P \in SUBSET Proc, IsFiniteSet(P), NEW S, NEW signal \in {"none", "abort", "race"}
  PROVE  /\ Signalled(P, S, signal) \subseteq Proc /\ IsFiniteSet(Signalled(P, S, signal))
         /\ Cardinality(Signalled(P, S, signal)) <= Cardinality(P)
<1>. DEFINE T == Signalled(P, S, signal)
            f == [q \in P |-> IF q \in S THEN [q EXCEPT !.signal = signal] ELSE q]
<1>1. T = {f[q] : q \in P}
  BY DEF Signalled
<1>2. \A q \in P : f[q] \in Proc
  BY DEF Proc
<1>. HIDE DEF T
<1>3. f \in Surjection(P, T)
  <2>1. f \in [P -> T]
    BY <1>1
  <2>2. \A t \in T : \E q \in P : f[q] = t
    BY <1>1
  <2>. HIDE DEF f
  <2>. QED BY <2>1, <2>2 DEF Surjection
<1>. HIDE DEF f
<1>4. IsFiniteSet(T) /\ Cardinality(T) <= Cardinality(P)
  BY <1>3, FS_Surjection
<1>. QED BY <1>1, <1>2, <1>4 DEF T

LEMMA NextJobTypes ==
  ASSUME TypesInv, NextJob
  PROVE  SlotInv' /\ DataInv'
<1>1. PICK n \in Node : JobOf(n) /\ queuedNodes' \subseteq queuedNodes \cup {n}
  BY NextJobIsJob DEF TypesInv
<1>2. UNCHANGED aborted /\ HasFreeSlot
  BY NextJobIsJob DEF TypesInv
<1>3. CASE UNCHANGED workVars
  BY <1>1, <1>2, <1>3 DEF workVars, resultVars, TypesInv, SlotInv, DataInv
<1>4. ASSUME NEW jobs, ExcludeNode(n, jobs)
      PROVE  SlotInv' /\ DataInv'
  <2>1. StampOf(n) \in SUBSET Nat /\ Propagated(n, loopInfo[n]) \in [Node -> Nat]
    BY StampOfTyped, PropagatedTyped DEF TypesInv, DataInv
  <2>2. SlotInv'
    BY <1>4 DEF ExcludeNode, TypesInv, SlotInv
  <2>3. loopNodes' \subseteq Node \ LoopController
    BY <1>4 DEF ExcludeNode, RegisterNodeInActiveLoop, TypesInv, DataInv
  <2>. QED BY <1>1, <1>2, <1>4, <2>1, <2>2, <2>3 DEF ExcludeNode, TypesInv, DataInv
<1>5. ASSUME NEW jobs, BeginNode(n, jobs)
      PROVE  SlotInv' /\ DataInv'
  <2>. DEFINE r == NewJob(n)
  <2>1. proc' = proc \cup {r}
    BY <1>5, BeginIsNewJob
  <2>2. r \in Proc
    BY StampOfTyped DEF TypesInv, Proc, NewJob
  <2>. HIDE DEF r
  <2>3. IsFiniteSet(proc') /\ Cardinality(proc') <= Cardinality(proc) + 1
    BY <2>1, FS_AddElement, FS_CardinalityType DEF TypesInv, SlotInv
  <2>4. Cardinality(proc) \in Nat /\ Cardinality(proc') \in Nat
    BY <2>3, FS_CardinalityType DEF TypesInv, SlotInv
  <2>5. SlotInv'
    BY <1>2, <2>1, <2>2, <2>3, <2>4, LoopAssumption DEF HasFreeSlot, TypesInv, SlotInv
  <2>6. loopNodes' \subseteq Node \ LoopController
    BY <1>5 DEF BeginNode, RegisterNodeInActiveLoop, TypesInv, DataInv
  <2>7. loopControllersSeen' \subseteq LoopController
    BY <1>5 DEF BeginNode, TypesInv, DataInv
  <2>. QED BY <1>1, <1>2, <1>5, <2>5, <2>6, <2>7 DEF BeginNode, resultVars, TypesInv, DataInv
<1>. QED BY <1>1, <1>3, <1>4, <1>5 DEF JobOf

LEMMA StoreTyped ==
  ASSUME DataInv, NEW p \in Proc, NEW o, Store(p, o)
  PROVE  stamp' \in [Node -> SUBSET Nat]
BY DEF Store, DataInv, Proc

LEMMA NodeFinishedTypes ==
  ASSUME TypesInv, NEW p, NodeFinished(p)
  PROVE  SlotInv' /\ DataInv'
<1>1. p \in proc /\ p \in Proc /\ p.node \in Node
  BY DEF NodeFinished, TypesInv, SlotInv, Proc
<1>2. SlotInv'
  BY <1>1, EmitsTyped DEF NodeFinished, TypesInv
<1>3. stamp' \in [Node -> SUBSET Nat]
  BY <1>1, StoreTyped DEF NodeFinished, TypesInv
<1>. QED BY <1>1, <1>2, <1>3 DEF NodeFinished, TypesInv, DataInv, attachedNodeData

LEMMA NodeFailedTypes ==
  ASSUME TypesInv, NEW p, NodeFailed(p)
  PROVE  SlotInv' /\ DataInv'
<1>1. p \in proc /\ p \in Proc /\ p.node \in Node
  BY DEF NodeFailed, TypesInv, SlotInv, Proc
<1>2. \E pushes \in BOOLEAN : Emits(p, pushes)
  <2>. DEFINE lost == races[p.node].completed \/ p.signal = "race"
              stopped == p.signal = "abort" /\ aborted = "successful"
              pushes == p.pushes /\ (lost \/ ~ stopped)
  <2>1. Emits(p, pushes)
    BY DEF NodeFailed, NodeErrored
  <2>2. pushes \in BOOLEAN
    BY Zenon
  <2>. QED BY <2>1, <2>2
<1>3. SlotInv'
  BY <1>1, <1>2, EmitsTyped DEF TypesInv
<1>4. stamp' \in [Node -> SUBSET Nat] /\ erroredNodes' \subseteq Node
  <2>1. \/ (\E o : Store(p, o)) /\ UNCHANGED erroredNodes
        \/ erroredNodes' = erroredNodes \cup {p.node} /\ UNCHANGED resultVars
    BY DEF NodeFailed, NodeErrored
  <2>. QED BY <1>1, <2>1, StoreTyped DEF TypesInv, DataInv, resultVars
<1>. QED BY <1>1, <1>3, <1>4 DEF NodeFailed, TypesInv, DataInv, attachedNodeData

LEMMA EmittedTypes ==
  ASSUME TypesInv, NEW p, Emitted(p)
  PROVE  SlotInv' /\ DataInv'
<1>1. p \in proc /\ p.node \in Node /\ AfterLastEvent(p)
  BY DEF Emitted, TypesInv, SlotInv, Proc
<1>2. /\ proc \ {p} \in SUBSET Proc /\ IsFiniteSet(proc \ {p})
      /\ Cardinality(proc \ {p}) <= NodeConcurrency
  <2>1. IsFiniteSet(proc \ {p}) /\ Cardinality(proc \ {p}) = Cardinality(proc) - 1
    BY <1>1, FS_RemoveElement DEF TypesInv, SlotInv
  <2>. QED BY <2>1, FS_CardinalityType, LoopAssumption DEF TypesInv, SlotInv
<1>3. \/ proc' = proc \ {p}
      \/ \E S : proc' = Signalled(proc \ {p}, S, "race")
  <2>1. CASE PostProcessThrows(p.node)
    BY <1>1, <2>1 DEF AfterLastEvent
  <2>2. CASE ~ PostProcessThrows(p.node)
    BY <1>1, <2>2, CompletedRace DEF AfterLastEvent
  <2>. QED BY <2>1, <2>2
<1>4. SlotInv'
  <2>1. CASE proc' = proc \ {p}
    BY <1>2, <2>1 DEF SlotInv
  <2>2. ASSUME NEW S, proc' = Signalled(proc \ {p}, S, "race")
        PROVE  SlotInv'
    <3>1. /\ proc' \subseteq Proc /\ IsFiniteSet(proc')
          /\ Cardinality(proc') <= Cardinality(proc \ {p})
      BY <1>2, <2>2, SignalledTyped
    <3>2. Cardinality(proc') \in Nat /\ Cardinality(proc \ {p}) \in Nat
      BY <1>2, <3>1, FS_CardinalityType
    <3>. QED BY <1>2, <3>1, <3>2, LoopAssumption DEF SlotInv
  <2>. QED BY <1>3, <2>1, <2>2
<1>5. loopInfo' \in [Node -> Nat]
  <2>. DEFINE info == AssignChildLoopInfo(p.node)
  <2>1. info \in Nat
    BY <1>1 DEF AssignChildLoopInfo, TypesInv, DataInv
  <2>2. Propagated(p.node, info) \in [Node -> Nat]
    BY <1>1, <2>1, PropagatedTyped DEF TypesInv
  <2>3. \/ loopInfo' = [Propagated(p.node, info) EXCEPT ![p.node] = info]
        \/ loopInfo' = loopInfo
    BY <1>1 DEF AfterLastEvent
  <2>. HIDE DEF info
  <2>. QED BY <2>1, <2>2, <2>3 DEF TypesInv, DataInv
<1>. QED BY <1>1, <1>4, <1>5 DEF AfterLastEvent, TypesInv, DataInv

LEMMA AbortTypes ==
  ASSUME TypesInv, Abort
  PROVE  SlotInv' /\ DataInv'
<1>. DEFINE S == {p \in proc : p.stage = "running" /\ p.signal = "none"}
<1>1. /\ proc' = Signalled(proc, S, "abort") /\ aborted' \in {"failed", "successful"}
      /\ UNCHANGED <<queue, setVars, resultVars, attachedNodeData>>
  BY DEF Abort, Signalled
<1>. HIDE DEF S
<1>2. /\ proc' \subseteq Proc /\ IsFiniteSet(proc')
      /\ Cardinality(proc') <= Cardinality(proc)
  BY <1>1, SignalledTyped DEF TypesInv, SlotInv
<1>3. Cardinality(proc') \in Nat /\ Cardinality(proc) \in Nat
  BY <1>2, FS_CardinalityType DEF TypesInv, SlotInv
<1>4. SlotInv'
  BY <1>2, <1>3, LoopAssumption DEF TypesInv, SlotInv
<1>. QED BY <1>1, <1>4 DEF setVars, resultVars, attachedNodeData, TypesInv, DataInv

LEMMA InitTypes == Init => TypesInv
<1>1. Init => SlotInv
  BY FS_EmptySet, LoopAssumption DEF Init, SlotInv
<1>2. Init => DataInv
  BY DEF Init, DataInv
<1>. QED BY <1>1, <1>2, InitInv DEF TypesInv

LEMMA StepTypes == TypesInv /\ [Next]_vars => TypesInv'
<1>. SUFFICES ASSUME TypesInv, [Next]_vars PROVE TypesInv'
  OBVIOUS
<1>1. IInv'
  BY StepInv DEF TypesInv
<1>2. CASE NextJob
  BY <1>1, <1>2, NextJobTypes DEF TypesInv
<1>3. CASE \E p \in proc : NodeFinished(p) \/ NodeFailed(p) \/ Emitted(p)
  BY <1>1, <1>3, NodeFinishedTypes, NodeFailedTypes, EmittedTypes DEF TypesInv
<1>4. CASE Abort
  BY <1>1, <1>4, AbortTypes DEF TypesInv
<1>5. CASE UNCHANGED vars
  BY <1>1, <1>5 DEF vars, setVars, resultVars, attachedNodeData, TypesInv, SlotInv, DataInv
<1>. QED BY <1>2, <1>3, <1>4, <1>5 DEF Next, SchedulerStep

LEMMA TypesInvariance == Spec => []TypesInv
BY InitTypes, StepTypes, PTL DEF Spec

(* Whatever the graph, every variable has its type and no more nodes are
   processed at a time than the queue has slots, also while a loop runs its
   nodes again. *)
THEOREM LoopTypeCorrect == Spec => []TypeOK
<1>1. TypesInv => TypeOK
  BY DEF TypesInv, IInv, TypeInv, SlotInv, DataInv, TypeOK, RaceData
<1>. QED BY <1>1, TypesInvariance, PTL

-----------------------------------------------------------------------------
(***************************************************************************)
(* Jobs and nodes.  A step that starts no job only takes one away, moves   *)
(* some to their last event, and gives signals.                            *)
(***************************************************************************)
Moves(P, ended, f) ==
  /\ proc' = {f[q] : q \in P}
  /\ \A q \in P :
       /\ f[q].node = q.node /\ f[q].stamp = q.stamp /\ f[q].reads = q.reads
       /\ f[q].stage = IF q \in ended THEN "emitting" ELSE q.stage

LEMMA EmitsMoves ==
  ASSUME SlotInv, NEW p \in proc, NEW pushes, Emits(p, pushes)
  PROVE  \E f : Moves(proc, {p}, f)
<1>. DEFINE e == [p EXCEPT !.stage = "emitting", !.pushes = pushes]
            f == [q \in proc |-> IF q = p THEN e ELSE q]
<1>1. e.node = p.node /\ e.stamp = p.stamp /\ e.reads = p.reads /\ e.stage = "emitting"
  BY DEF SlotInv, Proc
<1>. HIDE DEF e
<1>2. proc' = {f[q] : q \in proc}
  BY DEF Emits, e
<1>. WITNESS f
<1>. QED BY <1>1, <1>2 DEF Moves

LEMMA SignalledMoves ==
  ASSUME SlotInv, NEW P \in SUBSET proc, NEW S, NEW signal, proc' = Signalled(P, S, signal)
  PROVE  \E f : Moves(P, {}, f)
<1>. DEFINE f == [q \in P |-> IF q \in S THEN [q EXCEPT !.signal = signal] ELSE q]
<1>1. \A q \in P : /\ f[q].node = q.node /\ f[q].stamp = q.stamp /\ f[q].reads = q.reads
                   /\ f[q].stage = q.stage
  BY DEF SlotInv, Proc
<1>2. proc' = {f[q] : q \in P}
  BY DEF Signalled
<1>. HIDE DEF f
<1>. WITNESS f
<1>. QED BY <1>1, <1>2 DEF Moves

LEMMA EndMoves ==
  ASSUME SlotInv, NEW p, NodeFinished(p) \/ NodeFailed(p)
  PROVE  p \in proc /\ p.stage = "running" /\ \E f : Moves(proc, {p}, f)
<1>1. p \in proc /\ p.stage = "running" /\ \E pushes : Emits(p, pushes)
  BY DEF NodeFinished, NodeFailed, NodeErrored
<1>. QED BY <1>1, EmitsMoves

LEMMA EmittedMoves ==
  ASSUME SlotInv, NEW p, Emitted(p)
  PROVE  p \in proc /\ p.stage = "emitting" /\ \E f : Moves(proc \ {p}, {}, f)
<1>1. p \in proc /\ p.stage = "emitting" /\ AfterLastEvent(p)
  BY DEF Emitted
<1>2. CASE PostProcessThrows(p.node)
  <2>1. proc' = proc \ {p}
    BY <1>1, <1>2 DEF AfterLastEvent
  <2>2. Signalled(proc \ {p}, {}, "race") = proc \ {p}
    BY DEF Signalled
  <2>3. \E f : Moves(proc \ {p}, {}, f)
    BY <2>1, <2>2, SignalledMoves
  <2>. QED BY <1>1, <2>3
<1>3. CASE ~ PostProcessThrows(p.node)
  <2>1. PICK S : proc' = Signalled(proc \ {p}, S, "race")
    BY <1>1, <1>3, CompletedRace DEF AfterLastEvent
  <2>2. \E f : Moves(proc \ {p}, {}, f)
    BY <2>1, SignalledMoves
  <2>. QED BY <1>1, <2>2
<1>. QED BY <1>2, <1>3

LEMMA AbortMoves ==
  ASSUME SlotInv, Abort
  PROVE  \E f : Moves(proc, {}, f)
<1>. DEFINE S == {p \in proc : p.stage = "running" /\ p.signal = "none"}
<1>1. proc' = Signalled(proc, S, "abort")
  BY DEF Abort, Signalled
<1>. HIDE DEF S
<1>. QED BY <1>1, SignalledMoves

-----------------------------------------------------------------------------
(***************************************************************************)
(* One job per node, for every graph and every loop: what of it does not   *)
(* depend on the loop.                                                     *)
(***************************************************************************)
BusyInv == \A p \in proc : p.node \in currentlyProcessing \cup loopNodes
OneJobOutsideLoop == \A p, q \in proc : p.node = q.node /\ p.node \notin loopNodes => p = q

LEMMA MovesOnce ==
  ASSUME OneJobOutsideLoop, NEW P \in SUBSET proc, NEW ended, NEW f, Moves(P, ended, f),
         loopNodes \subseteq loopNodes'
  PROVE  OneJobOutsideLoop'
BY DEF OneJobOutsideLoop, Moves

LEMMA JobOnce ==
  ASSUME TypesInv, BusyInv, OneJobOutsideLoop, NEW n \in Node, JobOf(n)
  PROVE  BusyInv' /\ OneJobOutsideLoop'
<1>1. CASE UNCHANGED workVars
  BY <1>1 DEF workVars, BusyInv, OneJobOutsideLoop
<1>2. ASSUME NEW jobs, ExcludeNode(n, jobs), MayTry(n)
      PROVE  BusyInv' /\ OneJobOutsideLoop'
  <2>1. n \notin currentlyProcessing
    BY <1>2 DEF MayTry, ShouldSkipNodeProcessing
  <2>2. loopNodes \subseteq loopNodes'
    BY <1>2 DEF ExcludeNode, RegisterNodeInActiveLoop
  <2>. QED BY <1>2, <2>1, <2>2 DEF ExcludeNode, BusyInv, OneJobOutsideLoop
<1>3. ASSUME NEW jobs, BeginNode(n, jobs), MayTry(n)
      PROVE  BusyInv' /\ OneJobOutsideLoop'
  <2>1. n \notin currentlyProcessing
    BY <1>3 DEF MayTry, ShouldSkipNodeProcessing
  <2>2. loopNodes \subseteq loopNodes' /\ currentlyProcessing' = currentlyProcessing \cup {n}
    BY <1>3 DEF BeginNode, RegisterNodeInActiveLoop
  <2>. DEFINE r == NewJob(n)
  <2>3. r.node = n /\ proc' = proc \cup {r}
    BY <1>3, BeginIsNewJob
  <2>. HIDE DEF r
  <2>4. BusyInv'
    BY <2>2, <2>3 DEF BusyInv
  <2>5. \A p \in proc : p.node = n => n \in loopNodes
    BY <2>1 DEF BusyInv
  <2>6. OneJobOutsideLoop'
    BY <2>2, <2>3, <2>5 DEF OneJobOutsideLoop
  <2>. QED BY <2>4, <2>6
<1>. QED BY <1>1, <1>2, <1>3 DEF JobOf

LEMMA EmittedOnce ==
  ASSUME TypesInv, BusyInv, OneJobOutsideLoop, NEW p, Emitted(p)
  PROVE  BusyInv' /\ OneJobOutsideLoop'
<1>1. PICK f : p \in proc /\ Moves(proc \ {p}, {}, f)
  BY EmittedMoves DEF TypesInv
<1>2. /\ currentlyProcessing' = currentlyProcessing \ ({p.node} \cup Cleared(p.node))
      /\ loopNodes' = loopNodes /\ Cleared(p.node) \subseteq loopNodes
  BY DEF Emitted, AfterLastEvent, Cleared
<1>3. \A q \in proc \ {p} : q.node \in currentlyProcessing' \cup loopNodes'
  BY <1>1, <1>2 DEF BusyInv, OneJobOutsideLoop
<1>4. BusyInv'
  BY <1>1, <1>3 DEF BusyInv, Moves
<1>. QED BY <1>1, <1>2, <1>4, MovesOnce

LEMMA StepOnce ==
  TypesInv /\ BusyInv /\ OneJobOutsideLoop /\ [Next]_vars => BusyInv' /\ OneJobOutsideLoop'
<1>. SUFFICES ASSUME TypesInv, BusyInv, OneJobOutsideLoop, [Next]_vars
              PROVE  BusyInv' /\ OneJobOutsideLoop'
  OBVIOUS
<1>1. CASE NextJob
  BY <1>1, NextJobIsJob, JobOnce DEF TypesInv
<1>2. ASSUME NEW p, NodeFinished(p) \/ NodeFailed(p)
      PROVE  BusyInv' /\ OneJobOutsideLoop'
  <2>1. PICK f : Moves(proc, {p}, f)
    BY <1>2, EndMoves DEF TypesInv
  <2>2. UNCHANGED <<currentlyProcessing, loopNodes>>
    BY <1>2 DEF NodeFinished, NodeFailed, attachedNodeData
  <2>3. BusyInv'
    BY <2>1, <2>2 DEF BusyInv, Moves
  <2>. QED BY <2>1, <2>2, <2>3, MovesOnce
<1>3. ASSUME NEW p, Emitted(p)
      PROVE  BusyInv' /\ OneJobOutsideLoop'
  BY <1>3, EmittedOnce
<1>4. CASE Abort
  <2>1. PICK f : Moves(proc, {}, f)
    BY <1>4, AbortMoves DEF TypesInv
  <2>2. UNCHANGED <<currentlyProcessing, loopNodes>>
    BY <1>4 DEF Abort, setVars, attachedNodeData
  <2>3. BusyInv'
    BY <2>1, <2>2 DEF BusyInv, Moves
  <2>. QED BY <2>1, <2>2, <2>3, MovesOnce
<1>5. CASE UNCHANGED vars
  BY <1>5 DEF vars, setVars, attachedNodeData, BusyInv, OneJobOutsideLoop
<1>. QED BY <1>1, <1>2, <1>3, <1>4, <1>5 DEF Next, SchedulerStep

(* Whatever the graph, no node is processed twice at a time unless the loop has
   registered it: the controllers and all that is outside of loops never are.
   Of beginNodeProcessing, registerNodeInActiveLoop and the clearing of a loop. *)
THEOREM OutsideLoopsOneJob == Spec => []OneJobOutsideLoop
<1>1. Init => BusyInv /\ OneJobOutsideLoop
  BY DEF Init, BusyInv, OneJobOutsideLoop
<1>. QED BY <1>1, StepOnce, TypesInvariance, PTL DEF Spec

-----------------------------------------------------------------------------
(***************************************************************************)
(* The graph around a controller.                                          *)
(***************************************************************************)
LEMMA OneController ==
  \A k, l \in LoopController : k = l
<1>. SUFFICES ASSUME NEW k \in LoopController, NEW l \in LoopController, k # l PROVE FALSE
  OBVIOUS
<1>1. IsFiniteSet(LoopController)
  BY GraphFacts, FS_Subset
<1>2. IsFiniteSet({k}) /\ Cardinality({k}) = 1
  BY FS_Singleton
<1>3. Cardinality({k} \cup {l}) = 2
  BY <1>2, FS_AddElement
<1>4. Cardinality({k} \cup {l}) <= Cardinality(LoopController)
  BY <1>1, FS_Subset
<1>5. Cardinality(LoopController) \in Nat
  BY <1>1, FS_CardinalityType
<1>. QED BY <1>3, <1>4, <1>5, LoopAssumption

LEMMA Reaches ==
  /\ \A n \in Node : n \in Downstream[n] /\ Downstream[n] \subseteq Node
  /\ \A n, m, k \in Node : m \in Downstream[n] /\ k \in Downstream[m] => k \in Downstream[n]
  /\ \A n, m, k \in Node : m \in Downstream[n] /\ <<m, k>> \in Connection => k \in Downstream[n]
BY DEF Downstream

LEMMA Connections ==
  \A c \in Connection : c[1] \in Node /\ c[2] \in Node /\ c = <<c[1], c[2]>>
BY LoopAssumption

(* What a set that is not left holds. *)
LEMMA ReachesLeast ==
  ASSUME NEW n \in Node, NEW S \in SUBSET Node, n \in S,
         \A a, b \in Node : a \in S /\ <<a, b>> \in Connection => b \in S
  PROVE  Downstream[n] \subseteq S
<1>1. \A c \in Connection : c[1] \in S => c[2] \in S
  BY Connections
<1>. QED BY <1>1 DEF Downstream

LEMMA LoopFacts ==
  ASSUME NEW l \in LoopController
  PROVE  /\ l \in Node /\ l \notin Body(l) /\ Body(l) \subseteq Downstream[l] /\ Body(l) \subseteq Node
         /\ Body(l) \cap LoopController = {}
         /\ \A n \in Node : InSameCycle(n, l) <=> n \in LoopOf(l)
<1>1. l \in Node /\ InSameCycle(l, l)
  BY GraphFacts, Reaches DEF InSameCycle
<1>. QED BY <1>1, OneController DEF Body, LoopOf, InSameCycle

LEMMA ClosedFacts ==
  ASSUME ClosedLoop, NEW l \in LoopController
  PROVE  /\ \A m \in Body(l), n \in Node : <<m, n>> \in Connection => n \in LoopOf(l)
         /\ \A n \in Node : <<l, n>> \in Connection \ BreakPort => n \in LoopOf(l)
         /\ \A m \in LoopOf(l), n \in LoopOf(l) :
              <<m, n>> \in Connection => <<m, n>> \in Connection \ BreakPort
         /\ Body(l) \cap RaceInputs = {}
<1>1. l \in Node /\ Body(l) \subseteq Node /\ Body(l) \cap LoopController = {}
  BY LoopFacts
<1>2. \A m, n \in Node : <<m, n>> \in BreakPort => m \in LoopController
  BY LoopAssumption
<1>. QED BY <1>1, <1>2 DEF ClosedLoop, OutputNodesFrom, LoopOf

(* A node of the body reads another of the loop, and nothing of a loop reads
   what is downstream of it but in the loop. *)
LEMMA HasLoopInput ==
  ASSUME NEW l \in LoopController, NEW m \in Body(l)
  PROVE  \E i \in LoopOf(l) : i \in InputNodesTo(m)
<1>1. l \in Node /\ m \in Node /\ m # l /\ m \in Downstream[l] /\ l \in Downstream[m]
  BY LoopFacts DEF Body, InSameCycle
<1>2. SUFFICES ASSUME \A i \in Node : i \in Downstream[l] /\ <<i, m>> \in Connection => i = m
               PROVE  FALSE
  <2>1. PICK i \in Node : i \in Downstream[l] /\ <<i, m>> \in Connection /\ i # m
    BY <1>2
  <2>2. m \in Downstream[i]
    BY <2>1, <1>1, Reaches
  <2>3. l \in Downstream[i]
    BY <2>1, <2>2, <1>1, Reaches
  <2>4. i \in LoopOf(l)
    BY <2>1, <2>3, LoopFacts DEF InSameCycle
  <2>. QED BY <2>1, <2>4 DEF InputNodesTo
<1>3. Downstream[l] \subseteq Downstream[l] \ {m}
  <2>1. \A a, b \in Node : a \in Downstream[l] \ {m} /\ <<a, b>> \in Connection
                             => b \in Downstream[l] \ {m}
    BY <1>1, <1>2, Reaches
  <2>2. l \in Downstream[l] \ {m} /\ Downstream[l] \ {m} \in SUBSET Node
    BY <1>1, Reaches
  <2>. QED BY <1>1, <2>1, <2>2, ReachesLeast
<1>. QED BY <1>1, <1>3

LEMMA OutsideInput ==
  ASSUME NEW l \in LoopController, NEW m \in Node, NEW k \in InputNodesTo(m)
  PROVE  /\ m \in Body(l) /\ k \notin LoopOf(l) => k \notin Downstream[l]
         /\ m \notin Downstream[l] => k \notin Downstream[l]
<1>1. l \in Node /\ k \in Node /\ <<k, m>> \in Connection
  BY LoopFacts DEF InputNodesTo
<1>2. m \in Downstream[k]
  BY <1>1, Reaches
<1>3. m \in Body(l) => l \in Downstream[k]
  BY <1>1, <1>2, Reaches DEF Body, InSameCycle
<1>4. m \in Body(l) /\ k \in Downstream[l] => k \in LoopOf(l)
  BY <1>1, <1>3, LoopFacts DEF InSameCycle
<1>. QED BY <1>1, <1>4, Reaches

(* Every part of the body leads out of itself. *)
LEMMA LeadsBack ==
  ASSUME NEW l \in LoopController, NEW U \in SUBSET Body(l),
         \A u \in U, y \in Node : <<u, y>> \in Connection => y \in U
  PROVE  U = {}
<1>. SUFFICES ASSUME NEW u \in U PROVE FALSE
  OBVIOUS
<1>1. l \notin U /\ u \in Node /\ U \in SUBSET Node /\ l \in Downstream[u]
  BY LoopFacts DEF Body, InSameCycle
<1>2. Downstream[u] \subseteq U
  BY <1>1, ReachesLeast
<1>. QED BY <1>1, <1>2

-----------------------------------------------------------------------------
(***************************************************************************)
(* The loop.  A node has begun from its start until it is cleared, and is  *)
(* done once its last event was heard.                                     *)
(***************************************************************************)
Begun(n) == n \in visitedNodes \cup currentlyProcessing
Done(n) == n \in visitedNodes \ currentlyProcessing
NoneBegun(l) == \A m \in Body(l) : ~ Begun(m)
AllDone(l) == \A m \in Body(l) : Done(m)

(* The set of nodes being processed is that of the jobs. *)
JobInv == OneJobPerNode /\ currentlyProcessing = {p.node : p \in proc}

(* A visited node has a result or an error, and so has one at its last event. *)
OutcomeInv ==
  /\ \A n \in visitedNodes \ erroredNodes : outcome[n] # "none"
  /\ \A p \in proc : p.stage = "emitting" => outcome[p.node] # "none" \/ p.node \in erroredNodes

(* Only the nodes of the loop are in it. *)
ReachInv(l) ==
  /\ loopNodes \subseteq Body(l)
  /\ \A n \in Node : loopInfo[n] > 0 => n \in LoopOf(l)

(* A node of the body begins in the loop, after all that it reads and while
   the controller waits; only begun nodes have results. *)
BodyInv(l) ==
  \A m \in Body(l) :
    /\ Begun(m) => /\ m \in loopNodes /\ loopInfo[m] > 0
                   /\ InputNodesTo(m) \subseteq visitedNodes
                   /\ InputNodesTo(m) \cap Body(l) \cap currentlyProcessing = {}
    /\ m \in currentlyProcessing => l \notin currentlyProcessing
    /\ outcome[m] # "none" => Begun(m)

(* The controller takes turns with its body, which it finds untouched or done. *)
TurnInv(l) ==
  /\ l \notin visitedNodes \/ outcome[l] = "none" => NoneBegun(l)
  /\ l \in currentlyProcessing => NoneBegun(l) \/ AllDone(l)
  /\ l \in loopControllersSeen <=> Begun(l)
  /\ outcome[l] # "value"

(* What is done in the loop has passed the loop on. *)
FeedInv(l) ==
  \A i \in LoopOf(l), n \in Node :
    Done(i) /\ i \notin erroredNodes /\ <<i, n>> \in Connection \ BreakPort => loopInfo[n] > 0

(* The body has results of the controller's last iteration, until that has
   made the next one, or has broken. *)
StampInv(l) ==
  /\ \A n \in Node : n \notin Downstream[l] => stamp[n] = {}
  /\ \A m \in Body(l) : outcome[m] # "none" =>
       \/ stamp[m] = stamp[l]
       \/ AllDone(l) /\ (l \in currentlyProcessing \/ outcome[l] \in {"broken", "excluded"})

(* What a job works on. *)
Fits(l, p) ==
  /\ p.node \in Body(l) => /\ p.stamp = stamp[l]
                           /\ p.stage = "running" => p.node \notin visitedNodes
  /\ p.node = l /\ p.stage = "running" =>
       /\ l \in visitedNodes => AllDone(l)
       /\ outcome[l] \notin {"broken", "excluded"} => p.reads \subseteq stamp[l]
  /\ p.node \notin Downstream[l] => p.stamp = {}
FitsInv(l) == \A p \in proc : Fits(l, p)

LoopInv(l) ==
  ReachInv(l) /\ BodyInv(l) /\ TurnInv(l) /\ FeedInv(l) /\ StampInv(l) /\ FitsInv(l)

TurningInv == TypesInv /\ JobInv /\ OutcomeInv /\ \A l \in LoopController : LoopInv(l)

(* The listeners keep up with what n reads in the loop. *)
Prompt(l, n) ==
  \A p \in proc : p.node \in InputNodesTo(n) \cap LoopOf(l) => p.stage = "running"

LEMMA JobOfNode ==
  ASSUME JobInv, NEW n \in currentlyProcessing
  PROVE  \E p \in proc : p.node = n
BY DEF JobInv

(* A node of the body that n reads is done when n begins. *)
LEMMA InputsDone ==
  ASSUME JobInv, NEW l \in LoopController, FitsInv(l), NEW n, Prompt(l, n),
         NEW i \in Body(l), i \in InputNodesTo(n), i \in visitedNodes
  PROVE  Done(i)
<1>. SUFFICES ASSUME i \in currentlyProcessing PROVE FALSE
  BY DEF Done
<1>1. PICK p \in proc : p.node = i
  BY JobOfNode
<1>2. p.stage = "running"
  BY <1>1 DEF Prompt, LoopOf
<1>. QED BY <1>1, <1>2 DEF FitsInv, Fits

LEMMA MayTryBody ==
  ASSUME ClosedLoop, NEW l \in LoopController, NEW m \in Body(l), MayTry(m)
  PROVE  /\ ~ Begun(m) /\ m \notin erroredNodes
         /\ InputNodesTo(m) \subseteq visitedNodes \ erroredNodes
<1>1. m \notin RaceInputs /\ m \notin LoopController
  BY LoopFacts, ClosedFacts
<1>. QED BY <1>1 DEF MayTry, ShouldSkipNodeProcessing, WaitingForInputNode, Begun

(* What a node of the body finds when it begins. *)
LEMMA BodyBegins ==
  ASSUME ClosedLoop, TurningInv, NEW l \in LoopController, NEW m \in Body(l), MayTry(m), Prompt(l, m)
  PROVE  /\ ~ Begun(m) /\ InputNodesTo(m) \subseteq visitedNodes /\ loopInfo[m] > 0
         /\ l \notin currentlyProcessing /\ l \in visitedNodes /\ outcome[l] # "none"
         /\ \A i \in InputNodesTo(m) \cap LoopOf(l) : Done(i)
<1>1. LoopInv(l) /\ JobInv /\ OutcomeInv
  BY DEF TurningInv
<1>2. ~ Begun(m) /\ InputNodesTo(m) \subseteq visitedNodes \ erroredNodes
  BY MayTryBody
<1>3. m \in Node /\ l \in Node /\ InputNodesTo(m) \subseteq Node
  BY LoopFacts, GraphFacts
<1>4. ~ AllDone(l)
  BY <1>2 DEF AllDone, Done, Begun
<1>5. \A i \in InputNodesTo(m) \cap Body(l) : Done(i) /\ ~ NoneBegun(l)
  BY <1>1, <1>2, InputsDone DEF LoopInv, NoneBegun, Begun
<1>6. PICK i \in LoopOf(l) : i \in InputNodesTo(m)
  BY HasLoopInput
<1>7. l \in visitedNodes /\ outcome[l] # "none"
  BY <1>1, <1>2, <1>3, <1>5, <1>6 DEF LoopOf, LoopInv, TurnInv, OutcomeInv
<1>8. l \notin currentlyProcessing
  <2>. SUFFICES ASSUME l \in currentlyProcessing PROVE FALSE
    OBVIOUS
  <2>1. NoneBegun(l)
    BY <1>1, <1>4 DEF LoopInv, TurnInv
  <2>2. l \in InputNodesTo(m)
    BY <2>1, <1>5, <1>6 DEF LoopOf
  <2>3. PICK p \in proc : p.node = l
    BY <1>1, JobOfNode
  <2>4. p.stage = "running"
    BY <2>2, <2>3 DEF Prompt, LoopOf
  <2>. QED BY <1>1, <1>4, <1>7, <2>3, <2>4 DEF LoopInv, FitsInv, Fits
<1>9. \A j \in InputNodesTo(m) \cap LoopOf(l) : Done(j)
  BY <1>5, <1>7, <1>8 DEF LoopOf, Done
<1>10. loopInfo[m] > 0
  BY <1>1, <1>2, <1>3, <1>6, <1>9, ClosedFacts DEF LoopInv, FeedInv, InputNodesTo, LoopOf
<1>. QED BY <1>2, <1>7, <1>8, <1>9, <1>10

(* It works on the outputs of the last iteration. *)
LEMMA BodyStamp ==
  ASSUME ClosedLoop, TurningInv, NEW l \in LoopController, NEW m \in Body(l), MayTry(m), Prompt(l, m)
  PROVE  StampOf(m) = stamp[l]
<1>1. LoopInv(l) /\ OutcomeInv
  BY DEF TurningInv
<1>2. /\ ~ Begun(m) /\ l \notin currentlyProcessing /\ outcome[l] # "none"
      /\ InputNodesTo(m) \subseteq visitedNodes \ erroredNodes
  BY BodyBegins, MayTryBody
<1>3. m \in Node /\ l \in Node /\ m \notin LoopController /\ InputNodesTo(m) \subseteq Node
  BY LoopFacts, GraphFacts
<1>4. \A i \in InputNodesTo(m) : outcome[i] # "none"
  BY <1>1, <1>2 DEF OutcomeInv
<1>5. ~ AllDone(l)
  BY <1>2 DEF AllDone, Done, Begun
<1>6. \A i \in InputNodesTo(m) \cap LoopOf(l) : stamp[i] = stamp[l]
  BY <1>1, <1>4, <1>5 DEF LoopInv, StampInv, LoopOf
<1>7. \A i \in InputNodesTo(m) \ LoopOf(l) : stamp[i] = {}
  BY <1>1, <1>3, OutsideInput DEF LoopInv, StampInv
<1>8. PICK i \in LoopOf(l) : i \in InputNodesTo(m)
  BY HasLoopInput
<1>9. StampOf(m) = UNION {stamp[j] : j \in InputNodesTo(m)}
  BY <1>3, <1>4 DEF StampOf, StampsOf
<1>10. UNION {stamp[j] : j \in InputNodesTo(m)} = stamp[l]
  BY <1>6, <1>7, <1>8
<1>. QED BY <1>9, <1>10

(* The controller finds its body untouched, or done. *)
LEMMA LoopBegins ==
  ASSUME ClosedLoop, TurningInv, NEW l \in LoopController, MayTry(l), Prompt(l, l)
  PROVE  /\ l \notin currentlyProcessing
         /\ l \notin visitedNodes => NoneBegun(l)
         /\ l \in visitedNodes => AllDone(l)
<1>1. LoopInv(l) /\ JobInv
  BY DEF TurningInv
<1>2. l \notin currentlyProcessing
  BY DEF MayTry, ShouldSkipNodeProcessing
<1>3. ASSUME l \in visitedNodes PROVE AllDone(l)
  <2>. DEFINE U == {m \in Body(l) : ~ Done(m)}
  <2>1. l \in loopControllersSeen /\ l \notin RaceInputs
    BY <1>1, <1>3, LoopAssumption DEF LoopInv, TurnInv, Begun
  <2>2. InputNodesTo(l) \subseteq visitedNodes
    BY <2>1 DEF MayTry, WaitingForInputNode
  <2>3. \A i \in InputNodesTo(l) \cap Body(l) : Done(i)
    BY <1>1, <2>2, InputsDone DEF LoopInv
  <2>4. \A u \in U, y \in Node : <<u, y>> \in Connection => y \in U
    <3>. SUFFICES ASSUME NEW u \in U, NEW y \in Node, <<u, y>> \in Connection PROVE y \in U
      OBVIOUS
    <3>1. u \in Body(l) /\ u \in Node /\ u \in InputNodesTo(y) /\ ~ Done(u)
      BY LoopFacts DEF InputNodesTo
    <3>2. y # l /\ y \in LoopOf(l)
      BY <2>3, <3>1, ClosedFacts
    <3>3. ~ Done(y)
      BY <1>1, <3>1, <3>2 DEF LoopInv, BodyInv, LoopOf, Done, Begun
    <3>. QED BY <3>2, <3>3 DEF LoopOf
  <2>. HIDE DEF U
  <2>5. U \in SUBSET Body(l)
    BY DEF U
  <2>6. U = {}
    BY <2>4, <2>5, LeadsBack
  <2>. QED BY <2>6 DEF U, AllDone
<1>. QED BY <1>1, <1>2, <1>3 DEF LoopInv, TurnInv

LEMMA LoopReads ==
  ASSUME TurningInv, NEW l \in LoopController, l \notin currentlyProcessing,
         l \notin visitedNodes => NoneBegun(l), outcome[l] \notin {"broken", "excluded"}
  PROVE  StampsOf(InputsInCycle(l)) \subseteq stamp[l]
<1>1. LoopInv(l)
  BY DEF TurningInv
<1>2. InputsInCycle(l) \subseteq LoopOf(l)
  BY LoopFacts, GraphFacts DEF InputsInCycle
<1>3. \A i \in LoopOf(l) : outcome[i] # "none" => stamp[i] = stamp[l]
  BY <1>1 DEF LoopInv, StampInv, LoopOf
<1>. QED BY <1>2, <1>3 DEF StampsOf

(* A job that is there already fits, if nothing of it changes but a signal, its
   pushes and, at its end, its stage. *)
LEMMA FitsMoved ==
  ASSUME NEW l, NEW P \in SUBSET proc, NEW ended, NEW f, Moves(P, ended, f), FitsInv(l),
         NEW s \in proc', \A q \in P : q.node = s.node /\ q.stage = "running" /\ q \notin ended
           => /\ s.node \in visitedNodes' => s.node \in visitedNodes
              /\ s.node = l => /\ AllDone(l) => AllDone(l)'
                               /\ outcome'[l] = outcome[l] /\ stamp[l] = stamp'[l],
         s.node \in Body(l) => stamp'[l] = stamp[l]
  PROVE  Fits(l, s)'
<1>1. PICK q \in P : /\ s.node = q.node /\ s.stamp = q.stamp /\ s.reads = q.reads
                     /\ s.stage = IF q \in ended THEN "emitting" ELSE q.stage
  BY DEF Moves
<1>2. Fits(l, q)
  BY DEF FitsInv
<1>3. s.stage = "running" => q.stage = "running" /\ q \notin ended
  BY <1>1
<1>. QED BY <1>1, <1>2, <1>3 DEF Fits

LEMMA PropagatedFacts ==
  ASSUME DataInv, NEW n \in Node, NEW info \in Nat, NEW m \in Node
  PROVE  /\ info = 0 => Propagated(n, info)[m] = loopInfo[m]
         /\ info > 0 => (Propagated(n, info)[m] > 0
                           <=> <<n, m>> \in Connection \ BreakPort \/ loopInfo[m] > 0)
BY DEF Propagated, DataInv

(***************************************************************************)
(* What begins.                                                            *)
(***************************************************************************)
LEMMA BodyStarts ==
  ASSUME ClosedLoop, TurningInv, NEW l \in LoopController, NEW m \in Body(l), MayTry(m),
         Prompt(l, m), NEW jobs, BeginNode(m, jobs)
  PROVE  LoopInv(l)'
<1>1. LoopInv(l) /\ DataInv
  BY DEF TurningInv, TypesInv
<1>2. m \in Node /\ l \in Node /\ m # l /\ m \notin LoopController
  BY LoopFacts DEF Body
<1>3. /\ ~ Begun(m) /\ InputNodesTo(m) \subseteq visitedNodes /\ loopInfo[m] > 0
      /\ l \notin currentlyProcessing /\ l \in visitedNodes /\ outcome[l] # "none"
  BY BodyBegins
<1>4. /\ currentlyProcessing' = currentlyProcessing \cup {m}
      /\ loopControllersSeen' = loopControllersSeen
      /\ loopNodes' = loopNodes \cup {m}
      /\ UNCHANGED <<visitedNodes, erroredNodes, outcome, stamp, loopInfo>>
  BY <1>2, <1>3 DEF BeginNode, RegisterNodeInActiveLoop, resultVars
<1>5. ReachInv(l)'
  BY <1>1, <1>4 DEF LoopInv, ReachInv
<1>6. BodyInv(l)'
  <2>. SUFFICES ASSUME NEW k \in Body(l)
                PROVE  /\ Begun(k)' => /\ k \in loopNodes' /\ loopInfo'[k] > 0
                                       /\ InputNodesTo(k) \subseteq visitedNodes'
                                       /\ InputNodesTo(k) \cap Body(l) \cap currentlyProcessing' = {}
                       /\ k \in currentlyProcessing' => l \notin currentlyProcessing'
                       /\ outcome'[k] # "none" => Begun(k)'
    BY DEF BodyInv
  <2>1. CASE k = m
    <3>1. m \notin InputNodesTo(m)
      BY <1>3 DEF Begun
    <3>2. InputNodesTo(m) \cap Body(l) \cap currentlyProcessing = {}
      BY <1>3, BodyBegins DEF LoopOf, Done
    <3>. QED BY <1>2, <1>3, <1>4, <2>1, <3>1, <3>2 DEF Begun
  <2>2. CASE k # m
    <3>1. Begun(k) => m \notin InputNodesTo(k)
      BY <1>1, <1>3 DEF LoopInv, BodyInv, Begun
    <3>. QED BY <1>1, <1>2, <1>3, <1>4, <2>2, <3>1 DEF LoopInv, BodyInv, Begun
  <2>. QED BY <2>1, <2>2
<1>7. TurnInv(l)'
  BY <1>1, <1>2, <1>3, <1>4 DEF LoopInv, TurnInv, Begun
<1>8. FeedInv(l)'
  BY <1>1, <1>4 DEF LoopInv, FeedInv, Done
<1>9. StampInv(l)'
  <2>1. ~ AllDone(l)
    BY <1>3 DEF AllDone, Done, Begun
  <2>. QED BY <1>1, <1>4, <2>1 DEF LoopInv, StampInv
<1>10. FitsInv(l)'
  <2>1. PICK r : proc' = proc \cup {r} /\ r.node = m /\ r.stamp = stamp[l]
    BY BeginIsNewJob, BodyStamp
  <2>2. Fits(l, r)'
    BY <1>2, <1>3, <1>4, <2>1, LoopFacts DEF Fits, Begun
  <2>3. \A p \in proc : p.node = l /\ p.stage = "running" => AllDone(l)
    BY <1>1, <1>3 DEF LoopInv, FitsInv, Fits
  <2>4. ~ AllDone(l)
    BY <1>3 DEF AllDone, Done, Begun
  <2>5. \A p \in proc : Fits(l, p)'
    BY <1>1, <1>4, <2>3, <2>4 DEF LoopInv, FitsInv, Fits
  <2>. QED BY <2>1, <2>2, <2>5 DEF FitsInv
<1>. QED BY <1>5, <1>6, <1>7, <1>8, <1>9, <1>10 DEF LoopInv

LEMMA BodyExcluded ==
  ASSUME ClosedLoop, TurningInv, NEW l \in LoopController, NEW m \in Body(l), MayTry(m),
         Prompt(l, m), NEW jobs, ExcludeNode(m, jobs)
  PROVE  LoopInv(l)'
<1>1. LoopInv(l) /\ DataInv /\ outcome \in [Node -> Outcome]
  BY DEF TurningInv, TypesInv, IInv, TypeInv
<1>2. m \in Node /\ l \in Node /\ m # l /\ m \notin LoopController /\ m \in Downstream[l]
  BY LoopFacts DEF Body
<1>3. /\ ~ Begun(m) /\ InputNodesTo(m) \subseteq visitedNodes /\ loopInfo[m] > 0
      /\ l \notin currentlyProcessing /\ l \in visitedNodes /\ outcome[l] # "none"
      /\ StampOf(m) = stamp[l]
  BY BodyBegins, BodyStamp
<1>4. /\ visitedNodes' = visitedNodes \cup {m} /\ currentlyProcessing' = currentlyProcessing
      /\ loopNodes' = loopNodes \cup {m}
      /\ outcome' = [outcome EXCEPT ![m] = "excluded"]
      /\ stamp' = [stamp EXCEPT ![m] = stamp[l]]
      /\ UNCHANGED <<proc, erroredNodes, loopControllersSeen>>
  BY <1>2, <1>3 DEF ExcludeNode, RegisterNodeInActiveLoop, Begun
<1>5. /\ \A n \in Node : loopInfo'[n] > 0 <=> <<m, n>> \in Connection \ BreakPort \/ loopInfo[n] > 0
      /\ \A n \in Node : <<m, n>> \in Connection \ BreakPort => n \in LoopOf(l)
  <2>1. loopInfo' = Propagated(m, loopInfo[m]) /\ loopInfo[m] \in Nat
    BY <1>1, <1>2 DEF ExcludeNode, DataInv
  <2>2. \A n \in Node : <<m, n>> \in Connection => n \in LoopOf(l)
    BY ClosedFacts
  <2>. QED BY <1>1, <1>2, <1>3, <2>1, <2>2, PropagatedFacts
<1>6. ~ AllDone(l)
  BY <1>3 DEF AllDone, Done, Begun
<1>7. /\ outcome'[m] = "excluded" /\ stamp'[m] = stamp[l]
      /\ \A n \in Node \ {m} : outcome'[n] = outcome[n] /\ stamp'[n] = stamp[n]
  BY <1>1, <1>2, <1>4 DEF DataInv
<1>8. ReachInv(l)'
  BY <1>1, <1>4, <1>5 DEF LoopInv, ReachInv
<1>9. BodyInv(l)'
  <2>1. \A k \in Body(l) : k \in Node
    BY LoopFacts
  <2>2. InputNodesTo(m) \cap Body(l) \cap currentlyProcessing = {}
    BY <1>3, BodyBegins DEF LoopOf, Done
  <2>. QED BY <1>1, <1>2, <1>3, <1>4, <1>5, <1>7, <2>1, <2>2 DEF LoopInv, BodyInv, Begun
<1>10. TurnInv(l)'
  BY <1>1, <1>2, <1>3, <1>4, <1>7 DEF LoopInv, TurnInv, Begun
<1>11. FeedInv(l)'
  BY <1>1, <1>4, <1>5 DEF LoopInv, FeedInv, Done
<1>12. StampInv(l)'
  BY <1>1, <1>2, <1>6, <1>7, LoopFacts DEF LoopInv, StampInv
<1>13. FitsInv(l)'
  <2>1. \A p \in proc : p.node # m
    BY <1>3 DEF Begun, TurningInv, JobInv
  <2>2. \A p \in proc : p.node \in visitedNodes' => p.node \in visitedNodes
    BY <1>4, <2>1
  <2>3. \A p \in proc : p.node = l /\ p.stage = "running" => AllDone(l)
    BY <1>1, <1>3 DEF LoopInv, FitsInv, Fits
  <2>. QED BY <1>1, <1>2, <1>4, <1>6, <1>7, <2>2, <2>3 DEF LoopInv, FitsInv, Fits
<1>. QED BY <1>8, <1>9, <1>10, <1>11, <1>12, <1>13 DEF LoopInv

LEMMA LoopStarts ==
  ASSUME ClosedLoop, TurningInv, NEW l \in LoopController, MayTry(l), Prompt(l, l),
         NEW jobs, BeginNode(l, jobs)
  PROVE  LoopInv(l)'
<1>1. LoopInv(l) /\ DataInv
  BY DEF TurningInv, TypesInv
<1>2. l \in Node /\ l \notin Body(l) /\ l \in Downstream[l]
  BY LoopFacts, Reaches
<1>3. /\ l \notin currentlyProcessing
      /\ l \notin visitedNodes => NoneBegun(l)
      /\ l \in visitedNodes => AllDone(l)
  BY LoopBegins
<1>4. /\ currentlyProcessing' = currentlyProcessing \cup {l}
      /\ loopControllersSeen' = loopControllersSeen \cup {l}
      /\ loopNodes' = loopNodes
      /\ UNCHANGED <<visitedNodes, erroredNodes, outcome, stamp, loopInfo>>
  BY DEF BeginNode, RegisterNodeInActiveLoop, resultVars
<1>5. NoneBegun(l)' = NoneBegun(l) /\ AllDone(l)' = AllDone(l)
  BY <1>2, <1>4 DEF NoneBegun, AllDone, Begun, Done
<1>6. ReachInv(l)'
  BY <1>1, <1>4 DEF LoopInv, ReachInv
<1>7. BodyInv(l)'
  BY <1>1, <1>2, <1>3, <1>4 DEF LoopInv, BodyInv, Begun, NoneBegun, AllDone, Done
<1>8. TurnInv(l)'
  BY <1>1, <1>3, <1>4, <1>5 DEF LoopInv, TurnInv, Begun
<1>9. FeedInv(l)'
  BY <1>1, <1>4 DEF LoopInv, FeedInv, Done
<1>10. StampInv(l)'
  BY <1>1, <1>4, <1>5 DEF LoopInv, StampInv
<1>11. FitsInv(l)'
  <2>1. PICK r : /\ proc' = proc \cup {r} /\ r.node = l
                 /\ r.reads = StampsOf(InputsInCycle(l))
    BY BeginIsNewJob
  <2>2. outcome[l] \notin {"broken", "excluded"} => r.reads \subseteq stamp[l]
    BY <1>3, <2>1, LoopReads
  <2>3. Fits(l, r)'
    BY <1>2, <1>3, <1>4, <1>5, <2>1, <2>2 DEF Fits
  <2>4. \A p \in proc : Fits(l, p)'
    BY <1>1, <1>4, <1>5 DEF LoopInv, FitsInv, Fits
  <2>. QED BY <2>1, <2>3, <2>4 DEF FitsInv
<1>. QED BY <1>6, <1>7, <1>8, <1>9, <1>10, <1>11 DEF LoopInv

(* Outside of the loop nothing bears its mark, and before it no iteration. *)
LEMMA OutsideStamp ==
  ASSUME NEW l \in LoopController, StampInv(l), NEW n \in Node, n \notin LoopController,
         n \notin Downstream[l]
  PROVE  StampOf(n) = {}
<1>1. \A i \in InputNodesTo(n) : i \in Node /\ stamp[i] = {}
  BY OutsideInput, GraphFacts DEF StampInv
<1>. QED BY <1>1 DEF StampOf, StampsOf

LEMMA OutsideJob ==
  ASSUME TurningInv, NEW l \in LoopController, NEW n \in Node \ LoopOf(l), MayTry(n),
         NEW jobs, BeginNode(n, jobs) \/ ExcludeNode(n, jobs)
  PROVE  LoopInv(l)'
<1>1. LoopInv(l) /\ DataInv /\ outcome \in [Node -> Outcome]
  BY DEF TurningInv, TypesInv, IInv, TypeInv
<1>2. /\ l \in Node /\ Body(l) \subseteq Node /\ n # l /\ n \notin Body(l) /\ n \notin LoopController
      /\ LoopOf(l) \subseteq Downstream[l]
  <2>1. n \notin LoopController
    BY OneController DEF LoopOf
  <2>2. LoopOf(l) \subseteq Downstream[l]
    BY LoopFacts, Reaches DEF LoopOf
  <2>. QED BY <2>1, <2>2, LoopFacts DEF LoopOf
<1>3. loopInfo[n] = 0 /\ n \notin currentlyProcessing
  BY <1>1 DEF LoopInv, ReachInv, DataInv, MayTry, ShouldSkipNodeProcessing
<1>4. n \notin Downstream[l] => StampOf(n) = {}
  BY <1>1, <1>2, OutsideStamp DEF LoopInv
<1>5. /\ UNCHANGED <<erroredNodes, loopControllersSeen, loopNodes>>
      /\ visitedNodes \subseteq visitedNodes' /\ visitedNodes' \subseteq visitedNodes \cup {n}
      /\ currentlyProcessing \subseteq currentlyProcessing'
      /\ currentlyProcessing' \subseteq currentlyProcessing \cup {n}
      /\ \A m \in Node : loopInfo'[m] = loopInfo[m]
      /\ \A m \in Node \ {n} : outcome'[m] = outcome[m] /\ stamp'[m] = stamp[m]
      /\ stamp'[n] \in {stamp[n], StampOf(n)}
  <2>1. CASE BeginNode(n, jobs)
    BY <1>2, <1>3, <2>1 DEF BeginNode, RegisterNodeInActiveLoop, resultVars
  <2>2. CASE ExcludeNode(n, jobs)
    <3>1. \A m \in Node : Propagated(n, loopInfo[n])[m] = loopInfo[m]
      <4>1. loopInfo[n] \in Nat /\ loopInfo[n] = 0
        BY <1>3
      <4>. QED BY <1>1, <4>1, PropagatedFacts
    <3>2. /\ outcome' = [outcome EXCEPT ![n] = "excluded"]
          /\ stamp' = [stamp EXCEPT ![n] = StampOf(n)]
          /\ visitedNodes' = visitedNodes \cup {n}
          /\ currentlyProcessing' = currentlyProcessing \ {n}
          /\ loopNodes' = loopNodes /\ loopInfo' = Propagated(n, loopInfo[n])
          /\ UNCHANGED <<erroredNodes, loopControllersSeen>>
      BY <1>3, <2>2 DEF ExcludeNode, RegisterNodeInActiveLoop
    <3>. HIDE DEF StampOf
    <3>. QED BY <1>1, <1>2, <1>3, <3>1, <3>2 DEF DataInv
  <2>. QED BY <2>1, <2>2
<1>6. \A m \in LoopOf(l) : /\ Begun(m)' = Begun(m) /\ Done(m)' = Done(m)
                           /\ (m \in visitedNodes') = (m \in visitedNodes)
                           /\ (m \in currentlyProcessing') = (m \in currentlyProcessing)
                           /\ outcome'[m] = outcome[m] /\ stamp'[m] = stamp[m]
  BY <1>2, <1>5 DEF Begun, Done, LoopOf
<1>7. NoneBegun(l)' = NoneBegun(l) /\ AllDone(l)' = AllDone(l)
  BY <1>6 DEF NoneBegun, AllDone, LoopOf
<1>8. ReachInv(l)'
  BY <1>1, <1>5 DEF LoopInv, ReachInv
<1>9. BodyInv(l)'
  <2>1. \A m \in Body(l) : m \in LoopOf(l) /\ l \in LoopOf(l) /\ m \in Node
    BY LoopFacts DEF LoopOf
  <2>. QED BY <1>1, <1>5, <1>6, <2>1 DEF LoopInv, BodyInv
<1>10. TurnInv(l)'
  BY <1>1, <1>5, <1>6, <1>7 DEF LoopInv, TurnInv, LoopOf
<1>11. FeedInv(l)'
  BY <1>1, <1>5, <1>6 DEF LoopInv, FeedInv
<1>12. StampInv(l)'
  <2>1. \A m \in Node : m \notin Downstream[l] => stamp'[m] = {}
    BY <1>1, <1>4, <1>5 DEF LoopInv, StampInv
  <2>2. \A m \in Body(l) : m \in LoopOf(l) /\ l \in LoopOf(l)
    BY DEF LoopOf
  <2>. QED BY <1>1, <1>6, <1>7, <2>1, <2>2 DEF LoopInv, StampInv
<1>13. FitsInv(l)'
  <2>1. l \in LoopOf(l) /\ \A m \in Body(l) : m \in LoopOf(l)
    BY DEF LoopOf
  <2>2. \A p \in proc : Fits(l, p)'
    BY <1>1, <1>6, <1>7, <2>1 DEF LoopInv, FitsInv, Fits
  <2>3. CASE ExcludeNode(n, jobs)
    BY <2>2, <2>3 DEF ExcludeNode, FitsInv
  <2>4. CASE BeginNode(n, jobs)
    <3>1. PICK r : proc' = proc \cup {r} /\ r.node = n /\ r.stamp = StampOf(n)
      BY <2>4, BeginIsNewJob
    <3>2. Fits(l, r)'
      BY <1>2, <1>4, <3>1 DEF Fits
    <3>. QED BY <2>2, <3>1, <3>2 DEF FitsInv
  <2>. QED BY <2>3, <2>4
<1>. QED BY <1>8, <1>9, <1>10, <1>11, <1>12, <1>13 DEF LoopInv

(***************************************************************************)
(* What process() ends with.                                               *)
(***************************************************************************)
Ends(p) ==
  LET n == p.node IN
  /\ p \in proc /\ p.stage = "running" /\ n \in Node /\ n \in currentlyProcessing
  /\ \E f : Moves(proc, {p}, f)
  /\ UNCHANGED <<currentlyProcessing, loopControllersSeen, loopInfo, loopNodes>>
  /\ visitedNodes \subseteq visitedNodes' /\ visitedNodes' \subseteq visitedNodes \cup {n}
  /\ erroredNodes \subseteq erroredNodes' /\ erroredNodes' \subseteq erroredNodes \cup {n}
  /\ \A m \in Node \ {n} : outcome'[m] = outcome[m] /\ stamp'[m] = stamp[m]
  /\ \/ /\ outcome'[n] # "none" /\ stamp'[n] = p.stamp
        /\ n \in LoopController => outcome'[n] # "value"
     \/ /\ n \in erroredNodes' /\ outcome'[n] = outcome[n] /\ stamp'[n] = stamp[n]

LEMMA EndsFacts ==
  ASSUME TypesInv, JobInv, NEW p, NodeFinished(p) \/ NodeFailed(p)
  PROVE  Ends(p)
<1>. DEFINE n == p.node
<1>1. p \in proc /\ p.stage = "running" /\ \E f : Moves(proc, {p}, f)
  BY EndMoves DEF TypesInv
<1>2. n \in Node /\ n \in currentlyProcessing
  BY <1>1 DEF TypesInv, SlotInv, Proc, JobInv
<1>3. UNCHANGED <<currentlyProcessing, loopControllersSeen, loopInfo, loopNodes>>
  BY DEF NodeFinished, NodeFailed, attachedNodeData
<1>4. /\ visitedNodes \subseteq visitedNodes' /\ visitedNodes' \subseteq visitedNodes \cup {n}
      /\ erroredNodes \subseteq erroredNodes' /\ erroredNodes' \subseteq erroredNodes \cup {n}
  BY DEF NodeFinished, NodeFailed, NodeErrored
<1>5. outcome \in [Node -> Outcome] /\ stamp \in [Node -> SUBSET Nat]
  BY DEF TypesInv, IInv, TypeInv, DataInv
<1>6. ASSUME NEW o, Store(p, o), o # "none", n \in LoopController => o # "value"
      PROVE  /\ \A m \in Node \ {n} : outcome'[m] = outcome[m] /\ stamp'[m] = stamp[m]
             /\ outcome'[n] # "none" /\ stamp'[n] = p.stamp
             /\ n \in LoopController => outcome'[n] # "value"
  BY <1>2, <1>5, <1>6 DEF Store
<1>7. CASE NodeFinished(p)
  <2>1. PICK o \in OutcomesOf(p) : Store(p, o)
    BY <1>7 DEF NodeFinished
  <2>2. o # "none" /\ (n \in LoopController => o # "value")
    BY DEF OutcomesOf
  <2>. QED BY <1>1, <1>2, <1>3, <1>4, <1>6, <2>1, <2>2 DEF Ends
<1>8. CASE NodeFailed(p)
  <2>1. \/ Store(p, IF n \in LoopController THEN "interrupted" ELSE "excluded")
        \/ n \in erroredNodes' /\ UNCHANGED resultVars
    BY <1>8 DEF NodeFailed, NodeErrored
  <2>. DEFINE o == IF n \in LoopController THEN "interrupted" ELSE "excluded"
  <2>2. o # "none" /\ (n \in LoopController => o # "value")
    OBVIOUS
  <2>. HIDE DEF o
  <2>3. CASE Store(p, o)
    BY <1>1, <1>2, <1>3, <1>4, <1>6, <2>2, <2>3 DEF Ends
  <2>4. CASE n \in erroredNodes' /\ UNCHANGED resultVars
    BY <1>1, <1>2, <1>3, <1>4, <2>4 DEF Ends, resultVars
  <2>. QED BY <2>1, <2>3, <2>4 DEF o
<1>. QED BY <1>7, <1>8

LEMMA NodeEnds ==
  ASSUME TurningInv, NEW l \in LoopController, NEW p, Ends(p)
  PROVE  LoopInv(l)'
<1>. DEFINE n == p.node
<1>1. LoopInv(l) /\ JobInv
  BY DEF TurningInv
<1>2. /\ l \in Node /\ Body(l) \subseteq Node /\ l \notin Body(l) /\ n \in Node
      /\ LoopOf(l) \subseteq Downstream[l]
  BY LoopFacts, Reaches DEF LoopOf, Ends
<1>3. /\ n \in currentlyProcessing
      /\ UNCHANGED <<currentlyProcessing, loopControllersSeen, loopInfo, loopNodes>>
      /\ visitedNodes \subseteq visitedNodes' /\ visitedNodes' \subseteq visitedNodes \cup {n}
      /\ erroredNodes \subseteq erroredNodes'
      /\ \A m \in Node \ {n} : outcome'[m] = outcome[m] /\ stamp'[m] = stamp[m]
      /\ \/ /\ outcome'[n] # "none" /\ stamp'[n] = p.stamp
            /\ n \in LoopController => outcome'[n] # "value"
         \/ outcome'[n] = outcome[n] /\ stamp'[n] = stamp[n]
  BY DEF Ends
<1>4. \A m \in Node : Begun(m)' = Begun(m) /\ Done(m)' = Done(m)
  BY <1>3 DEF Begun, Done
<1>5. NoneBegun(l)' = NoneBegun(l) /\ AllDone(l)' = AllDone(l)
  BY <1>2, <1>4 DEF NoneBegun, AllDone
<1>6. ReachInv(l)'
  BY <1>1, <1>3 DEF LoopInv, ReachInv
<1>7. BodyInv(l)'
  BY <1>1, <1>2, <1>3, <1>4 DEF LoopInv, BodyInv, Begun
<1>8. TurnInv(l)'
  BY <1>1, <1>2, <1>3, <1>4, <1>5 DEF LoopInv, TurnInv
<1>9. FeedInv(l)'
  BY <1>1, <1>2, <1>3, <1>4 DEF LoopInv, FeedInv, LoopOf
<1>10. StampInv(l)'
  <2>1. Fits(l, p) /\ p \in proc
    BY <1>1 DEF LoopInv, FitsInv, Ends
  <2>2. \A m \in Node : m \notin Downstream[l] => stamp'[m] = {}
    BY <1>1, <1>3, <2>1 DEF LoopInv, StampInv, Fits
  <2>3. ASSUME NEW m \in Body(l), outcome'[m] # "none"
        PROVE  \/ stamp'[m] = stamp'[l]
               \/ AllDone(l)' /\ (l \in currentlyProcessing' \/ outcome'[l] \in {"broken", "excluded"})
    <3>1. CASE n = l
      <4>1. outcome[m] # "none" /\ Begun(m)
        BY <1>1, <1>2, <1>3, <2>3, <3>1 DEF LoopInv, BodyInv
      <4>2. AllDone(l)
        BY <1>1, <1>3, <3>1, <4>1 DEF LoopInv, TurnInv, NoneBegun
      <4>. QED BY <1>3, <1>5, <3>1, <4>2
    <3>2. CASE n = m
      <4>1. p.stamp = stamp[l]
        BY <2>1, <3>2 DEF Fits
      <4>. QED BY <1>1, <1>2, <1>3, <1>5, <2>3, <3>2, <4>1 DEF LoopInv, StampInv
    <3>3. CASE n # l /\ n # m
      BY <1>1, <1>2, <1>3, <1>5, <2>3, <3>3 DEF LoopInv, StampInv
    <3>. QED BY <3>1, <3>2, <3>3
  <2>. QED BY <2>2, <2>3 DEF StampInv
<1>11. FitsInv(l)'
  <2>1. PICK f : Moves(proc, {p}, f)
    BY DEF Ends
  <2>. SUFFICES ASSUME NEW s \in proc' PROVE Fits(l, s)'
    BY DEF FitsInv
  <2>2. PICK q0 \in proc : q0.node = s.node
    BY <2>1 DEF Moves
  <2>3. \A q \in proc : q.node = s.node /\ q.stage = "running" /\ q \notin {p}
           => /\ s.node \in visitedNodes' => s.node \in visitedNodes
              /\ s.node = l => /\ AllDone(l) => AllDone(l)'
                               /\ outcome'[l] = outcome[l] /\ stamp[l] = stamp'[l]
    <3>1. \A q \in proc : q.node = n => q = p
      BY <1>1 DEF JobInv, OneJobPerNode, Ends
    <3>. QED BY <1>2, <1>3, <1>5, <3>1
  <2>4. s.node \in Body(l) => stamp'[l] = stamp[l]
    <3>1. s.node \in currentlyProcessing
      BY <1>1, <2>2 DEF JobInv
    <3>2. s.node \in Body(l) => n # l
      BY <1>1, <1>3, <3>1 DEF LoopInv, BodyInv
    <3>. QED BY <1>2, <1>3, <3>2
  <2>5. FitsInv(l)
    BY <1>1 DEF LoopInv
  <2>. QED BY <2>1, <2>3, <2>4, <2>5, FitsMoved
<1>. QED BY <1>6, <1>7, <1>8, <1>9, <1>10, <1>11 DEF LoopInv

(***************************************************************************)
(* What comes after the last event.                                        *)
(***************************************************************************)
LEMMA InfoAfter ==
  ASSUME DataInv, NEW p, p.node \in Node, AfterLastEvent(p)
  PROVE  LET n == p.node
             info == AssignChildLoopInfo(n)
         IN /\ PostProcessThrows(n) => loopInfo' = loopInfo
            /\ ~ PostProcessThrows(n) /\ info = 0 => \A m \in Node : loopInfo'[m] = loopInfo[m]
            /\ ~ PostProcessThrows(n) /\ info > 0 =>
                 \A m \in Node : loopInfo'[m] > 0 <=> \/ <<n, m>> \in Connection \ BreakPort
                                                      \/ loopInfo[m] > 0
                                                      \/ m = n
<1>. DEFINE n == p.node
            info == AssignChildLoopInfo(n)
<1>1. info \in Nat /\ (info = 0 => loopInfo[n] = 0)
  BY DEF AssignChildLoopInfo, DataInv
<1>2. Propagated(n, info) \in [Node -> Nat]
  BY <1>1, PropagatedTyped
<1>3. /\ PostProcessThrows(n) => loopInfo' = loopInfo
      /\ ~ PostProcessThrows(n) => loopInfo' = [Propagated(n, info) EXCEPT ![n] = info]
  BY DEF AfterLastEvent
<1>4. \A m \in Node :
        /\ info = 0 => Propagated(n, info)[m] = loopInfo[m]
        /\ info > 0 => (Propagated(n, info)[m] > 0
                          <=> <<n, m>> \in Connection \ BreakPort \/ loopInfo[m] > 0)
  BY <1>1, PropagatedFacts
<1>. HIDE DEF info
<1>5. ~ PostProcessThrows(n) =>
        loopInfo'[n] = info /\ \A m \in Node \ {n} : loopInfo'[m] = Propagated(n, info)[m]
  BY <1>2, <1>3
<1>6. ~ PostProcessThrows(n) /\ info = 0 => \A m \in Node : loopInfo'[m] = loopInfo[m]
  BY <1>1, <1>4, <1>5
<1>7. ~ PostProcessThrows(n) /\ info > 0 =>
        \A m \in Node : loopInfo'[m] > 0 <=> \/ <<n, m>> \in Connection \ BreakPort
                                             \/ loopInfo[m] > 0
                                             \/ m = n
  BY <1>4, <1>5
<1>. QED BY <1>3, <1>6, <1>7 DEF info

(* A node that is not the controller clears nothing. *)
LEMMA BodyEmits ==
  ASSUME ClosedLoop, TurningInv, NEW l \in LoopController, NEW p, p.node \in Body(l), Emitted(p)
  PROVE  LoopInv(l)'
<1>. DEFINE n == p.node
<1>1. LoopInv(l) /\ JobInv /\ DataInv /\ outcome \in [Node -> Outcome]
  BY DEF TurningInv, TypesInv, IInv, TypeInv
<1>2. PICK f : p \in proc /\ Moves(proc \ {p}, {}, f)
  BY EmittedMoves DEF TurningInv, TypesInv
<1>3. n \in Node /\ l \in Node /\ Body(l) \subseteq Node /\ n # l /\ n \notin LoopController
  BY LoopFacts
<1>4. n \in currentlyProcessing /\ l \notin currentlyProcessing /\ loopInfo[n] > 0
  BY <1>1, <1>2 DEF JobInv, LoopInv, BodyInv, Begun
<1>5. /\ visitedNodes' = visitedNodes \cup {n}
      /\ currentlyProcessing' = currentlyProcessing \ {n}
      /\ \A m \in Node : outcome'[m] = outcome[m]
      /\ UNCHANGED <<erroredNodes, loopControllersSeen, stamp, loopNodes>>
  BY <1>3 DEF Emitted, AfterLastEvent, Cleared
<1>6. /\ \A m \in Node : loopInfo'[m] > 0 <=> \/ <<n, m>> \in Connection \ BreakPort
                                              \/ loopInfo[m] > 0
                                              \/ m = n
      /\ \A m \in Node : <<n, m>> \in Connection => m \in LoopOf(l)
  <2>1. AfterLastEvent(p) /\ ~ PostProcessThrows(n) /\ AssignChildLoopInfo(n) = loopInfo[n]
    BY <1>3 DEF Emitted, PostProcessThrows, AssignChildLoopInfo
  <2>2. \A m \in Node : <<n, m>> \in Connection => m \in LoopOf(l)
    BY ClosedFacts
  <2>. QED BY <1>1, <1>3, <1>4, <2>1, <2>2, InfoAfter
<1>7. \A m \in Node : Begun(m)' = Begun(m) /\ (Done(m) => Done(m)') /\ (Done(m)' => Done(m) \/ m = n)
  BY <1>4, <1>5 DEF Begun, Done
<1>8. NoneBegun(l)' = NoneBegun(l) /\ (AllDone(l) => AllDone(l)')
  BY <1>3, <1>7 DEF NoneBegun, AllDone
<1>9. ReachInv(l)'
  BY <1>1, <1>5, <1>6 DEF LoopInv, ReachInv, LoopOf
<1>10. BodyInv(l)'
  <2>. SUFFICES ASSUME NEW m \in Body(l)
                PROVE  /\ Begun(m)' => /\ m \in loopNodes' /\ loopInfo'[m] > 0
                                       /\ InputNodesTo(m) \subseteq visitedNodes'
                                       /\ InputNodesTo(m) \cap Body(l) \cap currentlyProcessing' = {}
                       /\ m \in currentlyProcessing' => l \notin currentlyProcessing'
                       /\ outcome'[m] # "none" => Begun(m)'
    BY DEF BodyInv
  <2>1. m \in Node /\ Begun(m)' = Begun(m) /\ (loopInfo[m] > 0 => loopInfo'[m] > 0)
    BY <1>3, <1>6, <1>7
  <2>2. /\ Begun(m) => /\ m \in loopNodes /\ loopInfo[m] > 0
                       /\ InputNodesTo(m) \subseteq visitedNodes
                       /\ InputNodesTo(m) \cap Body(l) \cap currentlyProcessing = {}
        /\ outcome[m] # "none" => Begun(m)
    BY <1>1 DEF LoopInv, BodyInv
  <2>. QED BY <1>4, <1>5, <2>1, <2>2
<1>11. TurnInv(l)'
  BY <1>1, <1>3, <1>4, <1>5, <1>7, <1>8 DEF LoopInv, TurnInv
<1>12. FeedInv(l)'
  BY <1>1, <1>3, <1>5, <1>6, <1>7 DEF LoopInv, FeedInv, LoopOf
<1>13. StampInv(l)'
  BY <1>1, <1>3, <1>4, <1>5, <1>8 DEF LoopInv, StampInv
<1>14. FitsInv(l)'
  <2>. SUFFICES ASSUME NEW s \in proc' PROVE Fits(l, s)'
    BY DEF FitsInv
  <2>1. \A q \in proc \ {p} : q.node # n
    BY <1>1, <1>2 DEF JobInv, OneJobPerNode
  <2>2. \A q \in proc \ {p} : q.node = s.node /\ q.stage = "running" /\ q \notin {}
           => /\ s.node \in visitedNodes' => s.node \in visitedNodes
              /\ s.node = l => /\ AllDone(l) => AllDone(l)'
                               /\ outcome'[l] = outcome[l] /\ stamp[l] = stamp'[l]
    BY <1>3, <1>5, <1>8, <2>1
  <2>3. FitsInv(l) /\ proc \ {p} \in SUBSET proc /\ stamp'[l] = stamp[l]
    BY <1>1, <1>5 DEF LoopInv
  <2>. QED BY <1>2, <2>2, <2>3, FitsMoved
<1>. QED BY <1>9, <1>10, <1>11, <1>12, <1>13, <1>14 DEF LoopInv

LEMMA OutsideEmits ==
  ASSUME TurningInv, NEW l \in LoopController, NEW p, p.node \in Node \ LoopOf(l), Emitted(p)
  PROVE  LoopInv(l)'
<1>. DEFINE n == p.node
<1>1. LoopInv(l) /\ DataInv /\ outcome \in [Node -> Outcome]
  BY DEF TurningInv, TypesInv, IInv, TypeInv
<1>2. PICK f : p \in proc /\ Moves(proc \ {p}, {}, f)
  BY EmittedMoves DEF TurningInv, TypesInv
<1>3. n \in Node /\ n # l /\ n \notin Body(l) /\ l \in Node /\ Body(l) \subseteq Node /\ n \notin LoopController
  BY LoopFacts, OneController DEF LoopOf
<1>4. /\ visitedNodes' = visitedNodes \cup {n}
      /\ currentlyProcessing' = currentlyProcessing \ {n}
      /\ \A m \in Node : outcome'[m] = outcome[m]
      /\ UNCHANGED <<erroredNodes, loopControllersSeen, stamp, loopNodes>>
  BY <1>3 DEF Emitted, AfterLastEvent, Cleared
<1>5. \A m \in Node : loopInfo'[m] = loopInfo[m]
  <2>1. AfterLastEvent(p) /\ ~ PostProcessThrows(n) /\ AssignChildLoopInfo(n) = loopInfo[n]
    BY <1>3 DEF Emitted, PostProcessThrows, AssignChildLoopInfo
  <2>2. loopInfo[n] = 0
    BY <1>1, <1>3 DEF LoopInv, ReachInv, LoopOf, DataInv
  <2>. QED BY <1>1, <1>3, <2>1, <2>2, InfoAfter
<1>6. \A m \in LoopOf(l) : /\ Begun(m)' = Begun(m) /\ Done(m)' = Done(m) /\ m \in Node
                           /\ (m \in visitedNodes') = (m \in visitedNodes)
                           /\ (m \in currentlyProcessing') = (m \in currentlyProcessing)
  BY <1>3, <1>4 DEF Begun, Done, LoopOf
<1>7. NoneBegun(l)' = NoneBegun(l) /\ AllDone(l)' = AllDone(l)
  BY <1>6 DEF NoneBegun, AllDone, LoopOf
<1>8. l \in LoopOf(l) /\ \A m \in Body(l) : m \in LoopOf(l)
  BY DEF LoopOf
<1>9. ReachInv(l)'
  BY <1>1, <1>4, <1>5 DEF LoopInv, ReachInv
<1>10. BodyInv(l)'
  BY <1>1, <1>4, <1>5, <1>6, <1>8 DEF LoopInv, BodyInv
<1>11. TurnInv(l)'
  BY <1>1, <1>4, <1>6, <1>7, <1>8 DEF LoopInv, TurnInv
<1>12. FeedInv(l)'
  BY <1>1, <1>4, <1>5, <1>6 DEF LoopInv, FeedInv
<1>13. StampInv(l)'
  BY <1>1, <1>4, <1>6, <1>7, <1>8 DEF LoopInv, StampInv
<1>14. FitsInv(l)'
  <2>. SUFFICES ASSUME NEW s \in proc' PROVE Fits(l, s)'
    BY DEF FitsInv
  <2>1. PICK q \in proc \ {p} : /\ s.node = q.node /\ s.stamp = q.stamp /\ s.reads = q.reads
                                /\ s.stage = q.stage
    BY <1>2 DEF Moves
  <2>2. Fits(l, q)
    BY <1>1 DEF LoopInv, FitsInv
  <2>. QED BY <1>4, <1>6, <1>7, <1>8, <2>1, <2>2 DEF Fits
<1>. QED BY <1>9, <1>10, <1>11, <1>12, <1>13, <1>14 DEF LoopInv

(* The controller clears its body, or leaves it done. *)
LEMMA LoopEmits ==
  ASSUME ClosedLoop, TurningInv, NEW l \in LoopController, NEW p, p.node = l, Emitted(p)
  PROVE  LoopInv(l)'
<1>1. LoopInv(l) /\ JobInv /\ OutcomeInv /\ DataInv /\ outcome \in [Node -> Outcome]
  BY DEF TurningInv, TypesInv, IInv, TypeInv
<1>2. PICK f : p \in proc /\ p.stage = "emitting" /\ Moves(proc \ {p}, {}, f)
  BY EmittedMoves DEF TurningInv, TypesInv
<1>3. l \in Node /\ Body(l) \subseteq Node /\ l \notin Body(l) /\ loopNodes \subseteq Body(l)
  BY <1>1, LoopFacts DEF LoopInv, ReachInv
<1>4. l \in currentlyProcessing /\ (NoneBegun(l) \/ AllDone(l)) /\ l \in loopControllersSeen
  BY <1>1, <1>2 DEF JobInv, LoopInv, TurnInv, Begun
<1>5. /\ visitedNodes' = (visitedNodes \cup {l}) \ Cleared(l)
      /\ currentlyProcessing' = currentlyProcessing \ ({l} \cup Cleared(l))
      /\ \A m \in Node : outcome'[m] = IF m \in Cleared(l) THEN "none" ELSE outcome[m]
      /\ UNCHANGED <<erroredNodes, loopControllersSeen, stamp, loopNodes>>
  BY DEF Emitted, AfterLastEvent
<1>6. \/ outcome[l] \in {"looping", "interrupted"} /\ Cleared(l) = loopNodes
      \/ outcome[l] \in {"none", "broken", "excluded"} /\ Cleared(l) = {}
  BY <1>1, <1>3 DEF LoopInv, TurnInv, Cleared, Outcome
<1>7. /\ \A m \in Node : loopInfo[m] > 0 => loopInfo'[m] > 0
      /\ \A m \in Node : loopInfo'[m] > 0 => m \in LoopOf(l)
      /\ outcome[l] # "none" => \A m \in Node : <<l, m>> \in Connection \ BreakPort => loopInfo'[m] > 0
  <2>1. AfterLastEvent(p) /\ AssignChildLoopInfo(l) > 0 /\ (PostProcessThrows(l) <=> outcome[l] = "none")
    BY <1>1, <1>3 DEF Emitted, PostProcessThrows, AssignChildLoopInfo, DataInv
  <2>2. CASE outcome[l] = "none"
    <3>1. loopInfo' = loopInfo
      BY <1>1, <1>3, <2>1, <2>2, InfoAfter
    <3>. QED BY <1>1, <2>2, <3>1 DEF LoopInv, ReachInv
  <2>3. CASE outcome[l] # "none"
    <3>1. \A m \in Node : loopInfo'[m] > 0 <=> \/ <<l, m>> \in Connection \ BreakPort
                                               \/ loopInfo[m] > 0
                                               \/ m = l
      BY <1>1, <1>3, <2>1, <2>3, InfoAfter
    <3>2. \A m \in Node : <<l, m>> \in Connection \ BreakPort => m \in LoopOf(l)
      BY ClosedFacts
    <3>. QED BY <1>1, <3>1, <3>2 DEF LoopInv, ReachInv, LoopOf
  <2>. QED BY <2>2, <2>3
<1>8. outcome'[l] = outcome[l] /\ l \in visitedNodes' /\ l \notin currentlyProcessing'
  BY <1>3, <1>5, <1>6
<1>9. ASSUME outcome[l] \in {"looping", "interrupted"}
      PROVE  BodyInv(l)' /\ TurnInv(l)' /\ FeedInv(l)' /\ StampInv(l)'
  <2>1. \A m \in Body(l) : ~ Begun(m)' /\ outcome'[m] = "none"
    <3>. SUFFICES ASSUME NEW m \in Body(l) PROVE ~ Begun(m)' /\ outcome'[m] = "none"
      OBVIOUS
    <3>1. Begun(m) => m \in loopNodes
      BY <1>1 DEF LoopInv, BodyInv
    <3>2. outcome[m] # "none" => Begun(m)
      BY <1>1 DEF LoopInv, BodyInv
    <3>. QED BY <1>3, <1>5, <1>6, <1>9, <3>1, <3>2 DEF Begun
  <2>2. BodyInv(l)'
    BY <2>1 DEF BodyInv, Begun
  <2>3. TurnInv(l)'
    BY <1>1, <1>4, <1>5, <1>8, <1>9, <2>1 DEF LoopInv, TurnInv, NoneBegun, Begun
  <2>4. FeedInv(l)'
    BY <1>7, <1>9, <2>1 DEF FeedInv, LoopOf, Done, Begun
  <2>5. StampInv(l)'
    BY <1>1, <1>5, <2>1 DEF LoopInv, StampInv
  <2>. QED BY <2>2, <2>3, <2>4, <2>5
<1>10. ASSUME outcome[l] \in {"none", "broken", "excluded"}
      PROVE  BodyInv(l)' /\ TurnInv(l)' /\ FeedInv(l)' /\ StampInv(l)'
  <2>1. /\ visitedNodes' = visitedNodes \cup {l} /\ currentlyProcessing' = currentlyProcessing \ {l}
        /\ \A m \in Node : outcome'[m] = outcome[m]
    BY <1>5, <1>6, <1>10
  <2>2. \A m \in Body(l) : Begun(m)' = Begun(m) /\ Done(m)' = Done(m) /\ m \in Node
    BY <1>3, <2>1 DEF Begun, Done
  <2>3. NoneBegun(l)' = NoneBegun(l) /\ AllDone(l)' = AllDone(l)
    BY <2>2 DEF NoneBegun, AllDone
  <2>4. BodyInv(l)'
    BY <1>1, <1>5, <1>7, <1>8, <2>1, <2>2 DEF LoopInv, BodyInv
  <2>5. TurnInv(l)'
    BY <1>1, <1>4, <1>5, <1>8, <2>3 DEF LoopInv, TurnInv, Begun
  <2>6. outcome[l] = "none" => l \in erroredNodes /\ NoneBegun(l)
    BY <1>1, <1>2 DEF OutcomeInv, LoopInv, TurnInv
  <2>7. FeedInv(l)'
    BY <1>1, <1>5, <1>7, <2>2, <2>6 DEF LoopInv, FeedInv, LoopOf
  <2>8. StampInv(l)'
    <3>1. \A m \in Body(l) : outcome[m] # "none" => Begun(m)
      BY <1>1 DEF LoopInv, BodyInv
    <3>. QED BY <1>1, <1>3, <1>5, <1>8, <1>10, <2>1, <2>3, <2>6, <3>1
             DEF LoopInv, StampInv, NoneBegun
  <2>. QED BY <2>4, <2>5, <2>7, <2>8
<1>11. BodyInv(l)' /\ TurnInv(l)' /\ FeedInv(l)' /\ StampInv(l)'
  BY <1>6, <1>9, <1>10
<1>12. ReachInv(l)'
  BY <1>1, <1>5, <1>7 DEF LoopInv, ReachInv
<1>13. FitsInv(l)'
  <2>. SUFFICES ASSUME NEW s \in proc' PROVE Fits(l, s)'
    BY DEF FitsInv
  <2>1. PICK q \in proc \ {p} : s.node = q.node /\ s.stamp = q.stamp /\ s.stage = q.stage
    BY <1>2 DEF Moves
  <2>2. Fits(l, q) /\ q.node # l
    BY <1>1, <1>2, <2>1 DEF LoopInv, FitsInv, JobInv, OneJobPerNode
  <2>. QED BY <1>3, <1>5, <2>1, <2>2 DEF Fits
<1>. QED BY <1>11, <1>12, <1>13 DEF LoopInv

(***************************************************************************)
(* Jobs and results, in every step.                                        *)
(***************************************************************************)
LEMMA MovesJobs ==
  ASSUME JobInv, NEW P \in SUBSET proc, NEW ended, NEW f, Moves(P, ended, f)
  PROVE  OneJobPerNode' /\ {s.node : s \in proc'} = {q.node : q \in P}
BY DEF JobInv, OneJobPerNode, Moves

LEMMA JobKeeps ==
  ASSUME TurningInv, NEW n \in Node, MayTry(n),
         NEW jobs, BeginNode(n, jobs) \/ (n \notin LoopController /\ ExcludeNode(n, jobs))
  PROVE  JobInv' /\ OutcomeInv'
<1>1. JobInv /\ OutcomeInv /\ outcome \in [Node -> Outcome]
  BY DEF TurningInv, TypesInv, IInv, TypeInv
<1>2. n \notin currentlyProcessing
  BY DEF MayTry, ShouldSkipNodeProcessing
<1>3. CASE BeginNode(n, jobs)
  <2>1. PICK r : proc' = proc \cup {r} /\ r.node = n /\ r.stage = "running"
    BY <1>3, BeginIsNewJob
  <2>2. /\ currentlyProcessing' = currentlyProcessing \cup {n}
        /\ UNCHANGED <<visitedNodes, erroredNodes, outcome>>
    BY <1>3 DEF BeginNode, resultVars
  <2>3. JobInv'
    BY <1>1, <1>2, <2>1, <2>2 DEF JobInv, OneJobPerNode
  <2>4. OutcomeInv'
    BY <1>1, <2>1, <2>2 DEF OutcomeInv
  <2>. QED BY <2>3, <2>4
<1>4. CASE ExcludeNode(n, jobs)
  <2>1. /\ visitedNodes' = visitedNodes \cup {n} /\ currentlyProcessing' = currentlyProcessing
        /\ outcome' = [outcome EXCEPT ![n] = "excluded"]
        /\ UNCHANGED <<proc, erroredNodes>>
    BY <1>2, <1>4 DEF ExcludeNode
  <2>2. JobInv'
    BY <1>1, <2>1 DEF JobInv, OneJobPerNode
  <2>3. outcome'[n] = "excluded" /\ \A m : m # n => outcome'[m] = outcome[m]
    BY <1>1, <2>1
  <2>4. OutcomeInv'
    BY <1>1, <2>1, <2>3 DEF OutcomeInv
  <2>. QED BY <2>2, <2>4
<1>. QED BY <1>3, <1>4

LEMMA EndKeeps ==
  ASSUME TurningInv, NEW p, Ends(p)
  PROVE  JobInv' /\ OutcomeInv'
<1>1. JobInv /\ OutcomeInv /\ visitedNodes \subseteq Node /\ proc \subseteq Proc
  BY DEF TurningInv, TypesInv, DataInv, SlotInv
<1>2. PICK f : Moves(proc, {p}, f)
  BY DEF Ends
<1>3. JobInv'
  BY <1>1, <1>2, MovesJobs DEF JobInv, Ends
<1>4. \A m \in Node : outcome[m] # "none" => outcome'[m] # "none"
  BY DEF Ends
<1>5. p.node \in Node /\ (outcome'[p.node] # "none" \/ p.node \in erroredNodes')
  BY DEF Ends
<1>6. \A m \in visitedNodes' \ erroredNodes' : outcome'[m] # "none"
  BY <1>1, <1>4, <1>5 DEF Ends, OutcomeInv
<1>7. ASSUME NEW s \in proc', s.stage = "emitting"
      PROVE  outcome'[s.node] # "none" \/ s.node \in erroredNodes'
  <2>1. PICK q \in proc : s.node = q.node /\ (q \in {p} \/ q.stage = "emitting")
    BY <1>2, <1>7 DEF Moves
  <2>2. q.node \in Node
    BY <1>1 DEF Proc
  <2>. QED BY <1>1, <1>4, <1>5, <2>1, <2>2 DEF Ends, OutcomeInv
<1>. QED BY <1>3, <1>6, <1>7 DEF OutcomeInv

(* Only the controller clears, and only its body. *)
LEMMA ClearedFacts ==
  ASSUME TurningInv, NEW n \in currentlyProcessing
  PROVE  /\ n \notin Cleared(n) /\ Cleared(n) \cap currentlyProcessing = {}
         /\ Cleared(n) # {} => n \in LoopController /\ Cleared(n) \subseteq Body(n)
<1>1. CASE n \in LoopController
  <2>1. LoopInv(n) /\ n \notin Body(n)
    BY <1>1, LoopFacts DEF TurningInv
  <2>2. loopNodes \subseteq Body(n) /\ loopNodes \cap currentlyProcessing = {}
    BY <2>1 DEF LoopInv, ReachInv, BodyInv
  <2>. QED BY <1>1, <2>1, <2>2 DEF Cleared
<1>2. CASE n \notin LoopController
  BY <1>2 DEF Cleared
<1>. QED BY <1>1, <1>2

LEMMA EmittedKeeps ==
  ASSUME TurningInv, NEW p, Emitted(p)
  PROVE  JobInv' /\ OutcomeInv'
<1>. DEFINE n == p.node
<1>1. JobInv /\ OutcomeInv /\ visitedNodes \subseteq Node /\ proc \subseteq Proc
  BY DEF TurningInv, TypesInv, DataInv, SlotInv
<1>2. PICK f : p \in proc /\ p.stage = "emitting" /\ Moves(proc \ {p}, {}, f)
  BY EmittedMoves DEF TurningInv, TypesInv
<1>3. n \in Node /\ n \in currentlyProcessing
  BY <1>1, <1>2 DEF Proc, JobInv
<1>4. n \notin Cleared(n) /\ Cleared(n) \cap currentlyProcessing = {}
  BY <1>3, ClearedFacts
<1>5. /\ visitedNodes' = (visitedNodes \cup {n}) \ Cleared(n)
      /\ currentlyProcessing' = currentlyProcessing \ {n}
      /\ \A m \in Node : m \notin Cleared(n) => outcome'[m] = outcome[m]
      /\ erroredNodes' = erroredNodes
  BY <1>4 DEF Emitted, AfterLastEvent
<1>6. JobInv'
  <2>1. OneJobPerNode' /\ {s.node : s \in proc'} = {q.node : q \in proc \ {p}}
    BY <1>1, <1>2, MovesJobs
  <2>2. {q.node : q \in proc \ {p}} = currentlyProcessing \ {n}
    BY <1>1, <1>2 DEF JobInv, OneJobPerNode
  <2>. QED BY <1>5, <2>1, <2>2 DEF JobInv
<1>7. \A m \in visitedNodes' \ erroredNodes' : outcome'[m] # "none"
  BY <1>1, <1>2, <1>3, <1>5 DEF OutcomeInv
<1>8. ASSUME NEW s \in proc', s.stage = "emitting"
      PROVE  outcome'[s.node] # "none" \/ s.node \in erroredNodes'
  <2>1. PICK q \in proc : s.node = q.node /\ q.stage = "emitting"
    BY <1>2, <1>8 DEF Moves
  <2>2. q.node \in Node /\ q.node \in currentlyProcessing
    BY <1>1 DEF Proc, JobInv
  <2>. QED BY <1>1, <1>4, <1>5, <2>1, <2>2 DEF OutcomeInv
<1>. QED BY <1>6, <1>7, <1>8 DEF OutcomeInv

(* A signal, or a job that was skipped. *)
loopVars == <<currentlyProcessing, visitedNodes, erroredNodes, loopControllersSeen,
              resultVars, loopInfo, loopNodes>>

LEMMA SignalKeeps ==
  ASSUME TurningInv, NEW f, Moves(proc, {}, f), UNCHANGED loopVars
  PROVE  JobInv' /\ OutcomeInv' /\ \A l \in LoopController : LoopInv(l)'
<1>1. JobInv /\ OutcomeInv
  BY DEF TurningInv
<1>2. UNCHANGED <<visitedNodes, currentlyProcessing, erroredNodes, loopControllersSeen,
                  outcome, stamp, loopInfo, loopNodes>>
  BY DEF loopVars, resultVars
<1>3. JobInv'
  BY <1>1, <1>2, MovesJobs DEF JobInv
<1>4. \A s \in proc' : \E q \in proc : /\ s.node = q.node /\ s.stamp = q.stamp
                                       /\ s.reads = q.reads /\ s.stage = q.stage
  BY DEF Moves
<1>5. OutcomeInv'
  BY <1>1, <1>2, <1>4 DEF OutcomeInv
<1>6. ASSUME NEW l \in LoopController
      PROVE  LoopInv(l)'
  <2>1. LoopInv(l)
    BY DEF TurningInv
  <2>2. NoneBegun(l)' = NoneBegun(l) /\ AllDone(l)' = AllDone(l)
    BY <1>2 DEF NoneBegun, AllDone, Begun, Done
  <2>3. ReachInv(l)' /\ BodyInv(l)' /\ FeedInv(l)'
    BY <1>2, <2>1 DEF LoopInv, ReachInv, BodyInv, FeedInv, Begun, Done
  <2>4. TurnInv(l)' /\ StampInv(l)'
    BY <1>2, <2>1, <2>2 DEF LoopInv, TurnInv, StampInv, Begun
  <2>5. FitsInv(l)'
    BY <1>2, <1>4, <2>1, <2>2 DEF LoopInv, FitsInv, Fits
  <2>. QED BY <2>3, <2>4, <2>5 DEF LoopInv
<1>. QED BY <1>3, <1>5, <1>6

-----------------------------------------------------------------------------
(***************************************************************************)
(* The loop is sound.                                                      *)
(***************************************************************************)
PromptStep ==
  \A l \in LoopController : \A n \in LoopOf(l) : Begins(n) =>
    \A p \in proc : p.node \in InputNodesTo(n) \cap LoopOf(l) => p.stage = "running"

LEMMA JobTurns ==
  ASSUME ClosedLoop, TurningInv, PromptStep, NEW n \in Node, JobOf(n)
  PROVE  JobInv' /\ OutcomeInv' /\ \A l \in LoopController : LoopInv(l)'
<1>1. CASE UNCHANGED workVars
  <2>. DEFINE f == [q \in proc |-> q]
  <2>1. Moves(proc, {}, f)
    BY <1>1 DEF workVars, Moves
  <2>2. UNCHANGED loopVars
    BY <1>1 DEF workVars, loopVars
  <2>. HIDE DEF f
  <2>. QED BY <2>1, <2>2, SignalKeeps
<1>2. ASSUME MayTry(n),
             NEW jobs, BeginNode(n, jobs) \/ (n \notin LoopController /\ ExcludeNode(n, jobs))
      PROVE  JobInv' /\ OutcomeInv' /\ \A l \in LoopController : LoopInv(l)'
  <2>1. JobInv' /\ OutcomeInv'
    BY <1>2, JobKeeps
  <2>2. Begins(n)
    <3>1. n \notin currentlyProcessing /\ (n \notin LoopController => n \notin visitedNodes)
      BY <1>2 DEF MayTry, ShouldSkipNodeProcessing
    <3>. QED BY <1>2, <3>1 DEF Begins, BeginNode, ExcludeNode
  <2>3. ASSUME NEW l \in LoopController
        PROVE  LoopInv(l)'
    <3>1. n \in LoopOf(l) => Prompt(l, n)
      BY <2>2 DEF PromptStep, Prompt
    <3>2. CASE n \in Body(l)
      BY <1>2, <3>1, <3>2, BodyStarts, BodyExcluded DEF LoopOf
    <3>3. CASE n = l
      BY <1>2, <3>1, <3>3, LoopStarts DEF LoopOf
    <3>4. CASE n \notin LoopOf(l)
      BY <1>2, <3>4, OutsideJob
    <3>. QED BY <3>2, <3>3, <3>4 DEF LoopOf
  <2>. QED BY <2>1, <2>3
<1>. QED BY <1>1, <1>2 DEF JobOf

LEMMA InitTurns == Init => TurningInv
<1>. SUFFICES ASSUME Init PROVE TurningInv
  OBVIOUS
<1>1. TypesInv
  BY InitTypes
<1>2. JobInv /\ OutcomeInv
  BY DEF Init, JobInv, OneJobPerNode, OutcomeInv
<1>3. ASSUME NEW l \in LoopController
      PROVE  LoopInv(l)
  <2>1. l \in Node /\ Body(l) \subseteq Node
    BY LoopFacts
  <2>2. ReachInv(l) /\ BodyInv(l) /\ FeedInv(l) /\ FitsInv(l)
    BY <2>1 DEF Init, ReachInv, BodyInv, FeedInv, FitsInv, Begun, Done
  <2>3. TurnInv(l) /\ StampInv(l)
    BY <2>1 DEF Init, TurnInv, StampInv, NoneBegun, Begun
  <2>. QED BY <2>2, <2>3 DEF LoopInv
<1>. QED BY <1>1, <1>2, <1>3 DEF TurningInv

LEMMA StepTurns ==
  ASSUME ClosedLoop, TurningInv, [Next]_vars, [PromptStep]_vars
  PROVE  TurningInv'
<1>. DEFINE Goal == JobInv' /\ OutcomeInv' /\ \A l \in LoopController : LoopInv(l)'
<1>1. TypesInv /\ TypesInv'
  BY StepTypes DEF TurningInv
<1>2. SUFFICES Goal
  BY <1>1 DEF TurningInv
<1>3. CASE UNCHANGED vars
  <2>. DEFINE f == [q \in proc |-> q]
  <2>1. Moves(proc, {}, f)
    BY <1>3 DEF vars, Moves
  <2>2. UNCHANGED loopVars
    BY <1>3 DEF vars, setVars, attachedNodeData, loopVars
  <2>. HIDE DEF f
  <2>. QED BY <2>1, <2>2, SignalKeeps
<1>4. CASE NextJob /\ PromptStep
  BY <1>1, <1>4, NextJobIsJob, JobTurns DEF TypesInv
<1>5. ASSUME NEW p, NodeFinished(p) \/ NodeFailed(p)
      PROVE  Goal
  <2>1. Ends(p)
    BY <1>1, <1>5, EndsFacts DEF TurningInv
  <2>. QED BY <2>1, EndKeeps, NodeEnds
<1>6. ASSUME NEW p, Emitted(p)
      PROVE  Goal
  <2>1. JobInv' /\ OutcomeInv'
    BY <1>6, EmittedKeeps
  <2>2. p.node \in Node
    BY <1>1, <1>6, EmittedMoves DEF TypesInv, SlotInv, Proc
  <2>3. ASSUME NEW l \in LoopController PROVE LoopInv(l)'
    BY <1>6, <2>2, BodyEmits, OutsideEmits, LoopEmits DEF LoopOf
  <2>. QED BY <2>1, <2>3
<1>7. CASE Abort
  <2>1. PICK f : Moves(proc, {}, f)
    BY <1>1, <1>7, AbortMoves DEF TypesInv
  <2>2. UNCHANGED loopVars
    BY <1>7 DEF Abort, setVars, attachedNodeData, loopVars
  <2>. QED BY <2>1, <2>2, SignalKeeps
<1>. QED BY <1>3, <1>4, <1>5, <1>6, <1>7 DEF Next, SchedulerStep

LEMMA TurningInvSound == TurningInv => LoopIsSound
<1>. SUFFICES ASSUME TurningInv PROVE LoopIsSound
  OBVIOUS
<1>1. TypeOK /\ OneJobPerNode
  BY DEF TurningInv, TypesInv, IInv, TypeInv, SlotInv, DataInv, TypeOK, RaceData, JobInv
<1>2. IterationsKeepStep
  BY DEF TurningInv, LoopInv, FitsInv, Fits, IterationsKeepStep
<1>. QED BY <1>1, <1>2 DEF LoopIsSound

(* The loop is sound, for every graph whose loop is closed, however often it
   turns, fails or is aborted, if the listeners keep up with it: no node is
   processed twice at a time, every node of the loop works on the outputs of
   the controller's last iteration, and an iteration reads only what they made
   of the one before.  Of processNodeIfAllInputsAvailable, the tests of what a
   controller waits for, the loop info that is handed on and the clearing of a
   loop. *)
THEOREM ClosedLoopsAreSound ==
  ASSUME ClosedLoop
  PROVE  Spec /\ PromptLoop => []LoopIsSound
<1>1. TurningInv /\ [Next]_vars /\ [PromptStep]_vars => TurningInv'
  BY StepTurns
<1>2. PromptLoop => [][PromptStep]_vars
  BY DEF PromptLoop, PromptStep
<1>. QED BY <1>1, <1>2, InitTurns, TurningInvSound, PTL DEF Spec

-----------------------------------------------------------------------------
(***************************************************************************)
(* What leads to a race.                                                   *)
(***************************************************************************)
Before(n, r) == \E m \in OutputNodesFrom(n) : r \in Downstream[m]

LEMMA BeforeReaches ==
  ASSUME NEW n \in Node, NEW r \in Node
  PROVE  /\ Before(n, r) => r \in Downstream[n]
         /\ r \in Downstream[n] /\ r # n => Before(n, r)
<1>1. Before(n, r) => r \in Downstream[n]
  BY Reaches DEF Before, OutputNodesFrom
<1>2. Downstream[n] \subseteq {n} \cup {k \in Node : Before(n, k)}
  <2>. DEFINE S == {n} \cup {k \in Node : Before(n, k)}
  <2>1. ASSUME NEW a \in Node, NEW b \in Node, a \in S, <<a, b>> \in Connection
        PROVE  b \in S
    <3>1. CASE a = n
      BY <2>1, <3>1, Reaches DEF Before, OutputNodesFrom
    <3>2. CASE a # n
      <4>1. PICK m \in OutputNodesFrom(n) : a \in Downstream[m]
        BY <2>1, <3>2 DEF Before
      <4>2. b \in Downstream[m]
        BY <2>1, <4>1, Reaches DEF OutputNodesFrom
      <4>. QED BY <4>2 DEF Before
    <3>. QED BY <3>1, <3>2
  <2>2. n \in S /\ S \in SUBSET Node
    OBVIOUS
  <2>. HIDE DEF S
  <2>3. Downstream[n] \subseteq S
    BY <2>1, <2>2, ReachesLeast
  <2>. QED BY <2>3 DEF S
<1>. QED BY <1>1, <1>2

(* No race that n leads to has run. *)
Free(n) == \A r \in RaceInputs : Before(n, r) => r \notin visitedNodes

LEMMA AfterLoopFree ==
  ASSUME PassableGraph, NEW l \in LoopController, NEW n \in Downstream[l]
  PROVE  \A r \in RaceInputs : ~ Before(n, r)
<1>1. l \in Node /\ n \in Node /\ RaceInputs \subseteq Node
  BY LoopFacts, Reaches, GraphFacts
<1>2. Downstream[l] \cap RaceInputs = {}
  BY DEF PassableGraph
<1>. QED BY <1>1, <1>2, BeforeReaches, Reaches

(* Races, once run, are not cleared, so what they hold up they hold up for good. *)
LEMMA FreeBefore ==
  ASSUME NEW n, RaceInputs \cap visitedNodes \subseteq visitedNodes'
  PROVE  Free(n)' => Free(n)
BY DEF Free, Before

(* Of an input that a race holds up, so is what reads it. *)
LEMMA HeldUp ==
  ASSUME PassableGraph, NEW n \in Node \ visitedNodes, NEW i \in InputNodesTo(n) \ visitedNodes,
         Free(n)
  PROVE  Free(i)
<1>. SUFFICES ASSUME NEW r \in RaceInputs, Before(i, r), r \in visitedNodes PROVE FALSE
  BY DEF Free
<1>1. i \in Node /\ r \in Node /\ n \in OutputNodesFrom(i) /\ i # r /\ n # r
  BY GraphFacts DEF InputNodesTo, OutputNodesFrom
<1>2. r \in Downstream[i]
  BY <1>1, BeforeReaches
<1>3. r \in Downstream[n]
  BY <1>1, <1>2 DEF PassableGraph
<1>. QED BY <1>1, <1>3, BeforeReaches DEF Free

-----------------------------------------------------------------------------
(***************************************************************************)
(* The queue.                                                              *)
(***************************************************************************)
Pending == ToSet(queue)

LEMMA ElementsOfJobs ==
  ASSUME NEW S \in SUBSET Node, NEW kind \in {"fetch", "try"}
  PROVE  \A x \in S : <<kind, x>> \in ToSet(Jobs(kind, S))
<1>. DEFINE n == Cardinality(S)
<1>1. IsFiniteSet(S)
  BY GraphFacts, FS_Subset
<1>2. n \in Nat /\ ExistsBijection(1 .. n, S)
  BY <1>1, FS_CardinalityType
<1>3. \E f \in [1 .. n -> S] : IsInjective(f)
  BY <1>2 DEF ExistsBijection, Bijection, Injection, IsInjective
<1>4. PICK f \in [1 .. n -> S] : f = SetToSeq(S) /\ IsInjective(f)
  BY <1>3 DEF SetToSeq
<1>5. f \in Injection(1 .. n, S)
  BY <1>4 DEF Injection, IsInjective
<1>6. IsFiniteSet(1 .. n) /\ Cardinality(1 .. n) = n
  BY <1>2, FS_Interval
<1>7. f \in Surjection(1 .. n, S)
  BY <1>1, <1>5, <1>6, FS_Injection
<1>8. \A x \in S : \E i \in 1 .. n : f[i] = x
  BY <1>7 DEF Surjection
<1>9. \A i \in 1 .. n : <<kind, f[i]>> \in ToSet(Jobs(kind, S))
  BY <1>4 DEF Jobs, ToSet
<1>. QED BY <1>8, <1>9

LEMMA JobsAdded ==
  ASSUME NEW s \in Seq(Job), NEW S \in SUBSET Node, NEW kind \in {"fetch", "try"}
  PROVE  /\ s \o Jobs(kind, S) \in Seq(Job)
         /\ ToSet(s) \subseteq ToSet(s \o Jobs(kind, S))
         /\ \A x \in S : <<kind, x>> \in ToSet(s \o Jobs(kind, S))
<1>. DEFINE t == Jobs(kind, S)
<1>1. t \in Seq(Job) /\ \A x \in S : <<kind, x>> \in ToSet(t)
  BY JobsTyped, ElementsOfJobs
<1>. HIDE DEF t
<1>2. /\ s \o t \in Seq(Job) /\ Len(s \o t) = Len(s) + Len(t)
      /\ \A i \in 1 .. Len(s) + Len(t) :
           (s \o t)[i] = IF i <= Len(s) THEN s[i] ELSE t[i - Len(s)]
  BY <1>1, ConcatProperties
<1>3. DOMAIN s = 1 .. Len(s) /\ DOMAIN t = 1 .. Len(t) /\ Len(s) \in Nat /\ Len(t) \in Nat
  BY <1>1
<1>. DEFINE u == s \o t
<1>4. DOMAIN u = 1 .. Len(s) + Len(t)
  BY <1>2, <1>3
<1>5. /\ \A i \in DOMAIN s : i \in DOMAIN u /\ u[i] = s[i]
      /\ \A i \in DOMAIN t : i + Len(s) \in DOMAIN u /\ u[i + Len(s)] = t[i]
  BY <1>2, <1>3, <1>4
<1>. HIDE DEF u
<1>6. ToSet(s) \subseteq ToSet(u) /\ ToSet(t) \subseteq ToSet(u)
  BY <1>5 DEF ToSet
<1>. QED BY <1>1, <1>2, <1>6 DEF t, u

LEMMA FirstJob ==
  ASSUME TypeInv, queue # <<>>
  PROVE  /\ queue[1] \in Job /\ Tail(queue) \in Seq(Job)
         /\ Pending = {queue[1]} \cup ToSet(Tail(queue))
<1>1. /\ queue[1] \in Job /\ Tail(queue) \in Seq(Job) /\ Len(Tail(queue)) = Len(queue) - 1
      /\ \A i \in 1 .. Len(Tail(queue)) : Tail(queue)[i] = queue[i + 1]
      /\ Len(queue) \in Nat \ {0}
  BY HeadTailProperties, EmptySeq DEF TypeInv
<1>. DEFINE s == queue
            t == Tail(queue)
<1>2. DOMAIN s = 1 .. Len(s) /\ DOMAIN t = 1 .. Len(s) - 1
  BY <1>1 DEF TypeInv
<1>3. 1 \in DOMAIN s
  BY <1>1, <1>2
<1>4. \A i \in DOMAIN t : i + 1 \in DOMAIN s /\ t[i] = s[i + 1]
  BY <1>1, <1>2
<1>5. \A i \in DOMAIN s : i = 1 \/ (i - 1 \in DOMAIN t /\ t[i - 1] = s[i])
  BY <1>1, <1>2
<1>. HIDE DEF t
<1>6. ToSet(s) = {s[1]} \cup ToSet(t)
  BY <1>3, <1>4, <1>5 DEF ToSet
<1>. QED BY <1>1, <1>6 DEF t, Pending

-----------------------------------------------------------------------------
(***************************************************************************)
(* What a clean run keeps, that has not failed and was not aborted: who    *)
(* can run is woken.                                                       *)
(***************************************************************************)
Clean == erroredNodes = {} /\ aborted = "no"

Live(n) == n \in queuedNodes \cup visitedNodes \cup currentlyProcessing \cup (loopNodes \ RaceInputs)
Fetched(n) == Live(n) \/ <<"fetch", n>> \in Pending

Touched(n) == n \in queuedNodes \cup loopNodes \/ InputNodesTo(n) \cap visitedNodes # {}
Stands(n) ==
  n \notin currentlyProcessing /\ (n \in visitedNodes => n \in LoopController /\ outcome[n] = "looping")
Ready(n) == ~ WaitingForInputNode(n) /\ ~ HasInput(n, "notBroken")
Emitting(n) == \E p \in proc : p.node \in InputNodesTo(n) /\ p.stage = "emitting"
Woken(n) == <<"try", n>> \in Pending \/ Emitting(n)

(* A node that has been fetched or has a result to read, that is neither being
   processed nor done, and that nothing holds up, is about to be tried. *)
WakeFor(n) == Touched(n) /\ Stands(n) /\ Free(n) /\ Ready(n) => Woken(n)

(* A node is attached to races that it leads to, and to one that is over only
   when one of those is. *)
AttachedInv ==
  \A n \in Node : /\ \A r \in races[n].raceIds : Before(n, r)
                  /\ races[n].completed => ~ Free(n)
ResultInv == \A n \in Node : outcome[n] # "none" => Begun(n)

(* Only the branches of a race that is over are cancelled. *)
JobsGoOn ==
  \A p \in proc : p.pushes /\ p.signal # "abort" /\ (p.signal = "race" => ~ Free(p.node))
NoneInterrupted == \A l \in LoopController : outcome[l] # "interrupted"

(* What a node needs is fetched; what it waits for is there when it begins, and
   in the loop again afterwards. *)
SinksInv == \A n \in Node : OutputNodesFrom(n) = {} => Fetched(n)
NeedsInv == \A n \in queuedNodes : \A i \in InputNodesTo(n) : Fetched(i)
ReadsInv ==
  \A n \in (visitedNodes \cup currentlyProcessing \cup loopNodes) \ (RaceInputs \cup LoopController) :
    InputNodesTo(n) \subseteq visitedNodes \cup (loopNodes \ RaceInputs)
EntryInv == \A l \in LoopController : Begun(l) => InputNodesTo(l) \ LoopOf(l) \subseteq visitedNodes

FetchInv == SinksInv /\ NeedsInv /\ ReadsInv /\ EntryInv
CleanInv == JobsGoOn /\ NoneInterrupted /\ FetchInv /\ \A n \in Node : WakeFor(n)
GoingInv == TurningInv /\ AttachedInv /\ ResultInv /\ (Clean => CleanInv)

(* What n waits for depends on its inputs. *)
LEMMA ReadyKept ==
  ASSUME NEW n \in Node,
         \A i \in InputNodesTo(n) : (i \in visitedNodes' <=> i \in visitedNodes) /\ outcome'[i] = outcome[i],
         n \in LoopController => (n \in loopControllersSeen' <=> n \in loopControllersSeen)
  PROVE  Ready(n)' <=> Ready(n)
<1>1. \A i \in InputNodesTo(n) : PortValue(<<i, n>>)' = PortValue(<<i, n>>)
  BY DEF PortValue
<1>2. HasInput(n, "value")' <=> HasInput(n, "value")
  BY <1>1 DEF HasInput, InputNodesTo
<1>3. HasInput(n, "notBroken")' <=> HasInput(n, "notBroken")
  BY <1>1 DEF HasInput, InputNodesTo
<1>4. InputNodesTo(n)' = InputNodesTo(n)
  BY DEF InputNodesTo
<1>5. WaitingForInputNode(n)' <=> WaitingForInputNode(n)
  BY <1>2, <1>4 DEF WaitingForInputNode, InSameCycle
<1>. QED BY <1>3, <1>5 DEF Ready

LEMMA WakeKept ==
  ASSUME NEW n \in Node, WakeFor(n),
         \A i \in InputNodesTo(n) : (i \in visitedNodes' <=> i \in visitedNodes) /\ outcome'[i] = outcome[i],
         n \in LoopController => (n \in loopControllersSeen' <=> n \in loopControllersSeen),
         RaceInputs \cap visitedNodes \subseteq visitedNodes',
         n \in currentlyProcessing => n \in currentlyProcessing',
         n \in visitedNodes => n \in visitedNodes' /\ outcome'[n] = outcome[n],
         n \in queuedNodes' \cup loopNodes' => n \in queuedNodes \cup loopNodes,
         Woken(n) => Woken(n)'
  PROVE  WakeFor(n)'
<1>1. Ready(n)' <=> Ready(n)
  BY ReadyKept
<1>2. Free(n)' => Free(n)
  BY FreeBefore
<1>3. Touched(n)' => Touched(n)
  BY DEF Touched, InputNodesTo
<1>4. Stands(n)' => Stands(n)
  BY DEF Stands
<1>. QED BY <1>1, <1>2, <1>3, <1>4 DEF WakeFor

(* What n does when it is tried, as for the queue. *)
Held(n) == ShouldSkipNodeProcessing(n) \/ races[n].completed \/ ~ Ready(n)

Tried(n) ==
  \/ UNCHANGED workVars /\ Held(n)
  \/ MayTry(n) /\ \E jobs : BeginNode(n, jobs)
  \/ /\ MayTry(n) /\ n \notin LoopController /\ \E jobs : ExcludeNode(n, jobs)
     /\ \A m \in OutputNodesFrom(n) : <<"try", m>> \in Pending'

LEMMA TryQueue ==
  ASSUME NEW n \in Node, NEW jobs \in Seq(Job), Try(n, jobs)
  PROVE  Tried(n) /\ ToSet(jobs) \subseteq Pending'
<1>1. CASE SkipNode(jobs) /\ Held(n)
  BY <1>1 DEF SkipNode, workVars, Tried, Pending
<1>2. CASE MayTry(n) /\ BeginNode(n, jobs)
  BY <1>2 DEF BeginNode, Tried, Pending
<1>3. CASE MayTry(n) /\ n \notin LoopController /\ ExcludeNode(n, jobs)
  <2>1. queue' = jobs \o Jobs("try", OutputNodesFrom(n))
    BY <1>3 DEF ExcludeNode
  <2>2. /\ ToSet(jobs) \subseteq Pending'
        /\ \A m \in OutputNodesFrom(n) : <<"try", m>> \in Pending'
    BY <2>1, GraphFacts, JobsAdded DEF Pending
  <2>. QED BY <1>3, <2>2 DEF Tried
<1>. QED BY <1>1, <1>2, <1>3 DEF Try, Held, Ready, MayTry, ShouldSkipCompletedRaceNode

(* What a job of the queue does for n. *)
QueueStep(n) ==
  /\ UNCHANGED aborted
  /\ queuedNodes \subseteq queuedNodes' /\ queuedNodes' \subseteq queuedNodes \cup {n}
  /\ \A m \in Node \ {n} : \A kind \in {"fetch", "try"} : <<kind, m>> \in Pending => <<kind, m>> \in Pending'
  /\ <<"fetch", n>> \in Pending => \/ <<"fetch", n>> \in Pending' \/ n \in queuedNodes'
                                   \/ ~ Clean \/ n \in currentlyProcessing \/ outcome[n] # "none"
  /\ n \in queuedNodes' \ queuedNodes => \A i \in InputNodesTo(n) : <<"fetch", i>> \in Pending'
  /\ \/ Tried(n)
     \/ /\ UNCHANGED <<workVars, queuedNodes>>
        /\ <<"try", n>> \in Pending => <<"try", n>> \in Pending'

LEMMA NextJobQueue ==
  ASSUME TypesInv, NextJob
  PROVE  \E n \in Node : QueueStep(n)
<1>1. TypeInv /\ queue # <<>> /\ UNCHANGED aborted
  BY DEF TypesInv, IInv, NextJob
<1>2. /\ queue[1] \in Job /\ Tail(queue) \in Seq(Job)
      /\ Pending = {queue[1]} \cup ToSet(Tail(queue))
  BY <1>1, FirstJob
<1>3. PICK n \in Node : n = queue[1][2] /\ queue[1] \in {<<"fetch", n>>, <<"try", n>>}
  BY <1>2 DEF Job
<1>4. \A m \in Node \ {n} : \A kind \in {"fetch", "try"} :
        <<kind, m>> \in Pending => <<kind, m>> \in ToSet(Tail(queue))
  BY <1>2, <1>3
<1>5. CASE queue[1][1] = "fetch" /\ FetchNodeData(n)
  <2>1. queue[1] = <<"fetch", n>>
    BY <1>3, <1>5
  <2>2. <<"try", n>> \in Pending => <<"try", n>> \in ToSet(Tail(queue))
    BY <1>2, <2>1
  <2>. DEFINE pointless == \/ n \in currentlyProcessing \cup queuedNodes \cup erroredNodes
                           \/ outcome[n] # "none"
                           \/ InputNodesTo(n) \cap erroredNodes # {}
              jobs == Tail(queue) \o Jobs("fetch", InputNodesTo(n))
  <2>3. CASE pointless
    <3>1. SkipNode(Tail(queue)) /\ UNCHANGED queuedNodes
      BY <1>5, <2>3 DEF FetchNodeData
    <3>2. Pending' = ToSet(Tail(queue)) /\ UNCHANGED <<workVars, queuedNodes>>
      BY <3>1 DEF SkipNode, workVars, Pending
    <3>3. n \in queuedNodes' \/ ~ Clean \/ n \in currentlyProcessing \/ outcome[n] # "none"
      BY <2>3, <3>2 DEF Clean
    <3>. QED BY <1>1, <1>4, <2>2, <3>2, <3>3 DEF QueueStep
  <2>4. CASE ~ pointless
    <3>1. queuedNodes' = queuedNodes \cup {n} /\ Try(n, jobs)
      BY <1>5, <2>4 DEF FetchNodeData
    <3>2. /\ jobs \in Seq(Job) /\ ToSet(Tail(queue)) \subseteq ToSet(jobs)
          /\ \A i \in InputNodesTo(n) : <<"fetch", i>> \in ToSet(jobs)
      BY <1>2, GraphFacts, JobsAdded
    <3>. HIDE DEF jobs
    <3>3. Tried(n) /\ ToSet(jobs) \subseteq Pending'
      BY <3>1, <3>2, TryQueue
    <3>. QED BY <1>1, <1>4, <3>1, <3>2, <3>3 DEF QueueStep
  <2>. QED BY <2>3, <2>4
<1>6. CASE queue[1][1] = "try" /\ Try(n, Tail(queue)) /\ UNCHANGED queuedNodes
  <2>1. Tried(n) /\ ToSet(Tail(queue)) \subseteq Pending'
    BY <1>2, <1>6, TryQueue
  <2>2. <<"fetch", n>> \in Pending => <<"fetch", n>> \in ToSet(Tail(queue))
    BY <1>2, <1>3, <1>6
  <2>. QED BY <1>1, <1>4, <1>6, <2>1, <2>2 DEF QueueStep
<1>. QED BY <1>1, <1>3, <1>5, <1>6 DEF NextJob

LEMMA TriedFacts ==
  ASSUME outcome \in [Node -> Outcome], NEW n \in Node, Tried(n) \/ UNCHANGED workVars
  PROVE  /\ visitedNodes \subseteq visitedNodes' /\ visitedNodes' \subseteq visitedNodes \cup {n}
         /\ currentlyProcessing \subseteq visitedNodes' \cup currentlyProcessing'
         /\ currentlyProcessing' \subseteq currentlyProcessing \cup {n}
         /\ loopNodes \subseteq loopNodes' /\ loopNodes' \subseteq loopNodes \cup {n}
         /\ proc \subseteq proc' /\ erroredNodes' = erroredNodes
         /\ \A m \in Node \ {n} : /\ outcome'[m] = outcome[m]
                                  /\ m \in currentlyProcessing => m \in currentlyProcessing'
                                  /\ m \in loopControllersSeen' <=> m \in loopControllersSeen
         /\ UNCHANGED workVars \/ MayTry(n)
<1>1. CASE UNCHANGED workVars
  BY <1>1 DEF workVars, resultVars
<1>2. ASSUME NEW jobs, BeginNode(n, jobs), MayTry(n)
      PROVE  /\ UNCHANGED <<visitedNodes, erroredNodes, outcome>> /\ proc \subseteq proc'
             /\ currentlyProcessing' = currentlyProcessing \cup {n}
             /\ loopNodes \subseteq loopNodes' /\ loopNodes' \subseteq loopNodes \cup {n}
             /\ loopControllersSeen' = loopControllersSeen \cup (LoopController \cap {n})
  BY <1>2 DEF BeginNode, RegisterNodeInActiveLoop, resultVars
<1>3. ASSUME NEW jobs, ExcludeNode(n, jobs), MayTry(n)
      PROVE  /\ UNCHANGED <<proc, erroredNodes, loopControllersSeen>>
             /\ visitedNodes' = visitedNodes \cup {n} /\ currentlyProcessing' = currentlyProcessing
             /\ loopNodes \subseteq loopNodes' /\ loopNodes' \subseteq loopNodes \cup {n}
             /\ \A m \in Node \ {n} : outcome'[m] = outcome[m]
  <2>1. n \notin currentlyProcessing
    BY <1>3 DEF MayTry, ShouldSkipNodeProcessing
  <2>. QED BY <1>3, <2>1 DEF ExcludeNode, RegisterNodeInActiveLoop
<1>. QED BY <1>1, <1>2, <1>3 DEF Tried

LEMMA QueueWakes ==
  ASSUME TurningInv, AttachedInv, Clean, CleanInv, NEW n \in Node, QueueStep(n), NEW m \in Node
  PROVE  WakeFor(m)'
<1>1. outcome \in [Node -> Outcome] /\ WakeFor(m) /\ RaceInputs \subseteq Node
  BY GraphFacts DEF TurningInv, TypesInv, IInv, TypeInv, CleanInv
<1>2. /\ visitedNodes \subseteq visitedNodes' /\ visitedNodes' \subseteq visitedNodes \cup {n}
      /\ loopNodes' \subseteq loopNodes \cup {n} /\ proc \subseteq proc'
      /\ \A k \in Node \ {n} : /\ outcome'[k] = outcome[k]
                               /\ k \in currentlyProcessing => k \in currentlyProcessing'
                               /\ k \in loopControllersSeen' <=> k \in loopControllersSeen
  BY <1>1, TriedFacts DEF QueueStep
<1>3. queuedNodes' \subseteq queuedNodes \cup {n} /\ InputNodesTo(m) \subseteq Node
  BY GraphFacts DEF QueueStep
<1>4. Emitting(m) => Emitting(m)'
  BY <1>2 DEF Emitting, InputNodesTo
<1>5. CASE m # n
  <2>1. Woken(m) => Woken(m)'
    BY <1>4, <1>5 DEF Woken, QueueStep
  <2>2. CASE n \notin InputNodesTo(m)
    <3>1. \A i \in InputNodesTo(m) :
            (i \in visitedNodes' <=> i \in visitedNodes) /\ outcome'[i] = outcome[i]
      BY <1>2, <1>3, <2>2
    <3>. QED BY <1>1, <1>2, <1>3, <1>5, <2>1, <3>1, WakeKept
  <2>3. CASE UNCHANGED <<visitedNodes, outcome>>
    BY <1>1, <1>2, <1>3, <1>5, <2>1, <2>3, WakeKept
  <2>4. CASE n \in InputNodesTo(m) /\ ~ UNCHANGED <<visitedNodes, outcome>>
    <3>1. \A k \in OutputNodesFrom(n) : <<"try", k>> \in Pending'
      BY <2>4 DEF QueueStep, Tried, workVars, resultVars, BeginNode
    <3>. QED BY <2>4, <3>1 DEF WakeFor, Woken, InputNodesTo, OutputNodesFrom
  <2>. QED BY <2>2, <2>3, <2>4
<1>6. CASE m = n
  <2>1. CASE UNCHANGED workVars /\ Held(n)
    <3>1. UNCHANGED <<visitedNodes, outcome, loopControllersSeen, currentlyProcessing>>
      BY <2>1 DEF workVars, resultVars
    <3>2. Ready(n)' <=> Ready(n)
      BY <3>1, ReadyKept
    <3>3. Free(n)' => Free(n)
      BY <3>1, FreeBefore
    <3>4. Stands(n)' <=> Stands(n)
      BY <3>1 DEF Stands
    <3>5. ~ (Stands(n) /\ Free(n) /\ Ready(n))
      BY <2>1 DEF Held, ShouldSkipNodeProcessing, Clean, Stands, AttachedInv
    <3>. QED BY <1>6, <3>2, <3>3, <3>4, <3>5 DEF WakeFor
  <2>2. CASE MayTry(n) /\ \E jobs : BeginNode(n, jobs)
    BY <1>6, <2>2 DEF BeginNode, WakeFor, Stands
  <2>3. CASE MayTry(n) /\ n \notin LoopController /\ \E jobs : ExcludeNode(n, jobs)
    BY <1>6, <2>3 DEF ExcludeNode, WakeFor, Stands
  <2>4. CASE /\ UNCHANGED <<workVars, queuedNodes>>
             /\ <<"try", n>> \in Pending => <<"try", n>> \in Pending'
    <3>1. UNCHANGED <<visitedNodes, outcome, loopControllersSeen, currentlyProcessing, loopNodes,
                      queuedNodes>>
      BY <2>4 DEF workVars, resultVars
    <3>2. Woken(m) => Woken(m)'
      BY <1>4, <1>6, <2>4 DEF Woken
    <3>. QED BY <1>1, <3>1, <3>2, WakeKept
  <2>. QED BY <2>1, <2>2, <2>3, <2>4 DEF QueueStep, Tried
<1>. QED BY <1>5, <1>6

LEMMA QueueFetches ==
  ASSUME TurningInv, ResultInv, Clean, CleanInv, NEW n \in Node, QueueStep(n)
  PROVE  FetchInv'
<1>1. /\ outcome \in [Node -> Outcome] /\ FetchInv
      /\ UNION {visitedNodes, currentlyProcessing, loopNodes, queuedNodes} \subseteq Node
  BY DEF TurningInv, TypesInv, IInv, TypeInv, DataInv, CleanInv
<1>2. /\ visitedNodes \subseteq visitedNodes' /\ visitedNodes' \subseteq visitedNodes \cup {n}
      /\ currentlyProcessing \subseteq visitedNodes' \cup currentlyProcessing'
      /\ currentlyProcessing' \subseteq currentlyProcessing \cup {n}
      /\ loopNodes \subseteq loopNodes' /\ loopNodes' \subseteq loopNodes \cup {n}
      /\ UNCHANGED workVars \/ MayTry(n)
  BY <1>1, TriedFacts DEF QueueStep
<1>3. queuedNodes \subseteq queuedNodes' /\ queuedNodes' \subseteq queuedNodes \cup {n}
  BY DEF QueueStep
<1>4. \A m \in Node : Live(m) => Live(m)'
  BY <1>2, <1>3 DEF Live
<1>5. <<"fetch", n>> \in Pending => <<"fetch", n>> \in Pending' \/ Live(n)'
  <2>1. n \in currentlyProcessing \/ outcome[n] # "none" => Live(n)
    BY DEF ResultInv, Begun, Live
  <2>2. n \in queuedNodes' => Live(n)'
    BY DEF Live
  <2>. QED BY <1>4, <2>1, <2>2 DEF QueueStep
<1>6. \A m \in Node : Fetched(m) => Fetched(m)'
  BY <1>4, <1>5 DEF Fetched, QueueStep
<1>7. SinksInv'
  BY <1>1, <1>6 DEF FetchInv, SinksInv, OutputNodesFrom
<1>8. NeedsInv'
  <2>. SUFFICES ASSUME NEW m \in queuedNodes', NEW i \in InputNodesTo(m) PROVE Fetched(i)'
    BY DEF NeedsInv, InputNodesTo
  <2>1. i \in Node
    BY DEF InputNodesTo
  <2>2. CASE m \in queuedNodes
    BY <1>1, <1>6, <2>1, <2>2 DEF FetchInv, NeedsInv
  <2>3. CASE m \in queuedNodes' \ queuedNodes
    BY <1>3, <2>3 DEF QueueStep, Fetched
  <2>. QED BY <2>2, <2>3
<1>9. ReadsInv'
  <2>. SUFFICES ASSUME NEW m \in visitedNodes' \cup currentlyProcessing' \cup loopNodes',
                       m \notin RaceInputs \cup LoopController
                PROVE  InputNodesTo(m) \subseteq visitedNodes' \cup (loopNodes' \ RaceInputs)
    BY DEF ReadsInv, InputNodesTo
  <2>1. CASE m \in visitedNodes \cup currentlyProcessing \cup loopNodes
    BY <1>1, <1>2, <2>1 DEF FetchInv, ReadsInv
  <2>2. CASE m \notin visitedNodes \cup currentlyProcessing \cup loopNodes
    <3>1. m = n /\ MayTry(n)
      BY <1>2, <2>2 DEF workVars
    <3>2. InputNodesTo(n) \subseteq visitedNodes
      BY <3>1 DEF MayTry, WaitingForInputNode
    <3>. QED BY <1>2, <3>1, <3>2
  <2>. QED BY <2>1, <2>2
<1>10. EntryInv'
  <2>. SUFFICES ASSUME NEW l \in LoopController, Begun(l)'
                PROVE  InputNodesTo(l) \ LoopOf(l) \subseteq visitedNodes'
    BY DEF EntryInv, InputNodesTo, LoopOf, Body, InSameCycle
  <2>1. CASE Begun(l)
    BY <1>1, <1>2, <2>1 DEF FetchInv, EntryInv
  <2>2. CASE ~ Begun(l)
    <3>1. l = n /\ MayTry(n)
      BY <1>2, <2>2 DEF Begun, workVars
    <3>2. l \notin RaceInputs /\ \A i \in Node : InSameCycle(i, l) <=> i \in LoopOf(l)
      BY LoopFacts, GraphFacts
    <3>3. InputNodesTo(l) \ LoopOf(l) \subseteq visitedNodes
      BY <3>1, <3>2, GraphFacts DEF MayTry, WaitingForInputNode
    <3>. QED BY <1>2, <3>3
  <2>. QED BY <2>1, <2>2
<1>. QED BY <1>7, <1>8, <1>9, <1>10 DEF FetchInv

LEMMA QueueKeeps ==
  ASSUME TurningInv, AttachedInv, ResultInv, Clean, CleanInv, NEW n \in Node, QueueStep(n)
  PROVE  CleanInv'
<1>1. /\ outcome \in [Node -> Outcome] /\ JobsGoOn /\ NoneInterrupted
      /\ aborted = "no" /\ RaceInputs \cap visitedNodes \subseteq visitedNodes'
  BY TriedFacts DEF TurningInv, TypesInv, IInv, TypeInv, CleanInv, QueueStep, Clean
<1>2. JobsGoOn'
  <2>1. \A p \in proc : p.signal = "race" => ~ Free(p.node)'
    BY <1>1, FreeBefore DEF JobsGoOn
  <2>2. proc' = proc \/ \E jobs : BeginNode(n, jobs)
    BY DEF QueueStep, Tried, workVars, ExcludeNode
  <2>3. ASSUME NEW p \in proc', p \notin proc PROVE p.pushes /\ p.signal = "none"
    <3>1. PICK jobs : BeginNode(n, jobs)
      BY <2>2, <2>3
    <3>2. p = NewJob(n)
      BY <2>3, <3>1, BeginIsNewJob
    <3>. QED BY <1>1, <3>2 DEF NewJob
  <2>. QED BY <1>1, <2>1, <2>3 DEF JobsGoOn
<1>3. NoneInterrupted'
  <2>1. outcome' = outcome \/ outcome' = [outcome EXCEPT ![n] = "excluded"]
    BY DEF QueueStep, Tried, workVars, resultVars, BeginNode, ExcludeNode
  <2>. QED BY <1>1, <2>1, GraphFacts DEF NoneInterrupted
<1>4. FetchInv'
  BY QueueFetches
<1>5. \A m \in Node : WakeFor(m)'
  BY QueueWakes
<1>. QED BY <1>2, <1>3, <1>4, <1>5 DEF CleanInv

(* What is attached, and what has a result, in any run. *)
LEMMA NextJobAttaches ==
  ASSUME TypesInv, AttachedInv, ResultInv, NextJob
  PROVE  AttachedInv' /\ ResultInv'
<1>1. PICK n \in Node : QueueStep(n)
  BY NextJobQueue
<1>2. outcome \in [Node -> Outcome] /\ races \in [Node -> RaceData] /\ RaceInputs \subseteq Node
  BY GraphFacts DEF TypesInv, IInv, TypeInv
<1>3. /\ visitedNodes \subseteq visitedNodes'
      /\ currentlyProcessing \subseteq visitedNodes' \cup currentlyProcessing'
      /\ \A m \in Node \ {n} : outcome'[m] = outcome[m]
  BY <1>1, <1>2, TriedFacts DEF QueueStep
<1>4. ResultInv'
  <2>1. outcome' = outcome \/ n \in visitedNodes'
    BY <1>1 DEF QueueStep, Tried, workVars, resultVars, BeginNode, ExcludeNode
  <2>. QED BY <1>3, <2>1 DEF ResultInv, Begun
<1>5. ASSUME NEW m \in Node
      PROVE  /\ \A r \in races'[m].raceIds : Before(m, r)
             /\ races'[m].completed => ~ Free(m)'
  <2>1. ~ Free(m) => ~ Free(m)'
    BY <1>3, FreeBefore
  <2>2. CASE races' = races
    BY <2>1, <2>2 DEF AttachedInv
  <2>3. CASE races' # races
    <3>1. PICK k \in Node : FetchNodeData(k)
      <4>1. TypeInv /\ queue # <<>>
        BY DEF TypesInv, IInv, NextJob
      <4>2. queue[1] \in Job
        BY <4>1, FirstJob
      <4>. QED BY <2>3, <4>2 DEF NextJob, Job
    <3>. DEFINE raceIds == races[k].raceIds \cup (RaceInputs \cap {k})
    <3>2. races'[m] = IF raceIds # {} /\ m \in InputNodesTo(k)
                      THEN [raceIds |-> raceIds, completed |-> FALSE] ELSE races[m]
      BY <2>3, <3>1 DEF FetchNodeData
    <3>3. CASE m \in InputNodesTo(k)
      <4>1. \A r \in raceIds : r \in Node /\ r \in Downstream[k]
        <5>1. races[k].raceIds \subseteq RaceInputs /\ \A r \in races[k].raceIds : Before(k, r)
          BY <1>2 DEF AttachedInv, RaceData
        <5>. QED BY <1>2, <5>1, BeforeReaches, Reaches
      <4>2. \A r \in raceIds : Before(m, r)
        BY <3>3, <4>1 DEF Before, InputNodesTo, OutputNodesFrom
      <4>. HIDE DEF raceIds
      <4>3. races'[m] = [raceIds |-> raceIds, completed |-> FALSE] \/ races'[m] = races[m]
        BY <3>2
      <4>. QED BY <2>1, <4>2, <4>3 DEF AttachedInv
    <3>4. CASE m \notin InputNodesTo(k)
      BY <2>1, <3>2, <3>4 DEF AttachedInv
    <3>. QED BY <3>3, <3>4
  <2>. QED BY <2>2, <2>3
<1>6. AttachedInv'
  BY <1>5 DEF AttachedInv, Before, OutputNodesFrom
<1>. QED BY <1>4, <1>6

(***************************************************************************)
(* The end of a node, in a run that stays clean.                           *)
(***************************************************************************)
LEMMA EndAttaches ==
  ASSUME AttachedInv, ResultInv, NEW p, Ends(p), UNCHANGED races
  PROVE  AttachedInv' /\ ResultInv'
<1>1. \A n \in Node : ~ Free(n) => ~ Free(n)'
  BY FreeBefore DEF Ends
<1>2. AttachedInv'
  BY <1>1 DEF AttachedInv, Before, OutputNodesFrom
<1>3. ResultInv'
  BY DEF Ends, ResultInv, Begun
<1>. QED BY <1>2, <1>3

LEMMA CleanEnd ==
  ASSUME PassableGraph, TurningInv, AttachedInv, Clean, CleanInv,
         NEW p, NodeFinished(p) \/ NodeFailed(p), Clean'
  PROVE  /\ UNCHANGED <<queue, queuedNodes>>
         /\ p.node \in LoopController => outcome'[p.node] # "interrupted"
         /\ \E e : /\ proc' = (proc \ {p}) \cup {e}
                   /\ e.node = p.node /\ e.stage = "emitting" /\ e.pushes /\ e.signal = p.signal
<1>. DEFINE n == p.node
            e(pushes) == [p EXCEPT !.stage = "emitting", !.pushes = pushes]
<1>1. p \in proc /\ p \in Proc /\ n \in Node /\ outcome \in [Node -> Outcome]
  BY DEF NodeFinished, NodeFailed, TurningInv, TypesInv, IInv, TypeInv, SlotInv, Proc
<1>2. p.pushes = TRUE /\ p.signal # "abort" /\ (p.signal = "race" => ~ Free(n))
  BY <1>1 DEF CleanInv, JobsGoOn, Proc
<1>3. \A pushes : /\ e(pushes).node = n /\ e(pushes).stage = "emitting"
                  /\ e(pushes).pushes = pushes /\ e(pushes).signal = p.signal
  BY <1>1 DEF Proc
<1>4. UNCHANGED <<queue, queuedNodes>>
  BY DEF NodeFinished, NodeFailed
<1>5. CASE NodeFinished(p)
  <2>1. p.signal = "none"
    BY <1>2, <1>5 DEF NodeFinished, Keeps
  <2>2. proc' = (proc \ {p}) \cup {e(TRUE)}
    BY <1>5, <2>1 DEF NodeFinished, Emits
  <2>3. n \in LoopController => outcome'[n] # "interrupted"
    BY <1>1, <1>5 DEF NodeFinished, Store, OutcomesOf
  <2>. HIDE DEF e
  <2>. QED BY <1>3, <1>4, <2>2, <2>3
<1>6. CASE NodeFailed(p)
  <2>. DEFINE lost == races[n].completed \/ p.signal = "race"
              stopped == p.signal = "abort" /\ aborted = "successful"
  <2>1. lost
    <3>1. lost \/ stopped
      BY <1>6 DEF NodeFailed, NodeErrored, Clean
    <3>. QED BY <1>2, <3>1
  <2>2. n \notin LoopController
    <3>1. ~ Free(n)
      BY <1>1, <1>2, <2>1 DEF AttachedInv
    <3>. QED BY <1>1, <3>1, AfterLoopFree, Reaches DEF Free
  <2>3. proc' = (proc \ {p}) \cup {e(p.pushes /\ (lost \/ ~ stopped))}
    BY <1>6 DEF NodeFailed, NodeErrored, Emits
  <2>4. proc' = (proc \ {p}) \cup {e(TRUE)}
    <3>1. (p.pushes /\ (lost \/ ~ stopped)) = TRUE
      BY <1>2, <2>1
    <3>. HIDE DEF e, lost, stopped
    <3>. QED BY <2>3, <3>1
  <2>. HIDE DEF e
  <2>. QED BY <1>3, <1>4, <2>2, <2>4
<1>. QED BY <1>5, <1>6

LEMMA EndKeepsClean ==
  ASSUME PassableGraph, TurningInv, AttachedInv, Clean, CleanInv,
         NEW p, NodeFinished(p) \/ NodeFailed(p), Clean'
  PROVE  CleanInv'
<1>. DEFINE n == p.node
<1>1. Ends(p)
  BY EndsFacts DEF TurningInv
<1>2. PICK e : /\ proc' = (proc \ {p}) \cup {e}
               /\ e.node = n /\ e.stage = "emitting" /\ e.pushes /\ e.signal = p.signal
  BY CleanEnd
<1>3. UNCHANGED <<queue, queuedNodes>> /\ (n \in LoopController => outcome'[n] # "interrupted")
  BY CleanEnd
<1>4. /\ p \in proc /\ p.stage = "running" /\ n \in Node /\ n \in currentlyProcessing
      /\ UNCHANGED <<currentlyProcessing, loopControllersSeen, loopNodes>>
      /\ visitedNodes \subseteq visitedNodes' /\ visitedNodes' \subseteq visitedNodes \cup {n}
      /\ \A m \in Node \ {n} : outcome'[m] = outcome[m]
  BY <1>1 DEF Ends
<1>5. JobsGoOn'
  <2>1. \A q \in proc : q.signal = "race" => ~ Free(q.node)'
    BY <1>4, FreeBefore DEF CleanInv, JobsGoOn
  <2>. QED BY <1>2, <1>4, <2>1 DEF CleanInv, JobsGoOn
<1>6. NoneInterrupted'
  BY <1>3, <1>4, GraphFacts DEF CleanInv, NoneInterrupted
<1>7. FetchInv'
  <2>1. \A m \in Node : Fetched(m) => Fetched(m)'
    BY <1>3, <1>4 DEF Fetched, Live, Pending
  <2>2. queuedNodes \subseteq Node /\ FetchInv
    BY DEF TurningInv, TypesInv, DataInv, CleanInv
  <2>3. SinksInv'
    BY <2>1, <2>2 DEF FetchInv, SinksInv, OutputNodesFrom
  <2>4. NeedsInv'
    BY <1>3, <2>1, <2>2 DEF FetchInv, NeedsInv, InputNodesTo
  <2>5. ReadsInv'
    BY <1>4, <2>2 DEF FetchInv, ReadsInv, InputNodesTo
  <2>6. \A l \in LoopController : Begun(l)' => Begun(l)
    BY <1>4 DEF Begun
  <2>7. EntryInv'
    BY <1>4, <2>2, <2>6 DEF FetchInv, EntryInv, InputNodesTo, LoopOf, Body, InSameCycle
  <2>. QED BY <2>3, <2>4, <2>5, <2>7 DEF FetchInv
<1>8. ASSUME NEW m \in Node
      PROVE  WakeFor(m)'
  <2>1. CASE m = n
    BY <1>4, <2>1 DEF WakeFor, Stands
  <2>2. CASE n \in InputNodesTo(m)
    BY <1>2, <2>2 DEF WakeFor, Woken, Emitting, InputNodesTo
  <2>3. CASE m # n /\ n \notin InputNodesTo(m)
    <3>1. \A i \in InputNodesTo(m) :
            (i \in visitedNodes' <=> i \in visitedNodes) /\ outcome'[i] = outcome[i]
      BY <1>4, <2>3, GraphFacts
    <3>2. Emitting(m) => Emitting(m)'
      BY <1>2, <1>4, <2>3 DEF Emitting, InputNodesTo
    <3>3. Woken(m) => Woken(m)'
      BY <1>3, <3>2 DEF Woken, Pending
    <3>4. WakeFor(m)
      BY DEF CleanInv
    <3>. QED BY <1>3, <1>4, <2>3, <3>1, <3>3, <3>4, WakeKept
  <2>. QED BY <2>1, <2>2, <2>3
<1>. QED BY <1>5, <1>6, <1>7, <1>8 DEF CleanInv

(***************************************************************************)
(* After the last event, in a run that stays clean.                        *)
(***************************************************************************)
LEMMA EmittedFacts ==
  ASSUME ClosedLoop, TurningInv, NEW p, Emitted(p)
  PROVE  /\ p \in proc /\ p.stage = "emitting" /\ p.node \in Node /\ p.node \in currentlyProcessing
         /\ visitedNodes' = (visitedNodes \cup {p.node}) \ Cleared(p.node)
         /\ currentlyProcessing' = currentlyProcessing \ {p.node}
         /\ \A m \in Node : outcome'[m] = IF m \in Cleared(p.node) THEN "none" ELSE outcome[m]
         /\ UNCHANGED <<erroredNodes, queuedNodes, loopControllersSeen, loopNodes, aborted>>
         /\ p.node \notin Cleared(p.node) /\ Cleared(p.node) \subseteq loopNodes \ RaceInputs
         /\ RaceInputs \cap (visitedNodes \cup {p.node}) \subseteq visitedNodes'
<1>. DEFINE n == p.node
<1>1. p \in proc /\ p.stage = "emitting" /\ n \in Node /\ n \in currentlyProcessing
  BY DEF Emitted, TurningInv, TypesInv, SlotInv, Proc, JobInv
<1>2. /\ n \notin Cleared(n) /\ Cleared(n) \cap currentlyProcessing = {}
      /\ Cleared(n) # {} => n \in LoopController /\ Cleared(n) \subseteq Body(n)
  BY <1>1, ClearedFacts
<1>3. Cleared(n) \subseteq loopNodes \ RaceInputs
  BY <1>2, ClosedFacts DEF Cleared
<1>4. /\ visitedNodes' = (visitedNodes \cup {n}) \ Cleared(n)
      /\ currentlyProcessing' = currentlyProcessing \ ({n} \cup Cleared(n))
      /\ \A m \in Node : outcome'[m] = IF m \in Cleared(n) THEN "none" ELSE outcome[m]
      /\ UNCHANGED <<erroredNodes, queuedNodes, loopControllersSeen, loopNodes, aborted>>
  BY DEF Emitted, AfterLastEvent
<1>. QED BY <1>1, <1>2, <1>3, <1>4

LEMMA EmittedAttaches ==
  ASSUME ClosedLoop, TurningInv, AttachedInv, ResultInv, NEW p, Emitted(p)
  PROVE  AttachedInv' /\ ResultInv'
<1>. DEFINE n == p.node
<1>1. /\ n \in Node /\ n \in currentlyProcessing
      /\ visitedNodes' = (visitedNodes \cup {n}) \ Cleared(n)
      /\ currentlyProcessing' = currentlyProcessing \ {n}
      /\ \A m \in Node : outcome'[m] = IF m \in Cleared(n) THEN "none" ELSE outcome[m]
      /\ n \notin Cleared(n)
      /\ RaceInputs \cap (visitedNodes \cup {n}) \subseteq visitedNodes'
  BY EmittedFacts
<1>2. ResultInv'
  BY <1>1 DEF ResultInv, Begun
<1>3. races \in [Node -> RaceData] /\ RaceInputs \subseteq Node
  BY GraphFacts DEF TurningInv, TypesInv, IInv, TypeInv
<1>4. ASSUME NEW m \in Node
      PROVE  /\ \A r \in races'[m].raceIds : Before(m, r)
             /\ races'[m].completed => ~ Free(m)'
  <2>1. ~ Free(m) => ~ Free(m)'
    BY <1>1, FreeBefore
  <2>2. CASE races' = races
    BY <2>1, <2>2 DEF AttachedInv
  <2>3. CASE races' # races
    <3>. DEFINE over == IF n \in RaceInputs THEN Winners(n) ELSE {}
    <3>1. races'[m] = IF m \in over THEN [races[m] EXCEPT !.completed = TRUE] ELSE races[m]
      BY <2>3 DEF Emitted, AfterLastEvent, HandleCompletedRace
    <3>2. races'[m].raceIds = races[m].raceIds
      BY <1>3, <3>1 DEF RaceData
    <3>3. m \in over => n \in RaceInputs /\ Before(m, n)
      BY DEF Winners, InRace, AttachedInv
    <3>4. m \in over => ~ Free(m)'
      BY <1>1, <3>3 DEF Free, Before, OutputNodesFrom, Downstream
    <3>5. m \notin over => races'[m] = races[m]
      BY <3>1
    <3>. QED BY <2>1, <3>2, <3>4, <3>5 DEF AttachedInv
  <2>. QED BY <2>2, <2>3
<1>5. AttachedInv'
  BY <1>4 DEF AttachedInv, Before, OutputNodesFrom
<1>. QED BY <1>2, <1>5

LEMMA EmittedPushes ==
  ASSUME TurningInv, AttachedInv, Clean, CleanInv, NEW p, Emitted(p)
  PROVE  /\ Pending \subseteq Pending'
         /\ \A m \in OutputNodesFrom(p.node) : <<"try", m>> \in Pending'
         /\ HandleCompletedRace(p)
<1>1. p \in proc /\ p.stage = "emitting" /\ p.node \in Node /\ p.pushes = TRUE
  BY DEF Emitted, TurningInv, TypesInv, SlotInv, Proc, CleanInv, JobsGoOn
<1>2. ~ PostProcessThrows(p.node)
  BY <1>1 DEF PostProcessThrows, TurningInv, OutcomeInv, Clean
<1>3. /\ HandleCompletedRace(p)
      /\ queue' = queue \o Jobs("try", OutputNodesFrom(p.node))
  BY <1>1, <1>2 DEF Emitted, AfterLastEvent
<1>4. queue \in Seq(Job) /\ OutputNodesFrom(p.node) \subseteq Node
  BY <1>1, GraphFacts DEF TurningInv, TypesInv, IInv, TypeInv
<1>. QED BY <1>3, <1>4, JobsAdded DEF Pending

(* The jobs that are left: some are cancelled by the race that has been run. *)
LEMMA EmittedJobs ==
  ASSUME ClosedLoop, TurningInv, AttachedInv, Clean, CleanInv, NEW p, Emitted(p)
  PROVE  /\ JobsGoOn'
         /\ \A q \in proc \ {p} : q.stage = "emitting" => q \in proc'
<1>. DEFINE over == OverBy(p.node)
<1>1. PICK S \in SUBSET {q \in proc : q.node \in over /\ q.stage = "running"} :
        proc' = Signalled(proc \ {p}, S, "race")
  BY EmittedPushes, CompletedRace
<1>2. /\ p.node \in Node /\ proc \subseteq Proc
      /\ RaceInputs \cap (visitedNodes \cup {p.node}) \subseteq visitedNodes'
  BY EmittedFacts DEF TurningInv, TypesInv, SlotInv
<1>3. \A q \in proc : q.node \in over => ~ Free(q.node)'
  <2>. SUFFICES ASSUME NEW q \in proc, q.node \in over PROVE ~ Free(q.node)'
    OBVIOUS
  <2>1. p.node \in RaceInputs /\ Before(q.node, p.node)
    BY DEF OverBy, InRace, AttachedInv
  <2>. QED BY <1>2, <2>1 DEF Free, Before, OutputNodesFrom, Downstream
<1>4. \A q \in proc : q.signal = "race" => ~ Free(q.node)'
  BY <1>2, FreeBefore DEF CleanInv, JobsGoOn
<1>5. JobsGoOn'
  <2>. SUFFICES ASSUME NEW s \in proc'
                PROVE  s.pushes /\ s.signal # "abort" /\ (s.signal = "race" => ~ Free(s.node)')
    BY DEF JobsGoOn
  <2>. HIDE DEF over
  <2>1. PICK q \in proc : \/ s = q
                          \/ q.node \in over /\ s = [q EXCEPT !.signal = "race"]
    BY <1>1 DEF Signalled
  <2>2. q.pushes /\ q.signal # "abort" /\ q \in Proc
    BY <1>2 DEF CleanInv, JobsGoOn
  <2>3. CASE s = q
    BY <1>4, <2>2, <2>3
  <2>4. CASE q.node \in over /\ s = [q EXCEPT !.signal = "race"]
    BY <1>3, <2>2, <2>4 DEF Proc
  <2>. QED BY <2>1, <2>3, <2>4
<1>6. \A q \in proc \ {p} : q.stage = "emitting" => q \in proc'
  BY <1>1 DEF Signalled
<1>. QED BY <1>5, <1>6

(* After its clearing, the loop waits for what the controller has woken. *)
LEMMA ClearedWaits ==
  ASSUME ClosedLoop, PassableGraph, TurningInv, NEW p, Emitted(p), p.node \in LoopController,
         outcome[p.node] = "looping", NEW m \in LoopOf(p.node), m \notin OutputNodesFrom(p.node)
  PROVE  ~ Ready(m)'
<1>. DEFINE l == p.node
<1>1. LoopInv(l) /\ LoopInv(l)'
  BY LoopEmits DEF TurningInv
<1>2. l \in Node /\ m \in Node /\ l \notin Body(l) /\ Body(l) \subseteq Node
      /\ Body(l) \cap LoopController = {} /\ l \notin RaceInputs /\ Body(l) \cap RaceInputs = {}
  BY LoopFacts, ClosedFacts, GraphFacts DEF LoopOf
<1>3. Body(l) \cap visitedNodes' = {}
  <2>1. \A b \in Body(l) : Begun(b) => b \in loopNodes
    BY <1>1 DEF LoopInv, BodyInv
  <2>2. Cleared(l) = loopNodes /\ visitedNodes' = (visitedNodes \cup {l}) \ Cleared(l)
    BY EmittedFacts DEF Cleared
  <2>. QED BY <1>2, <2>1, <2>2 DEF Begun
<1>4. CASE m \in Body(l)
  <2>1. PICK i \in LoopOf(l) : i \in InputNodesTo(m)
    BY <1>4, HasLoopInput
  <2>2. i \in Body(l)
    BY <1>2, <2>1 DEF LoopOf, InputNodesTo, OutputNodesFrom
  <2>. QED BY <1>2, <1>3, <1>4, <2>1, <2>2 DEF Ready, WaitingForInputNode, InputNodesTo
<1>5. CASE m = l
  <2>1. PICK i \in InputNodesTo(l) : InSameCycle(i, l)
    BY DEF PassableGraph, InputsInCycle
  <2>2. i \in Body(l)
    BY <1>2, <1>5, <2>1, LoopFacts DEF LoopOf, InputNodesTo, OutputNodesFrom
  <2>3. l \in loopControllersSeen'
    BY <1>1, EmittedFacts DEF LoopInv, TurnInv, Begun
  <2>. QED BY <1>2, <1>3, <1>5, <2>1, <2>2, <2>3 DEF Ready, WaitingForInputNode, InputNodesTo
<1>. QED BY <1>4, <1>5 DEF LoopOf

LEMMA EmittedWakes ==
  ASSUME ClosedLoop, PassableGraph, TurningInv, AttachedInv, Clean, CleanInv,
         NEW p, Emitted(p), NEW m \in Node
  PROVE  WakeFor(m)'
<1>. DEFINE n == p.node
<1>1. /\ p \in proc /\ n \in Node
      /\ visitedNodes' = (visitedNodes \cup {n}) \ Cleared(n)
      /\ currentlyProcessing' = currentlyProcessing \ {n}
      /\ \A k \in Node : outcome'[k] = IF k \in Cleared(n) THEN "none" ELSE outcome[k]
      /\ UNCHANGED <<queuedNodes, loopControllersSeen, loopNodes>>
      /\ n \notin Cleared(n)
      /\ RaceInputs \cap visitedNodes \subseteq visitedNodes'
  BY EmittedFacts
<1>2. WakeFor(m) /\ InputNodesTo(m) \subseteq Node
  BY GraphFacts DEF CleanInv
<1>3. CASE m \in OutputNodesFrom(n)
  BY <1>3, EmittedPushes DEF WakeFor, Woken
<1>4. CASE /\ n \in LoopController /\ outcome[n] = "looping"
           /\ m \in LoopOf(n) /\ m \notin OutputNodesFrom(n)
  BY <1>4, ClearedWaits DEF WakeFor
<1>5. CASE /\ m \notin OutputNodesFrom(n)
           /\ ~ (n \in LoopController /\ outcome[n] = "looping" /\ m \in LoopOf(n))
  <2>1. n \notin InputNodesTo(m)
    BY <1>1, <1>5 DEF InputNodesTo, OutputNodesFrom
  <2>2. Cleared(n) # {} => /\ n \in LoopController /\ outcome[n] = "looping"
                           /\ Cleared(n) \subseteq Body(n)
    <3>1. Cleared(n) # {} => n \in LoopController /\ Cleared(n) \subseteq Body(n)
      BY EmittedFacts, ClearedFacts
    <3>. QED BY <3>1 DEF Cleared, CleanInv, NoneInterrupted
  <2>3. Cleared(n) \cap (InputNodesTo(m) \cup {m}) = {}
    <3>1. CASE Cleared(n) = {}
      BY <3>1
    <3>2. CASE Cleared(n) # {}
      BY <1>5, <2>2, <3>2, ClosedFacts DEF LoopOf, InputNodesTo
    <3>. QED BY <3>1, <3>2
  <2>4. \A i \in InputNodesTo(m) :
          (i \in visitedNodes' <=> i \in visitedNodes) /\ outcome'[i] = outcome[i]
    BY <1>1, <1>2, <2>1, <2>3
  <2>5. Emitting(m) => Emitting(m)'
    BY <1>1, <2>1, EmittedJobs DEF Emitting, InputNodesTo
  <2>6. Woken(m) => Woken(m)'
    BY <2>5, EmittedPushes DEF Woken
  <2>7. CASE m # n
    BY <1>1, <1>2, <2>3, <2>4, <2>6, <2>7, WakeKept
  <2>8. CASE m = n
    <3>1. n \in visitedNodes' /\ outcome'[n] = outcome[n]
      BY <1>1
    <3>2. ~ (n \in LoopController /\ outcome[n] = "looping")
      BY <1>5, <2>8 DEF LoopOf
    <3>. QED BY <2>8, <3>1, <3>2 DEF WakeFor, Stands
  <2>. QED BY <2>7, <2>8
<1>. QED BY <1>3, <1>4, <1>5

LEMMA EmittedKeepsClean ==
  ASSUME ClosedLoop, PassableGraph, TurningInv, AttachedInv, Clean, CleanInv, NEW p, Emitted(p)
  PROVE  CleanInv'
<1>. DEFINE n == p.node
<1>1. /\ n \in Node /\ n \in currentlyProcessing
      /\ visitedNodes' = (visitedNodes \cup {n}) \ Cleared(n)
      /\ currentlyProcessing' = currentlyProcessing \ {n}
      /\ \A k \in Node : outcome'[k] = IF k \in Cleared(n) THEN "none" ELSE outcome[k]
      /\ UNCHANGED <<queuedNodes, loopNodes>>
      /\ n \notin Cleared(n) /\ Cleared(n) \subseteq loopNodes \ RaceInputs
  BY EmittedFacts
<1>2. FetchInv /\ queuedNodes \subseteq Node
  BY DEF CleanInv, TurningInv, TypesInv, DataInv
<1>3. JobsGoOn' /\ \A m \in Node : WakeFor(m)'
  BY EmittedJobs, EmittedWakes
<1>4. NoneInterrupted'
  BY <1>1, GraphFacts DEF CleanInv, NoneInterrupted
<1>5. \A m \in Node : Fetched(m) => Fetched(m)'
  BY <1>1, EmittedPushes DEF Fetched, Live
<1>6. SinksInv'
  BY <1>2, <1>5 DEF FetchInv, SinksInv, OutputNodesFrom
<1>7. NeedsInv'
  BY <1>1, <1>2, <1>5 DEF FetchInv, NeedsInv, InputNodesTo
<1>8. ReadsInv'
  BY <1>1, <1>2 DEF FetchInv, ReadsInv, InputNodesTo
<1>9. EntryInv'
  <2>. SUFFICES ASSUME NEW l \in LoopController, Begun(l)'
                PROVE  InputNodesTo(l) \ LoopOf(l) \subseteq visitedNodes'
    BY DEF EntryInv, InputNodesTo, LoopOf, Body, InSameCycle
  <2>1. Begun(l)
    BY <1>1 DEF Begun
  <2>2. Cleared(n) \subseteq LoopOf(l)
    BY <1>1, ClearedFacts, OneController DEF LoopOf
  <2>. QED BY <1>1, <1>2, <2>1, <2>2 DEF FetchInv, EntryInv
<1>. QED BY <1>3, <1>4, <1>6, <1>7, <1>8, <1>9 DEF CleanInv, FetchInv

LEMMA GoingStutters ==
  ASSUME AttachedInv, ResultInv, UNCHANGED <<races, outcome, visitedNodes, currentlyProcessing>>
  PROVE  AttachedInv' /\ ResultInv'
BY DEF AttachedInv, ResultInv, Before, Free, OutputNodesFrom, Downstream, Begun

LEMMA InitGoes == Init => GoingInv
<1>. SUFFICES ASSUME Init PROVE GoingInv
  OBVIOUS
<1>1. TurningInv
  BY InitTurns
<1>2. AttachedInv /\ ResultInv
  BY DEF Init, NoRace, AttachedInv, ResultInv
<1>3. FetchInv
  <2>1. SinksInv
    <3>. DEFINE S == {n \in Node : OutputNodesFrom(n) = {}}
    <3>1. queue = Jobs("fetch", S) /\ S \in SUBSET Node
      BY DEF Init
    <3>. HIDE DEF S
    <3>2. \A n \in S : <<"fetch", n>> \in Pending
      BY <3>1, ElementsOfJobs DEF Pending
    <3>. QED BY <3>2 DEF S, SinksInv, Fetched
  <2>2. NeedsInv /\ ReadsInv /\ EntryInv
    BY DEF Init, NeedsInv, ReadsInv, EntryInv, Begun
  <2>. QED BY <2>1, <2>2 DEF FetchInv
<1>4. JobsGoOn /\ NoneInterrupted /\ \A n \in Node : WakeFor(n)
  BY GraphFacts DEF Init, JobsGoOn, NoneInterrupted, WakeFor, Touched
<1>. QED BY <1>1, <1>2, <1>3, <1>4 DEF GoingInv, CleanInv

LEMMA StepGoes ==
  ASSUME ClosedLoop, PassableGraph, GoingInv, [Next]_vars, [PromptStep]_vars
  PROVE  GoingInv'
<1>1. TurningInv /\ TurningInv' /\ TypesInv /\ AttachedInv /\ ResultInv
  BY StepTurns DEF GoingInv, TurningInv
<1>. SUFFICES AttachedInv' /\ ResultInv' /\ (Clean' => CleanInv')
  BY <1>1 DEF GoingInv
<1>2. CASE NextJob
  <2>1. AttachedInv' /\ ResultInv'
    BY <1>1, <1>2, NextJobAttaches
  <2>2. PICK n \in Node : QueueStep(n)
    BY <1>1, <1>2, NextJobQueue
  <2>3. Clean' => Clean
    BY <1>1, <2>2, TriedFacts DEF QueueStep, Clean, TypesInv, IInv, TypeInv
  <2>. QED BY <1>1, <2>1, <2>2, <2>3, QueueKeeps DEF GoingInv
<1>3. ASSUME NEW p, NodeFinished(p) \/ NodeFailed(p)
      PROVE  AttachedInv' /\ ResultInv' /\ (Clean' => CleanInv')
  <2>1. Ends(p) /\ UNCHANGED <<races, aborted>>
    BY <1>1, <1>3, EndsFacts DEF TurningInv, NodeFinished, NodeFailed, attachedNodeData
  <2>2. Clean' => Clean
    BY <2>1 DEF Ends, Clean
  <2>. QED BY <1>1, <1>3, <2>1, <2>2, EndAttaches, EndKeepsClean DEF GoingInv
<1>4. ASSUME NEW p, Emitted(p)
      PROVE  AttachedInv' /\ ResultInv' /\ (Clean' => CleanInv')
  <2>1. Clean' => Clean
    BY <1>4 DEF Emitted, AfterLastEvent, Clean
  <2>. QED BY <1>1, <1>4, <2>1, EmittedAttaches, EmittedKeepsClean DEF GoingInv
<1>5. CASE Abort
  <2>1. UNCHANGED <<races, outcome, visitedNodes, currentlyProcessing>> /\ ~ Clean'
    BY <1>5 DEF Abort, setVars, resultVars, attachedNodeData, Clean
  <2>. QED BY <1>1, <2>1, GoingStutters
<1>6. CASE UNCHANGED vars
  <2>1. /\ UNCHANGED <<races, outcome, visitedNodes, currentlyProcessing>>
        /\ UNCHANGED <<queue, proc, queuedNodes, erroredNodes, loopControllersSeen, loopNodes, aborted>>
    BY <1>6 DEF vars, setVars, resultVars, attachedNodeData
  <2>2. AttachedInv' /\ ResultInv'
    BY <1>1, <2>1, GoingStutters
  <2>3. CleanInv => CleanInv'
    <3>1. \A n \in Node : WakeFor(n) => WakeFor(n)'
      <4>1. \A n \in Node : Woken(n) => Woken(n)'
        BY <2>1 DEF Woken, Emitting, Pending, InputNodesTo
      <4>. QED BY <2>1, <4>1, WakeKept
    <3>2. JobsGoOn => JobsGoOn'
      BY <2>1 DEF JobsGoOn, Free, Before, OutputNodesFrom, Downstream
    <3>3. FetchInv => FetchInv'
      BY <2>1 DEF FetchInv, SinksInv, NeedsInv, ReadsInv, EntryInv, Fetched, Live, Pending, Begun,
                  InputNodesTo, OutputNodesFrom, LoopOf, Body, InSameCycle, Downstream
    <3>4. NoneInterrupted => NoneInterrupted'
      BY <2>1 DEF NoneInterrupted
    <3>. QED BY <3>1, <3>2, <3>3, <3>4 DEF CleanInv
  <2>4. Clean' => Clean
    BY <2>1 DEF Clean
  <2>. QED BY <2>2, <2>3, <2>4 DEF GoingInv
<1>. QED BY <1>2, <1>3, <1>4, <1>5, <1>6 DEF Next, SchedulerStep

-----------------------------------------------------------------------------
(***************************************************************************)
(* A clean run that has stopped.  Whoever could run would be woken, so all *)
(* that is left waits: in circles, and of those there is none.             *)
(***************************************************************************)
Stopped == GoingInv /\ Clean /\ Idle

LEMMA StoppedFacts ==
  ASSUME Stopped
  PROVE  /\ TurningInv /\ CleanInv /\ ResultInv
         /\ currentlyProcessing = {} /\ erroredNodes = {}
         /\ \A n \in Node : ~ Woken(n)
         /\ \A n \in Node : Fetched(n) <=> Live(n)
<1>1. TurningInv /\ CleanInv /\ ResultInv /\ proc = {} /\ queue = <<>> /\ erroredNodes = {}
  BY DEF Stopped, GoingInv, Idle, Clean
<1>2. currentlyProcessing = {}
  BY <1>1 DEF TurningInv, JobInv
<1>3. Pending = {}
  BY <1>1 DEF Pending, ToSet
<1>. QED BY <1>1, <1>2, <1>3 DEF Woken, Emitting, Fetched

(* What is left is wanted, has not run, and is not held up. *)
Left == {n \in Node : Live(n) /\ n \notin visitedNodes /\ Free(n)}

LEMMA LeftWaits ==
  ASSUME PassableGraph, Stopped, NEW n \in Left
  PROVE  \/ HasInput(n, "notBroken")
         \/ \E i \in InputNodesTo(n) \cap Left :
              ~ (n \in LoopController \ loopControllersSeen /\ InSameCycle(i, n))
<1>1. /\ n \in Node /\ Live(n) /\ n \notin visitedNodes /\ Free(n) /\ n \notin currentlyProcessing
      /\ ~ Woken(n) /\ WakeFor(n) /\ FetchInv
      /\ loopNodes \cap LoopController = {} /\ InputNodesTo(n) \subseteq Node
  BY StoppedFacts, GraphFacts DEF Left, CleanInv, TurningInv, TypesInv, DataInv
<1>2. Touched(n) /\ Stands(n)
  BY <1>1 DEF Touched, Stands, Live
<1>3. ~ Ready(n)
  BY <1>1, <1>2 DEF WakeFor
<1>4. ASSUME WaitingForInputNode(n)
      PROVE  \E i \in InputNodesTo(n) \cap Left :
               ~ (n \in LoopController \ loopControllersSeen /\ InSameCycle(i, n))
  <2>1. PICK i \in InputNodesTo(n) \ visitedNodes :
               ~ (n \in LoopController \ loopControllersSeen /\ InSameCycle(i, n))
    BY <1>4 DEF WaitingForInputNode
  <2>2. Live(i)
    <3>1. CASE n \in queuedNodes
      BY <1>1, <2>1, <3>1, StoppedFacts DEF FetchInv, NeedsInv
    <3>2. CASE n \in loopNodes \ RaceInputs
      <4>1. i \in loopNodes \ RaceInputs
        BY <1>1, <2>1, <3>2 DEF FetchInv, ReadsInv
      <4>. QED BY <4>1 DEF Live
    <3>. QED BY <1>1, <3>1, <3>2 DEF Live
  <2>3. Free(i)
    BY <1>1, <2>1, HeldUp
  <2>. QED BY <1>1, <2>1, <2>2, <2>3 DEF Left
<1>. QED BY <1>3, <1>4 DEF Ready

(* Circles of them pass the controller. *)
LEMMA LeftCircles ==
  ASSUME PassableGraph, NEW U \in SUBSET Node, U \cap LoopController = {},
         \A n \in U : InputNodesTo(n) \cap U # {}
  PROVE  U = {}
BY DEF PassableGraph

LEMMA NotBroken ==
  ASSUME NEW n \in Node, HasInput(n, "notBroken")
  PROVE  \E l \in LoopController : <<l, n>> \in BreakPort /\ outcome[l] \in {"looping", "interrupted"}
<1>1. PICK l \in InputNodesTo(n) : <<l, n>> \in BreakPort /\ outcome[l] \in {"looping", "interrupted"}
  BY DEF HasInput, PortValue
<1>2. l \in LoopController
  BY <1>1, LoopAssumption
<1>. QED BY <1>1, <1>2

LEMMA LoopNotBroken ==
  ASSUME ClosedLoop, NEW l \in LoopController, NEW n \in LoopOf(l)
  PROVE  ~ HasInput(n, "notBroken")
<1>. SUFFICES ASSUME HasInput(n, "notBroken") PROVE FALSE
  OBVIOUS
<1>1. n \in Node /\ l \in LoopOf(l)
  BY LoopFacts DEF LoopOf
<1>2. <<l, n>> \in BreakPort
  BY <1>1, NotBroken, OneController
<1>3. <<l, n>> \in Connection
  BY <1>2, LoopAssumption
<1>. QED BY <1>1, <1>2, <1>3, ClosedFacts

(* The controller is wanted, for an end of the graph is that it leads to. *)
LEMMA ControllerLive ==
  ASSUME PassableGraph, Stopped, NEW l \in LoopController
  PROVE  Live(l)
<1>. SUFFICES ASSUME ~ Live(l) PROVE FALSE
  OBVIOUS
<1>. DEFINE S == {n \in Downstream[l] : ~ Live(n)}
<1>1. /\ l \in Node /\ l \in Downstream[l] /\ Downstream[l] \subseteq Node
      /\ Downstream[l] \cap RaceInputs = {} /\ FetchInv /\ currentlyProcessing = {}
  BY LoopFacts, Reaches, StoppedFacts DEF PassableGraph, CleanInv
<1>2. ASSUME NEW a \in Node, NEW b \in Node, a \in S, <<a, b>> \in Connection
      PROVE  b \in S
  <2>1. b \in Downstream[l] /\ b \notin RaceInputs /\ a \in InputNodesTo(b) /\ ~ Live(a)
    BY <1>1, <1>2, Reaches DEF InputNodesTo
  <2>2. b \notin queuedNodes
    BY <1>1, <2>1, StoppedFacts DEF FetchInv, NeedsInv
  <2>3. b \in LoopController => ~ Live(b)
    BY OneController
  <2>4. b \notin LoopController => b \notin visitedNodes \cup loopNodes
    BY <1>1, <2>1 DEF FetchInv, ReadsInv, Live
  <2>. QED BY <1>1, <2>1, <2>2, <2>3, <2>4 DEF Live
<1>3. l \in S /\ S \in SUBSET Node
  BY <1>1
<1>. HIDE DEF S
<1>4. Downstream[l] \subseteq S
  BY <1>1, <1>2, <1>3, ReachesLeast
<1>5. PICK n \in Downstream[l] : OutputNodesFrom(n) = {}
  BY DEF PassableGraph
<1>6. Live(n)
  BY <1>1, <1>5, StoppedFacts DEF FetchInv, SinksInv
<1>. QED BY <1>4, <1>6 DEF S

(* It has run: till then its body waits for it, and the rest of the graph for
   none of its nodes. *)
LEMMA ControllerRan ==
  ASSUME PassableGraph, Stopped, NEW l \in LoopController
  PROVE  l \in visitedNodes
<1>. SUFFICES ASSUME l \notin visitedNodes PROVE FALSE
  OBVIOUS
<1>1. /\ l \in Node /\ l \in Downstream[l] /\ l \notin RaceInputs
      /\ TurningInv /\ LoopInv(l) /\ ResultInv /\ currentlyProcessing = {}
  BY LoopFacts, Reaches, GraphFacts, StoppedFacts DEF TurningInv
<1>2. l \notin loopControllersSeen /\ outcome[l] = "none"
  BY <1>1 DEF LoopInv, TurnInv, ResultInv, Begun
<1>3. \A n \in Node : ~ HasInput(n, "notBroken")
  BY <1>2, NotBroken, OneController
<1>. DEFINE U == {n \in Left : n \notin Downstream[l]}
<1>4. \A n \in Left : n # l => \E i \in InputNodesTo(n) : i \in Left
  BY <1>3, LeftWaits DEF Left
<1>5. \A n \in U : InputNodesTo(n) \cap U # {}
  BY <1>1, <1>4, OutsideInput DEF Left
<1>6. U \in SUBSET Node /\ U \cap LoopController = {}
  BY <1>1, OneController DEF Left
<1>. HIDE DEF U
<1>7. U = {}
  BY <1>5, <1>6, LeftCircles
<1>8. l \in Left
  BY <1>1, ControllerLive, AfterLoopFree DEF Left, Free
<1>9. PICK i \in InputNodesTo(l) \cap Left : ~ InSameCycle(i, l)
  BY <1>2, <1>3, <1>8, LeftWaits DEF Left
<1>10. i \in Node /\ l \in Downstream[i]
  BY <1>1, <1>9, Reaches DEF InputNodesTo
<1>11. i \notin Downstream[l]
  BY <1>9, <1>10 DEF InSameCycle
<1>. QED BY <1>7, <1>9, <1>11 DEF U

(* Its body, if it has to, has run all the way. *)
LEMMA BodyRan ==
  ASSUME ClosedLoop, PassableGraph, Stopped, NEW l \in LoopController
  PROVE  Body(l) \subseteq visitedNodes
<1>. DEFINE V == Body(l) \ visitedNodes
<1>1. /\ l \in visitedNodes /\ l \in Node /\ Body(l) \subseteq Node /\ Body(l) \subseteq Downstream[l]
      /\ Body(l) \cap LoopController = {} /\ Body(l) \cap RaceInputs = {}
      /\ currentlyProcessing = {} /\ CleanInv
  BY ControllerRan, LoopFacts, ClosedFacts, StoppedFacts
<1>2. ASSUME NEW m \in V
      PROVE  InputNodesTo(m) \cap V # {}
  <2>1. PICK k \in LoopOf(l) : k \in InputNodesTo(m)
    BY HasLoopInput
  <2>2. CASE k \notin visitedNodes
    BY <1>1, <2>1, <2>2 DEF LoopOf
  <2>3. CASE k \in visitedNodes
    <3>1. Touched(m) /\ Stands(m) /\ Free(m)
      BY <1>1, <2>1, <2>3, AfterLoopFree DEF Touched, Stands, Free
    <3>2. ~ Ready(m)
      BY <1>1, <3>1, StoppedFacts DEF CleanInv, WakeFor
    <3>3. ~ HasInput(m, "notBroken")
      BY LoopNotBroken DEF LoopOf
    <3>4. PICK i \in InputNodesTo(m) : i \notin visitedNodes
      BY <3>2, <3>3 DEF Ready, WaitingForInputNode
    <3>5. i \in LoopOf(l)
      BY <1>1, <3>4 DEF PassableGraph, CleanInv, FetchInv, EntryInv, Begun
    <3>. QED BY <1>1, <3>4, <3>5 DEF LoopOf
  <2>. QED BY <2>2, <2>3
<1>3. V \in SUBSET Node /\ V \cap LoopController = {}
  BY <1>1
<1>. HIDE DEF V
<1>4. V = {}
  BY <1>2, <1>3, LeftCircles
<1>. QED BY <1>4 DEF V

LEMMA ControllerBroke ==
  ASSUME ClosedLoop, PassableGraph, Stopped, NEW l \in LoopController
  PROVE  outcome[l] \in {"broken", "excluded"}
<1>1. /\ l \in visitedNodes /\ Body(l) \subseteq visitedNodes /\ l \in Node /\ l \in Downstream[l]
      /\ l \notin RaceInputs /\ currentlyProcessing = {} /\ erroredNodes = {}
      /\ TurningInv /\ CleanInv
      /\ \A n \in Node : InSameCycle(n, l) <=> n \in LoopOf(l)
  BY ControllerRan, BodyRan, LoopFacts, Reaches, GraphFacts, StoppedFacts
<1>2. outcome[l] \notin {"none", "value", "interrupted"} /\ outcome[l] \in Outcome
  BY <1>1 DEF TurningInv, TypesInv, IInv, TypeInv, OutcomeInv, LoopInv, TurnInv, CleanInv, NoneInterrupted
<1>3. outcome[l] # "looping"
  <2>. SUFFICES ASSUME outcome[l] = "looping" PROVE FALSE
    OBVIOUS
  <2>1. InputNodesTo(l) \subseteq visitedNodes
    BY <1>1 DEF CleanInv, FetchInv, EntryInv, Begun, LoopOf
  <2>2. InputNodesTo(l) # {}
    BY DEF PassableGraph, InputsInCycle
  <2>3. ~ HasInput(l, "notBroken")
    BY LoopNotBroken DEF LoopOf
  <2>4. Ready(l)
    BY <2>1, <2>3 DEF Ready, WaitingForInputNode
  <2>5. Touched(l) /\ Stands(l) /\ Free(l)
    BY <1>1, <2>1, <2>2, AfterLoopFree DEF Touched, Stands, Free
  <2>. QED BY <1>1, <2>4, <2>5, StoppedFacts DEF CleanInv, WakeFor
<1>. QED BY <1>2, <1>3 DEF Outcome

LEMMA StoppedGoesOn ==
  ASSUME ClosedLoop, PassableGraph, Stopped
  PROVE  /\ \A l \in LoopController : outcome[l] \in {"broken", "excluded"}
         /\ \A n \in Node : OutputNodesFrom(n) = {} => n \in visitedNodes
<1>1. \A l \in LoopController : l \in visitedNodes /\ outcome[l] \in {"broken", "excluded"}
  BY ControllerRan, ControllerBroke
<1>2. \A n \in Node : ~ HasInput(n, "notBroken")
  BY <1>1, NotBroken
<1>3. \A n \in Left : InputNodesTo(n) \cap Left # {}
  BY <1>2, LeftWaits DEF Left
<1>4. Left \in SUBSET Node /\ Left \cap LoopController = {}
  BY <1>1 DEF Left
<1>5. Left = {}
  BY <1>3, <1>4, LeftCircles
<1>6. ASSUME NEW n \in Node, OutputNodesFrom(n) = {}
      PROVE  n \in visitedNodes
  <2>1. Live(n)
    BY <1>6, StoppedFacts DEF CleanInv, FetchInv, SinksInv
  <2>2. Free(n)
    BY <1>6 DEF Free, Before
  <2>. QED BY <1>5, <2>1, <2>2 DEF Left
<1>. QED BY <1>1, <1>6

(* No run stops in mid-loop that neither failed nor was aborted, for every
   closed and passable graph and listeners that keep up with the loop: when
   the queue is empty and nothing is being processed, the controller has broken
   or was excluded and every end of the graph was processed.  Of the queue of
   processGraph, the conditions of processNodeIfAllInputsAvailable, and the
   nodes that processNode pushes. *)
THEOREM LoopsGoOn ==
  ASSUME ClosedLoop, PassableGraph
  PROVE  Spec /\ PromptLoop => []LoopGoesOn
<1>1. GoingInv /\ [Next]_vars /\ [PromptStep]_vars => GoingInv'
  BY StepGoes
<1>2. PromptLoop => [][PromptStep]_vars
  BY DEF PromptLoop, PromptStep
<1>3. GoingInv => LoopGoesOn
  BY StoppedGoesOn DEF LoopGoesOn, Stopped, Clean
<1>. QED BY <1>1, <1>2, <1>3, InitGoes, PTL DEF Spec
=============================================================================
