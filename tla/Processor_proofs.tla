-------------------------- MODULE Processor_proofs --------------------------
(***************************************************************************)
(* Proofs about what is around the scheduling of a graph: the runs of one  *)
(* processor, the tree of the processors of its subgraphs, and the         *)
(* debugger server that runs graphs for its clients.                       *)
(***************************************************************************)
EXTENDS ProcessorRuns, Subprocessors, DebuggerServer, TLAPS, FiniteSetTheorems, SequenceTheorems

(***************************************************************************)
(* Runs in turn.  A host that never calls run() while a run is finishing   *)
(* gets what the processor and the debugger promise, however many calls it *)
(* makes.                                                                  *)
(***************************************************************************)
Unheard == Busy \cup {"finishing"}   \* before the finish event

TypeInv ==
  /\ stage \in [Call -> Calling]
  /\ manages \in [Call -> BOOLEAN]
  /\ {running, finishEmitted, hasPreloadedData, attached, remoteDebuggerAttached}
       \subseteq BOOLEAN
  /\ visitedNodes \in {"nothing", "preloaded", "run"}
  /\ started \subseteq Call
  /\ finishes \in Nat

(* At most one call is at its run, and running says how far it is. *)
OneCall == \A c, d \in Call : stage[c] \in Stage /\ stage[d] \in Stage => c = d

CallOK(c) ==
  /\ stage[c] \in Stage => c \in started /\ manages[c] /\ remoteDebuggerAttached
  /\ stage[c] \in Busy => running
  /\ stage[c] \in Unheard => ~ finishEmitted /\ attached
  /\ stage[c] \in {"ending", "closing"} => finishEmitted /\ ~ attached
  /\ stage[c] = "none" => c \notin started

RunInv ==
  /\ \A c \in Call : CallOK(c)
  /\ running => \E c \in Call : stage[c] \in Busy
  /\ (\A c \in Call : stage[c] \notin Stage) =>
       (attached <=> started = {}) /\ (remoteDebuggerAttached <=> started = {})

(* The runs that have had their finish event. *)
Heard == started \ In(Unheard)
FinishInv == finishes = Cardinality(Heard)

IInv == TypeInv /\ OneCall /\ RunInv /\ FinishInv

LEMMA InitInv == Init => IInv
<1>. SUFFICES ASSUME Init PROVE IInv
  OBVIOUS
<1>1. TypeInv /\ OneCall /\ RunInv
  BY DEF Init, TypeInv, Calling, OneCall, RunInv, CallOK, Stage, Busy, Unheard
<1>2. Heard = {} /\ finishes = 0
  BY DEF Init, Heard
<1>3. FinishInv
  BY <1>2, FS_EmptySet DEF FinishInv
<1>. QED BY <1>1, <1>3 DEF IInv

(* A finish event more, and a run more that has had it. *)
LEMMA HeardMore ==
  ASSUME IInv, NEW c \in Call, c \in started, stage[c] \in Unheard,
         Heard' = Heard \cup {c}, finishes' = finishes + 1
  PROVE  FinishInv'
<1>1. IsFiniteSet(Heard) /\ c \notin Heard
  BY CallAssumption, FS_Subset DEF IInv, TypeInv, Heard, In
<1>2. Cardinality(Heard \cup {c}) = Cardinality(Heard) + 1
  BY <1>1, FS_AddElement
<1>. QED BY <1>2 DEF IInv, FinishInv

LEMMA CallStepInv ==
  ASSUME StartsFrom \subseteq Busy, IInv, NEW c \in Call, CallStep(c)
  PROVE  IInv'
<1>. USE DEF IInv
<1>1. CASE Refused(c)
  <2>1. /\ running /\ stage[c] = "none" /\ stage' = [stage EXCEPT ![c] = "settled"]
        /\ UNCHANGED <<manages, running, finishEmitted, hasPreloadedData, visitedNodes,
                       started, finishes, attached, remoteDebuggerAttached>>
    BY <1>1 DEF Refused, HostMayCall, Moves, DetachRemoteDebugger, ManagesDebugger, TypeInv
  <2>2. TypeInv' /\ OneCall'
    BY <2>1 DEF TypeInv, Calling, OneCall, Stage
  <2>3. RunInv'
    BY <2>1 DEF TypeInv, RunInv, CallOK, Stage, Busy, Unheard
  <2>4. Heard' = Heard
    BY <2>1 DEF Heard, In, TypeInv, Unheard, Busy
  <2>. QED BY <2>1, <2>2, <2>3, <2>4 DEF FinishInv
<1>2. CASE InitializeGraphRun(c)
  <2>1. /\ ~ running /\ stage[c] = "none" /\ stage' = [stage EXCEPT ![c] = "starting"]
        /\ manages' = [manages EXCEPT ![c] = TRUE]
        /\ running' = TRUE /\ finishEmitted' = FALSE /\ started' = started \cup {c}
        /\ visitedNodes' \in {"nothing", "preloaded", "run"}
        /\ attached' = (attached \/ ~ remoteDebuggerAttached)
        /\ remoteDebuggerAttached' = TRUE
        /\ UNCHANGED <<hasPreloadedData, finishes>>
    BY <1>2
    DEF InitializeGraphRun, HostMayCall, Moves, AttachRemoteDebugger, ManagesDebugger, TypeInv
  <2>2. \A d \in Call : stage[d] \notin Stage
    BY <1>2, <2>1 DEF InitializeGraphRun, HostMayCall, RunInv, CallOK
  <2>3. TypeInv' /\ OneCall'
    BY <2>1, <2>2 DEF TypeInv, Calling, OneCall, Stage
  <2>4. attached'
    BY <2>1, <2>2 DEF RunInv
  <2>5. RunInv'
    BY <2>1, <2>2, <2>4 DEF TypeInv, RunInv, CallOK, Stage, Busy, Unheard
  <2>6. Heard' = Heard
    BY <2>1 DEF Heard, In, TypeInv, Unheard, Busy, RunInv, CallOK
  <2>. QED BY <2>1, <2>3, <2>5, <2>6 DEF FinishInv
<1>3. CASE StartEmitted(c) /\ stage'[c] = "processing"
  <2>1. /\ stage[c] = "starting" /\ stage' = [stage EXCEPT ![c] = "processing"]
        /\ UNCHANGED <<manages, running, finishEmitted, hasPreloadedData, visitedNodes,
                       started, finishes, attached, remoteDebuggerAttached>>
    BY <1>3 DEF StartEmitted, Moves, CloseRun, debuggerVars, TypeInv
  <2>2. TypeInv' /\ OneCall'
    BY <2>1 DEF TypeInv, Calling, OneCall, Stage
  <2>3. RunInv'
    BY <2>1 DEF TypeInv, RunInv, CallOK, Stage, Busy, Unheard
  <2>4. Heard' = Heard
    BY <2>1 DEF Heard, In, TypeInv, Unheard, Busy
  <2>. QED BY <2>1, <2>2, <2>3, <2>4 DEF FinishInv
<1>4. CASE /\ stage[c] \in {"starting", "erroring"} /\ CloseRun(c)
           /\ UNCHANGED visitedNodes
  <2>1. c \in started /\ ~ finishEmitted /\ stage[c] \in Unheard /\ stage[c] \in Stage
    BY <1>4 DEF RunInv, CallOK, Stage, Busy, Unheard
  <2>2. /\ stage' = [stage EXCEPT ![c] = "closing"] /\ running' = FALSE
        /\ finishEmitted' = TRUE /\ finishes' = finishes + 1 /\ attached' = FALSE
        /\ UNCHANGED <<manages, hasPreloadedData, visitedNodes, started,
                       remoteDebuggerAttached>>
    BY <1>4, <2>1 DEF CloseRun, EmitFinishIfNeeded, DetachOnFinish, Moves, TypeInv
  <2>3. TypeInv' /\ OneCall'
    <3>1. TypeInv'
      <4>1. finishes' \in Nat
        BY <2>2 DEF TypeInv
      <4>2. stage' \in [Call -> Calling] /\ manages' \in [Call -> BOOLEAN]
        BY <2>2 DEF TypeInv, Calling, Stage
      <4>3. {running', finishEmitted', hasPreloadedData', attached',
             remoteDebuggerAttached'} \subseteq BOOLEAN
        BY <2>2 DEF TypeInv
      <4>. QED BY <2>2, <4>1, <4>2, <4>3 DEF TypeInv
    <3>2. OneCall'
      BY <2>1, <2>2 DEF TypeInv, OneCall, Stage
    <3>. QED BY <3>1, <3>2
  <2>4. RunInv'
    BY <2>1, <2>2 DEF TypeInv, OneCall, RunInv, CallOK, Stage, Busy, Unheard
  <2>5. Heard' = Heard \cup {c}
    BY <2>1, <2>2 DEF Heard, In, TypeInv, Unheard, Busy
  <2>. QED BY <2>1, <2>2, <2>3, <2>4, <2>5, HeardMore
<1>5. CASE Processed(c)
  <2>1. /\ stage[c] = "processing"
        /\ \/ stage' = [stage EXCEPT ![c] = "erroring"] /\ running' = running
           \/ stage' = [stage EXCEPT ![c] = "finishing"] /\ running' = FALSE
        /\ visitedNodes' = "run"
        /\ UNCHANGED <<manages, finishEmitted, hasPreloadedData, started, finishes,
                       attached, remoteDebuggerAttached>>
    BY <1>5 DEF Processed, Moves, debuggerVars
  <2>2. TypeInv' /\ OneCall'
    BY <2>1 DEF TypeInv, Calling, OneCall, Stage
  <2>3. RunInv'
    BY <2>1 DEF TypeInv, OneCall, RunInv, CallOK, Stage, Busy, Unheard
  <2>4. Heard' = Heard
    BY <2>1 DEF Heard, In, TypeInv, Unheard, Busy
  <2>. QED BY <2>1, <2>2, <2>3, <2>4 DEF FinishInv
<1>6. CASE DoneEmitted(c)
  <2>1. c \in started /\ ~ finishEmitted /\ ~ running /\ stage[c] = "finishing"
    BY <1>6 DEF DoneEmitted, OneCall, RunInv, CallOK, Stage, Busy, Unheard
  <2>2. /\ stage' = [stage EXCEPT ![c] = "ending"] /\ running' = running
        /\ finishEmitted' = TRUE /\ finishes' = finishes + 1 /\ attached' = FALSE
        /\ UNCHANGED <<manages, hasPreloadedData, visitedNodes, started,
                       remoteDebuggerAttached>>
    BY <1>6, <2>1 DEF DoneEmitted, EmitFinishIfNeeded, DetachOnFinish, Moves, TypeInv
  <2>3. TypeInv' /\ OneCall'
    <3>1. TypeInv'
      <4>1. finishes' \in Nat
        BY <2>2 DEF TypeInv
      <4>2. stage' \in [Call -> Calling] /\ manages' \in [Call -> BOOLEAN]
        BY <2>2 DEF TypeInv, Calling, Stage
      <4>3. {running', finishEmitted', hasPreloadedData', attached',
             remoteDebuggerAttached'} \subseteq BOOLEAN
        BY <2>2 DEF TypeInv
      <4>. QED BY <2>2, <4>1, <4>2, <4>3 DEF TypeInv
    <3>2. OneCall'
      BY <2>1, <2>2 DEF TypeInv, OneCall, Stage
    <3>. QED BY <3>1, <3>2
  <2>4. RunInv'
    BY <2>1, <2>2 DEF TypeInv, OneCall, RunInv, CallOK, Stage, Busy, Unheard
  <2>5. Heard' = Heard \cup {c} /\ stage[c] \in Unheard
    BY <2>1, <2>2 DEF Heard, In, TypeInv, Unheard, Busy
  <2>. QED BY <2>1, <2>2, <2>3, <2>4, <2>5, HeardMore
<1>7. CASE FinishEmitted(c)
  <2>1. finishEmitted /\ ~ attached /\ ~ running /\ stage[c] = "ending"
    BY <1>7 DEF FinishEmitted, OneCall, RunInv, CallOK, Stage, Busy, Unheard
  <2>2. /\ stage' = [stage EXCEPT ![c] = "closing"] /\ running' = FALSE
        /\ finishEmitted' = TRUE /\ finishes' = finishes /\ attached' = FALSE
        /\ UNCHANGED <<manages, hasPreloadedData, visitedNodes, started,
                       remoteDebuggerAttached>>
    BY <1>7, <2>1 DEF FinishEmitted, CloseRun, EmitFinishIfNeeded, DetachOnFinish, Moves, TypeInv
  <2>3. TypeInv' /\ OneCall'
    BY <2>1, <2>2 DEF TypeInv, Calling, OneCall, Stage
  <2>4. RunInv'
    BY <2>1, <2>2 DEF TypeInv, OneCall, RunInv, CallOK, Stage, Busy, Unheard
  <2>5. Heard' = Heard
    BY <2>1, <2>2 DEF Heard, In, TypeInv, Unheard, Busy
  <2>. QED BY <2>2, <2>3, <2>4, <2>5 DEF FinishInv
<1>8. CASE RunSettled(c)
  <2>1. /\ c \in started /\ manages[c] /\ remoteDebuggerAttached /\ ~ attached
        /\ ~ running /\ stage[c] = "closing"
    BY <1>8 DEF RunSettled, OneCall, RunInv, CallOK, Stage, Busy, Unheard
  <2>2. /\ stage' = [stage EXCEPT ![c] = "settled"]
        /\ attached' = FALSE /\ remoteDebuggerAttached' = FALSE
        /\ UNCHANGED <<manages, running, finishEmitted, hasPreloadedData, visitedNodes,
                       started, finishes>>
    BY <1>8, <2>1 DEF RunSettled, DetachRemoteDebugger, Moves
  <2>3. TypeInv' /\ OneCall'
    BY <2>1, <2>2 DEF TypeInv, Calling, OneCall, Stage
  <2>4. RunInv'
    BY <2>1, <2>2 DEF TypeInv, OneCall, RunInv, CallOK, Stage, Busy, Unheard
  <2>5. Heard' = Heard
    BY <2>1, <2>2 DEF Heard, In, TypeInv, Unheard, Busy
  <2>. QED BY <2>2, <2>3, <2>4, <2>5 DEF FinishInv
<1>. QED
  BY <1>1, <1>2, <1>3, <1>4, <1>5, <1>6, <1>7, <1>8
  DEF CallStep, StartEmitted, ErrorEmitted, Moves, TypeInv

LEMMA StepInv ==
  ASSUME StartsFrom \subseteq Busy, IInv, [Next]_vars
  PROVE  IInv'
<1>1. CASE \E c \in Call : CallStep(c)
  BY <1>1, CallStepInv
<1>2. CASE PreloadNodeData
  <2>1. /\ UNCHANGED <<stage, manages, running, finishEmitted, attached,
                       remoteDebuggerAttached, started, finishes>>
        /\ hasPreloadedData' = TRUE
        /\ visitedNodes' \in {"nothing", "preloaded", "run"}
    BY <1>2 DEF PreloadNodeData, debuggerVars, IInv, TypeInv
  <2>. QED
    BY <2>1 DEF IInv, TypeInv, OneCall, RunInv, CallOK, FinishInv, Heard, In
<1>3. CASE UNCHANGED vars
  BY <1>3 DEF vars, debuggerVars, IInv, TypeInv, OneCall, RunInv, CallOK, FinishInv, Heard, In
<1>. QED BY <1>1, <1>2, <1>3 DEF Next, HostIsDone

LEMMA Invariance == ASSUME StartsFrom \subseteq Busy PROVE Spec => []IInv
<1>1. IInv /\ [Next]_vars => IInv'
  BY StepInv
<1>. QED BY <1>1, InitInv, PTL DEF Spec

-----------------------------------------------------------------------------
(* The finish events never outnumber the calls. *)
LEMMA FinishBound == IInv => TypeOK
<1>. SUFFICES ASSUME IInv PROVE TypeOK
  OBVIOUS
<1>1. Heard \subseteq Call
  BY DEF IInv, TypeInv, Heard
<1>2. Cardinality(Heard) <= Cardinality(Call) /\ Cardinality(Call) \in Nat
  BY <1>1, CallAssumption, FS_Subset, FS_CardinalityType
<1>. QED BY <1>2 DEF IInv, TypeInv, FinishInv, TypeOK

(* Every variable keeps its type, and no call has two finish events: what
   processGraph and run() store, in every run of the host. *)
THEOREM RunsTypeCorrect == ASSUME StartsFrom \subseteq Busy PROVE Spec => []TypeOK
BY Invariance, FinishBound, PTL

LEMMA OneIsGuarded == IInv => RunIsGuarded
<1>. SUFFICES ASSUME IInv PROVE RunIsGuarded
  OBVIOUS
<1>1. \A c, d \in In(Busy) : c = d
  BY DEF IInv, OneCall, In, Stage, Busy
<1>2. In(Busy) = {} \/ \E c \in Call : In(Busy) = {c}
  <2>1. CASE In(Busy) # {}
    <3>1. PICK c \in In(Busy) : TRUE
      BY <2>1
    <3>. QED BY <1>1, <3>1 DEF In
  <2>. QED BY <2>1
<1>3. OneRunAtATime
  <2>1. Cardinality(In(Busy)) \in {0, 1}
    BY <1>2, FS_EmptySet, FS_Singleton
  <2>. QED BY <2>1 DEF OneRunAtATime
<1>4. running <=> In(Busy) # {}
  BY DEF IInv, TypeInv, RunInv, CallOK, In
<1>. QED BY <1>3, <1>4 DEF RunIsGuarded

(* A host that calls run() only before a run finishes, or when it has settled,
   has one run at a time, and running tells it so: the guard of processGraph
   refuses every call it should, and none that it should not. *)
THEOREM RunsAreGuarded == ASSUME StartsFrom \subseteq Busy PROVE Spec => []RunIsGuarded
BY Invariance, OneIsGuarded, PTL

LEMMA HeardOnce == IInv => FinishPerRun
<1>. SUFFICES ASSUME IInv PROVE FinishPerRun
  OBVIOUS
<1>1. IsFiniteSet(started \ In(Busy)) /\ Heard \subseteq started \ In(Busy)
  BY CallAssumption, FS_Subset DEF IInv, TypeInv, Heard, In, Unheard
<1>2. finishes <= Cardinality(started \ In(Busy))
  BY <1>1, FS_Subset DEF IInv, FinishInv
<1>3. In(Stage) = {} => Heard = started
  BY DEF Heard, In, Unheard, Stage, Busy
<1>. QED BY <1>2, <1>3 DEF FinishPerRun, IInv, FinishInv

(* Every such run has exactly one finish event, after all its other events, be
   it emitted by finalizeGraphRun or by the finally block of processGraph. *)
THEOREM OneFinishPerRun == ASSUME StartsFrom \subseteq Busy PROVE Spec => []FinishPerRun
BY Invariance, HeardOnce, PTL

LEMMA Watched == IInv => DebuggerSeesRun
BY DEF IInv, TypeInv, RunInv, CallOK, DebuggerSeesRun, NoEventIsLost, In, Unheard,
       Stage, Busy

(* The debugger is attached for the whole of every such run and for no longer,
   although both the server and run() detach it. *)
THEOREM DebuggerSeesEveryRun ==
  ASSUME StartsFrom \subseteq Busy PROVE Spec => []DebuggerSeesRun
BY Invariance, Watched, PTL

(***************************************************************************)
(* The tree of processors.                                                 *)
(***************************************************************************)
Event == {"pause", "resume", "graphEnd", "globalSet", "globalSet:id", "userEvent"}
Control == {"pause", "resume"}
EmissionRecord == [at : Processor, event : Event, of : Processor, to : SUBSET Processor]

Pending == ToSet(emissions)

Child == Processor \ {Root}

(* A subgraph is created by one that was, once, and has no state before. *)
CreationInv ==
  /\ doing[Root] # "none"
  /\ \A c \in Child :
       /\ doing[c] # "none" => doing[ParentOf[c]] # "none"
       /\ doing[c] = "none" => c \notin wired /\ ~ paused[c]

(* The own last event of a graph is out only once it is over or aborted. *)
EndInv ==
  \A e \in Pending : e.event = "graphEnd" =>
    /\ e.at \in Line[e.of]
    /\ e.of = e.at => doing[e.at] = "over" \/ aborted[e.at]

WiredInv == \A c \in Child : Live(c) /\ ~ aborted[c] => c \in wired

TreeInv ==
  /\ TreeTypeOK
  /\ emissions \in Seq(EmissionRecord)
  /\ CreationInv /\ EndInv /\ WiredInv
  /\ AbortReachesAll

Signals == {e \in Pending : e.event \in Control}

(* The events of pause and resume that are out say the same, which is what
   those that emitted them have done, to processors there are. *)
WaveInv ==
  /\ \A e, f \in Signals : e.event = f.event
  /\ \A e \in Signals :
       /\ paused[e.at] <=> e.event = "pause"
       /\ e.to \subseteq Children(e.at) \cup {e.at}
       /\ \A p \in e.to \cup {e.at} : doing[p] # "none"

(* What is created in a pause is on, and hears nothing of it. *)
BornInv ==
  \A c \in bornPaused :
    /\ paused[ParentOf[c]] /\ ~ paused[c]
    /\ \A e \in Signals : e.at # c /\ c \notin e.to

(* A subgraph that is not as its parent is will hear of it, or is one of those. *)
EdgeInv ==
  \A c \in wired :
    paused[c] # paused[ParentOf[c]] =>
      \/ c \in bornPaused
      \/ \E e \in Signals : e.at = ParentOf[c] /\ c \in e.to

PauseInv == WaveInv /\ BornInv /\ EdgeInv

DoingStates == {"none", "gate", "working", "child", "input", "event", "global", "over"}

Kinds == {"child", "abort", "set", "ask", "global"}

LEMMA TreeFacts ==
  /\ IsFiniteSet(Processor) /\ Root \in Processor
  /\ \A c \in Child : c \in Processor /\ c # Root /\ ParentOf[c] \in Processor
  /\ \A p \in Processor : Children(p) = {c \in Child : ParentOf[c] = p}
  /\ \A p \in Processor : Root \in Line[p]
BY SubprocessorAssumption, TreeAssumption DEF Child, Children

LEMMA TreeTypes ==
  TreeTypeOK <=>
    /\ doing \in [Processor -> DoingStates]
    /\ todo \in [Processor -> SUBSET Kinds]
    /\ aborted \in [Processor -> BOOLEAN] /\ paused \in [Processor -> BOOLEAN]
    /\ wired \subseteq Child /\ bornPaused \subseteq Child
    /\ late \subseteq Processor /\ due \subseteq Processor
    /\ \A c \in Child : Live(c) => doing[ParentOf[c]] = "child"
BY DEF TreeTypeOK, DoingStates, Kinds, Child

(* A processor and those above it. *)
LEMMA LineClosed ==
  ASSUME NEW p \in Processor
  PROVE  /\ p \in Line[p] /\ Line[p] \subseteq Processor
         /\ \A c \in Line[p] \ {Root} : ParentOf[c] \in Line[p]
         /\ \A S \in SUBSET Processor :
              p \in S /\ (\A c \in S \ {Root} : ParentOf[c] \in S) => Line[p] \subseteq S
<1>1. Line[p] = {q \in Processor : \A S \in SUBSET Processor :
                   p \in S /\ (\A c \in S \ {Root} : ParentOf[c] \in S) => q \in S}
  BY DEF Line
<1>2. ASSUME NEW c \in Line[p] \ {Root} PROVE ParentOf[c] \in Line[p]
  <2>1. c \in Child
    BY <1>1 DEF Child
  <2>. QED BY <1>1, <2>1, TreeFacts
<1>. QED BY <1>1, <1>2

LEMMA LineLeast ==
  ASSUME NEW p \in Processor, NEW S \in SUBSET Processor, p \in S,
         \A c \in S \ {Root} : ParentOf[c] \in S
  PROVE  Line[p] \subseteq S
BY LineClosed

LEMMA LineOfChild ==
  ASSUME NEW c \in Child
  PROVE  Line[c] = {c} \cup Line[ParentOf[c]] /\ c \notin Line[ParentOf[c]]
<1>1. c \in Processor /\ c # Root /\ ParentOf[c] \in Processor
  BY TreeFacts
<1>2. Line[c] \subseteq {c} \cup Line[ParentOf[c]]
  <2>. DEFINE S == {c} \cup Line[ParentOf[c]]
  <2>1. S \in SUBSET Processor /\ c \in S
    BY <1>1, LineClosed
  <2>2. \A d \in S \ {Root} : ParentOf[d] \in S
    BY <1>1, LineClosed
  <2>3. Line[c] \subseteq S
    <3>. HIDE DEF S
    <3>. QED BY <1>1, <2>1, <2>2, LineLeast
  <2>. QED BY <2>3
<1>3. Line[ParentOf[c]] \subseteq Line[c]
  <2>1. Line[c] \in SUBSET Processor /\ ParentOf[c] \in Line[c]
        /\ \A d \in Line[c] \ {Root} : ParentOf[d] \in Line[c]
    BY <1>1, LineClosed
  <2>. QED BY <1>1, <2>1, LineClosed
<1>4. ASSUME c \in Line[ParentOf[c]] PROVE FALSE
  <2>. DEFINE K == {x \in Line[c] : c \in Line[x]}
  <2>1. K \in SUBSET Processor /\ c \in K
    BY <1>1, LineClosed
  <2>2. ASSUME NEW x \in K \ {Root} PROVE ParentOf[x] \in K
    <3>1. x \in Child /\ x \in Processor /\ c \in Line[x] /\ ParentOf[x] \in Line[c]
      BY <1>1, <2>1, <2>2, LineClosed DEF Child
    <3>2. ParentOf[x] \in Processor
      BY <3>1, TreeFacts
    <3>3. c \in Line[ParentOf[x]]
      <4>1. CASE x = c
        BY <1>4, <4>1
      <4>2. CASE x # c
        <5>. DEFINE S == {x} \cup Line[ParentOf[x]]
        <5>1. S \in SUBSET Processor /\ x \in S
          BY <3>1, <3>2, LineClosed
        <5>2. \A d \in S \ {Root} : ParentOf[d] \in S
          BY <3>1, <3>2, LineClosed
        <5>3. Line[x] \subseteq S
          <6>. HIDE DEF S
          <6>. QED BY <3>1, <5>1, <5>2, LineLeast
        <5>. QED BY <3>1, <4>2, <5>3
      <4>. QED BY <4>1, <4>2
    <3>. QED BY <3>1, <3>3
  <2>3. Root \in K
    <3>1. Line[c] \subseteq K
      <4>. HIDE DEF K
      <4>. QED BY <1>1, <2>1, <2>2, LineLeast
    <3>. QED BY <1>1, <3>1, TreeFacts
  <2>4. Line[Root] \subseteq {Root}
    <3>1. {Root} \in SUBSET Processor /\ Root \in {Root}
          /\ \A d \in {Root} \ {Root} : ParentOf[d] \in {Root}
      BY TreeFacts
    <3>. QED BY <3>1, TreeFacts, LineClosed
  <2>. QED BY <1>1, <2>3, <2>4
<1>. QED BY <1>2, <1>3, <1>4, <1>1, LineClosed

(***************************************************************************)
(* The events that are out.                                                *)
(***************************************************************************)
LEMMA ElementsOfConcat ==
  ASSUME NEW S, NEW s \in Seq(S), NEW t \in Seq(S)
  PROVE  s \o t \in Seq(S) /\ ToSet(s \o t) = ToSet(s) \cup ToSet(t)
<1>1. /\ s \o t \in Seq(S) /\ Len(s \o t) = Len(s) + Len(t)
      /\ \A i \in 1 .. Len(s) + Len(t) :
           (s \o t)[i] = IF i <= Len(s) THEN s[i] ELSE t[i - Len(s)]
  BY ConcatProperties
<1>2. DOMAIN s = 1 .. Len(s) /\ DOMAIN t = 1 .. Len(t) /\ Len(s) \in Nat /\ Len(t) \in Nat
  OBVIOUS
<1>. DEFINE u == s \o t
<1>3. u \in Seq(S) /\ DOMAIN u = 1 .. Len(s) + Len(t)
  BY <1>1, <1>2
<1>4. /\ \A i \in DOMAIN s : i \in DOMAIN u /\ u[i] = s[i]
      /\ \A i \in DOMAIN t : i + Len(s) \in DOMAIN u /\ u[i + Len(s)] = t[i]
      /\ \A i \in DOMAIN u : (i \in DOMAIN s /\ u[i] = s[i])
                             \/ (i - Len(s) \in DOMAIN t /\ u[i] = t[i - Len(s)])
  BY <1>1, <1>2, <1>3
<1>. HIDE DEF u
<1>5. ToSet(u) = ToSet(s) \cup ToSet(t)
  BY <1>4 DEF ToSet
<1>. QED BY <1>3, <1>5 DEF u

LEMMA ElementsOfTail ==
  ASSUME NEW S, NEW s \in Seq(S), s # <<>>
  PROVE  /\ Head(s) \in S /\ Head(s) \in ToSet(s) /\ Tail(s) \in Seq(S)
         /\ ToSet(s) = {Head(s)} \cup ToSet(Tail(s))
<1>1. /\ Head(s) \in S /\ Tail(s) \in Seq(S) /\ Len(Tail(s)) = Len(s) - 1 /\ Head(s) = s[1]
      /\ \A i \in 1 .. Len(Tail(s)) : Tail(s)[i] = s[i + 1]
      /\ Len(s) \in Nat \ {0}
  BY HeadTailProperties, EmptySeq
<1>. DEFINE t == Tail(s)
<1>2. DOMAIN s = 1 .. Len(s) /\ DOMAIN t = 1 .. Len(s) - 1
  BY <1>1
<1>3. 1 \in DOMAIN s
  BY <1>1, <1>2
<1>4. \A i \in DOMAIN t : i + 1 \in DOMAIN s /\ t[i] = s[i + 1]
  BY <1>1, <1>2
<1>5. \A i \in DOMAIN s : i = 1 \/ (i - 1 \in DOMAIN t /\ t[i - 1] = s[i])
  BY <1>1, <1>2
<1>. HIDE DEF t
<1>6. ToSet(s) = {s[1]} \cup ToSet(t)
  BY <1>3, <1>4, <1>5 DEF ToSet
<1>. QED BY <1>1, <1>3, <1>6 DEF t, ToSet

LEMMA SetAsSeq ==
  ASSUME NEW S, IsFiniteSet(S)
  PROVE  SetToSeq(S) \in Seq(S) /\ ToSet(SetToSeq(S)) = S
<1>. DEFINE n == Cardinality(S)
<1>1. n \in Nat /\ ExistsBijection(1 .. n, S)
  BY FS_CardinalityType
<1>2. \E f \in [1 .. n -> S] : IsInjective(f)
  BY <1>1 DEF ExistsBijection, Bijection, Injection, IsInjective
<1>3. PICK f \in [1 .. n -> S] : f = SetToSeq(S) /\ IsInjective(f)
  BY <1>2 DEF SetToSeq
<1>4. f \in Injection(1 .. n, S)
  BY <1>3 DEF Injection, IsInjective
<1>5. IsFiniteSet(1 .. n) /\ Cardinality(1 .. n) = n
  BY <1>1, FS_Interval
<1>6. f \in Surjection(1 .. n, S)
  BY <1>4, <1>5, FS_Injection
<1>7. \A x \in S : \E i \in 1 .. n : f[i] = x
  BY <1>6 DEF Surjection
<1>8. f \in Seq(S)
  BY <1>1, <1>3
<1>9. ToSet(f) = S
  BY <1>3, <1>7 DEF ToSet
<1>. QED BY <1>3, <1>8, <1>9

LEMMA PendingTyped ==
  ASSUME TreeInv
  PROVE  \A e \in Pending :
           /\ e \in EmissionRecord
           /\ e.at \in Processor /\ e.of \in Processor
           /\ e.event \in Event /\ e.to \subseteq Processor
<1>1. emissions \in Seq(EmissionRecord)
  BY DEF TreeInv
<1>2. \A i \in DOMAIN emissions : emissions[i] \in EmissionRecord
  BY <1>1
<1>3. \A e \in EmissionRecord : /\ e.at \in Processor /\ e.of \in Processor
                              /\ e.event \in Event /\ e.to \subseteq Processor
  BY DEF EmissionRecord
<1>. QED BY <1>2, <1>3 DEF Pending, ToSet

LEMMA EmissionTyped ==
  ASSUME TreeTypeOK, NEW p \in Processor, NEW k \in Event, NEW of \in Processor
  PROVE  /\ Emission(p, k, of) \in EmissionRecord
         /\ Emission(p, k, of).at = p /\ Emission(p, k, of).event = k
         /\ Emission(p, k, of).of = of
         /\ k \in Control => Emission(p, k, of).to = wired \cap (Children(p) \cup {p})
<1>. DEFINE T == CASE k \in {"pause", "resume"} -> wired \cap (Children(p) \cup {p})
                   [] k = "globalSet:id" -> {q \in Processor : doing[q] = "global"}
                   [] k = "userEvent" -> {q \in {p} : doing[q] = "event"}
                   [] OTHER -> {}
<1>1. T \in SUBSET Processor
  BY TreeTypes DEF Child
<1>2. k \in Control => T = wired \cap (Children(p) \cup {p})
  BY DEF Control
<1>3. Emission(p, k, of) = [at |-> p, event |-> k, of |-> of, to |-> T]
  BY DEF Emission
<1>. HIDE DEF T
<1>. QED BY <1>1, <1>2, <1>3 DEF EmissionRecord

LEMMA EmissionsTyped ==
  ASSUME TreeTypeOK, NEW procs \in Seq(Processor), NEW k \in Event
  PROVE  /\ Emissions(procs, k) \in Seq(EmissionRecord)
         /\ ToSet(Emissions(procs, k)) = {Emission(p, k, p) : p \in ToSet(procs)}
<1>1. DOMAIN procs = 1 .. Len(procs) /\ Len(procs) \in Nat /\ \A i \in DOMAIN procs : procs[i] \in Processor
  OBVIOUS
<1>2. \A i \in DOMAIN procs : Emission(procs[i], k, procs[i]) \in EmissionRecord
  BY <1>1, EmissionTyped
<1>3. Emissions(procs, k) = [i \in DOMAIN procs |-> Emission(procs[i], k, procs[i])]
  BY DEF Emissions
<1>4. Emissions(procs, k) \in Seq(EmissionRecord)
  BY <1>1, <1>2, <1>3
<1>5. ToSet(Emissions(procs, k)) = {Emission(procs[i], k, procs[i]) : i \in DOMAIN procs}
  BY <1>3 DEF ToSet
<1>. QED BY <1>4, <1>5 DEF ToSet

LEMMA OrderTyped ==
  ASSUME NEW S \in SUBSET Processor, NEW order \in InnermostFirst(S)
  PROVE  /\ order \in Seq(Processor) /\ ToSet(order) = S
         /\ Reverse(order) \in Seq(Processor)
<1>1. IsFiniteSet(S)
  BY TreeFacts, FS_Subset
<1>2. Cardinality(S) \in Nat
  BY <1>1, FS_CardinalityType
<1>. DEFINE n == Cardinality(S)
<1>3. order \in SetToSeqs(S)
  BY DEF InnermostFirst
<1>4. order \in [1 .. n -> S] /\ \A i, j \in 1 .. n : i # j => order[i] # order[j]
  BY <1>3 DEF SetToSeqs
<1>5. order \in Injection(1 .. n, S)
  BY <1>4 DEF Injection, IsInjective
<1>6. IsFiniteSet(1 .. n) /\ Cardinality(1 .. n) = n
  BY <1>2, FS_Interval
<1>7. order \in Surjection(1 .. n, S)
  BY <1>1, <1>5, <1>6, FS_Injection
<1>8. ToSet(order) = S
  BY <1>4, <1>7 DEF ToSet, Surjection
<1>9. order \in Seq(Processor) /\ Len(order) = n
  BY <1>2, <1>4
<1>10. Reverse(order) \in Seq(Processor)
  <2>1. \A i \in 1 .. n : (n - i) + 1 \in 1 .. n
    BY <1>2
  <2>2. Reverse(order) = [i \in 1 .. n |-> order[(n - i) + 1]]
    BY <1>9 DEF Reverse
  <2>3. \A i \in 1 .. n : order[(n - i) + 1] \in Processor
    BY <1>4, <2>1
  <2>. QED BY <1>2, <2>2, <2>3
<1>. QED BY <1>8, <1>9, <1>10

LEMMA ElementsOfAppend ==
  ASSUME NEW S, NEW s \in Seq(S), NEW x \in S
  PROVE  Append(s, x) \in Seq(S) /\ ToSet(Append(s, x)) = ToSet(s) \cup {x}
<1>1. /\ Append(s, x) \in Seq(S) /\ Len(Append(s, x)) = Len(s) + 1
      /\ \A i \in 1 .. Len(s) : Append(s, x)[i] = s[i]
      /\ Append(s, x)[Len(s) + 1] = x /\ Len(s) \in Nat
  BY AppendProperties
<1>. DEFINE t == Append(s, x)
<1>2. DOMAIN s = 1 .. Len(s) /\ DOMAIN t = 1 .. Len(s) + 1
  BY <1>1
<1>3. /\ \A i \in DOMAIN s : i \in DOMAIN t /\ t[i] = s[i]
      /\ Len(s) + 1 \in DOMAIN t /\ t[Len(s) + 1] = x
      /\ \A i \in DOMAIN t : i \in DOMAIN s \/ i = Len(s) + 1
  BY <1>1, <1>2
<1>. HIDE DEF t
<1>4. ToSet(t) = ToSet(s) \cup {x}
  BY <1>3 DEF ToSet
<1>. QED BY <1>1, <1>4 DEF t

(***************************************************************************)
(* A step that aborts nobody and creates nobody.                           *)
(***************************************************************************)
Ordinary ==
  /\ aborted' = aborted
  /\ doing' \in [Processor -> DoingStates] /\ todo' \in [Processor -> SUBSET Kinds]
  /\ paused' \in [Processor -> BOOLEAN]
  /\ \A p \in Processor :
       /\ ~ Live(p) => doing'[p] = doing[p]
       /\ Live(p) => doing'[p] # "none"
       /\ doing[p] = "none" => paused'[p] = paused[p]
       /\ doing[p] = "child" /\ doing'[p] # "child" => \A c \in Children(p) : ~ Live(c)
  /\ wired' \subseteq wired /\ \A c \in wired \ wired' : ~ Live(c) \/ aborted[c]
  /\ bornPaused' \subseteq bornPaused
  /\ late \subseteq late' /\ late' \subseteq Processor /\ due' \subseteq Processor
  /\ emissions' \in Seq(EmissionRecord)
  /\ \A e \in Pending' \ Pending : e.event = "graphEnd" =>
       /\ e.at \in Line[e.of]
       /\ e.of = e.at => doing'[e.at] = "over" \/ aborted[e.at]

(* A step that leaves the pause as it is. *)
Quiet ==
  /\ UNCHANGED <<paused, bornPaused>> /\ wired' \subseteq wired /\ Signals' = Signals
  /\ \A p \in Processor : doing[p] # "none" => doing'[p] # "none"

LEMMA OrdinaryStep == ASSUME TreeInv, Ordinary PROVE TreeInv'
<1>1. /\ aborted' = aborted /\ doing' \in [Processor -> DoingStates]
      /\ \A p \in Processor :
           /\ ~ Live(p) => doing'[p] = doing[p]
           /\ Live(p) => doing'[p] # "none"
           /\ doing[p] = "none" => paused'[p] = paused[p]
           /\ doing[p] = "child" /\ doing'[p] # "child" => \A c \in Children(p) : ~ Live(c)
      /\ wired' \subseteq wired /\ \A c \in wired \ wired' : ~ Live(c) \/ aborted[c]
      /\ late \subseteq late'
  BY DEF Ordinary
<1>2. \A p \in Processor : Live(p)' => Live(p)
  BY <1>1 DEF Live
<1>3. TreeTypeOK /\ doing \in [Processor -> DoingStates] /\ wired \subseteq Child
      /\ \A c \in Child : Live(c) => doing[ParentOf[c]] = "child"
  BY TreeTypes DEF TreeInv
<1>4. TreeTypeOK'
  <2>1. \A c \in Child : Live(c)' => doing'[ParentOf[c]] = "child"
    BY <1>1, <1>2, <1>3, TreeFacts
  <2>2. /\ doing' \in [Processor -> DoingStates] /\ todo' \in [Processor -> SUBSET Kinds]
        /\ aborted' \in [Processor -> BOOLEAN] /\ paused' \in [Processor -> BOOLEAN]
        /\ wired' \subseteq Child /\ bornPaused' \subseteq Child
        /\ late' \subseteq Processor /\ due' \subseteq Processor
    BY <1>3, TreeTypes DEF Ordinary
  <2>. QED BY <2>1, <2>2 DEF TreeTypeOK, DoingStates, Kinds, Child, Live
<1>5. CreationInv'
  <2>1. \A p \in Processor : (doing[p] = "none") <=> (doing'[p] = "none")
    BY <1>1 DEF Live
  <2>. QED BY <1>1, <2>1, TreeFacts DEF TreeInv, CreationInv
<1>6. EndInv'
  <2>. SUFFICES ASSUME NEW e \in Pending', e.event = "graphEnd"
                PROVE  /\ e.at \in Line[e.of]
                       /\ e.of = e.at => doing'[e.at] = "over" \/ aborted'[e.at]
    BY DEF EndInv
  <2>1. CASE e \in Pending
    <3>1. e.at \in Processor
      BY <2>1, PendingTyped
    <3>. QED BY <1>1, <2>1, <3>1 DEF TreeInv, EndInv, Live
  <2>2. CASE e \notin Pending
    BY <2>2 DEF Ordinary
  <2>. QED BY <2>1, <2>2
<1>7. WiredInv'
  BY <1>1, <1>2, TreeFacts DEF TreeInv, WiredInv
<1>8. AbortReachesAll'
  BY <1>1, <1>2, <1>4, TreeFacts DEF TreeInv, AbortReachesAll, Child
<1>. QED BY <1>4, <1>5, <1>6, <1>7, <1>8 DEF TreeInv, Ordinary

LEMMA NodeEndsInv == ASSUME TreeInv, NEW p \in Processor, NodeEnds(p) PROVE TreeInv' /\ Quiet
<1>1. Ordinary /\ Quiet
  BY TreeTypes, TreeFacts DEF NodeEnds, Ordinary, TreeInv, stateVars, Live, DoingStates, Pending, Quiet, Signals
<1>. QED BY <1>1, OrdinaryStep

LEMMA ChildSettlesInv == ASSUME TreeInv, NEW p \in Processor, ChildSettles(p) PROVE TreeInv' /\ Quiet
<1>1. Ordinary /\ Quiet
  BY TreeTypes, TreeFacts DEF ChildSettles, Ordinary, TreeInv, stateVars, Live, DoingStates, Pending, Quiet, Signals
<1>. QED BY <1>1, OrdinaryStep

LEMMA UserInputInv == ASSUME TreeInv, NEW p \in Processor, UserInput(p) PROVE TreeInv' /\ Quiet
<1>1. Ordinary /\ Quiet
  BY TreeTypes, TreeFacts DEF UserInput, Wake, Ordinary, TreeInv, stateVars, Live, DoingStates, Pending, Quiet, Signals
<1>. QED BY <1>1, OrdinaryStep

LEMMA WaitsInv ==
  ASSUME TreeInv, NEW p \in Processor, doing[p] \in {"gate", "working"},
         todo' \in [Processor -> SUBSET Kinds], WaitForGlobal(p) \/ WaitForHost(p)
  PROVE  TreeInv' /\ Quiet
<1>1. Ordinary /\ Quiet
  BY TreeTypes, TreeFacts
  DEF WaitForGlobal, WaitForHost, Ordinary, TreeInv, Live, DoingStates, Pending, Quiet, Signals
<1>. QED BY <1>1, OrdinaryStep

LEMMA GraphEndsInv == ASSUME TreeInv, NEW p \in Processor, GraphEnds(p) PROVE TreeInv' /\ Quiet
<1>1. TreeTypeOK /\ emissions \in Seq(EmissionRecord)
  BY DEF TreeInv
<1>. DEFINE new == Emission(p, "graphEnd", p)
<1>2. /\ new \in EmissionRecord /\ new.at = p /\ new.of = p /\ new.event = "graphEnd" /\ p \in Line[p]
  BY <1>1, EmissionTyped, LineClosed DEF Event
<1>3. doing' = [doing EXCEPT ![p] = "over"] /\ doing[p] = "gate"
      /\ UNCHANGED <<todo, stateVars, wired, globals, late, bornPaused, due>>
  BY DEF GraphEnds
<1>4. emissions' \in Seq(EmissionRecord) /\ Pending' \in {Pending, Pending \cup {new}}
  <2>1. CASE p = Root
    BY <1>1, <2>1 DEF GraphEnds, Pending
  <2>2. CASE p # Root
    <3>1. emissions' = Append(emissions, new)
      BY <2>2 DEF GraphEnds
    <3>. HIDE DEF new
    <3>. QED BY <1>1, <1>2, <3>1, ElementsOfAppend DEF Pending
  <2>. QED BY <2>1, <2>2
<1>. HIDE DEF new
<1>5. Ordinary
  BY <1>1, <1>2, <1>3, <1>4, TreeTypes DEF Ordinary, stateVars, Live, DoingStates
<1>6. Quiet
  BY <1>1, <1>2, <1>3, <1>4, TreeTypes DEF Quiet, Signals, Control, stateVars, DoingStates
<1>. QED BY <1>5, <1>6, OrdinaryStep

LEMMA SetGlobalInv ==
  ASSUME TreeInv, NEW p \in Processor, doing[p] \in {"gate", "working"},
         todo' \in [Processor -> SUBSET Kinds], SetGlobal(p)
  PROVE  TreeInv' /\ Quiet
<1>1. TreeTypeOK /\ emissions \in Seq(EmissionRecord)
  BY DEF TreeInv
<1>. DEFINE new == Emission(p, "globalSet", p)
<1>2. new \in EmissionRecord /\ new.event = "globalSet"
  BY <1>1, EmissionTyped DEF Event
<1>3. /\ doing' = [doing EXCEPT ![p] = "working"] /\ emissions' = Append(emissions, new)
      /\ UNCHANGED <<wired, aborted, paused, late, bornPaused, due>>
  BY DEF SetGlobal
<1>. HIDE DEF new
<1>4. emissions' \in Seq(EmissionRecord) /\ Pending' = Pending \cup {new}
  BY <1>1, <1>2, <1>3, ElementsOfAppend DEF Pending
<1>5. Ordinary
  BY <1>1, <1>2, <1>3, <1>4, TreeTypes DEF Ordinary, Live, DoingStates
<1>6. Quiet
  BY <1>1, <1>2, <1>3, <1>4, TreeTypes DEF Quiet, Signals, Control, DoingStates
<1>. QED BY <1>5, <1>6, OrdinaryStep

LEMMA RaiseEventInv == ASSUME TreeInv, RaiseEvent PROVE TreeInv' /\ Quiet
<1>1. TreeTypeOK /\ emissions \in Seq(EmissionRecord)
  BY DEF TreeInv
<1>. DEFINE waiters == {p \in Processor : doing[p] = "event"}
<1>2. PICK order \in InnermostFirst(waiters) :
        emissions' = emissions \o Emissions(Reverse(order), "userEvent")
  BY DEF RaiseEvent
<1>3. Reverse(order) \in Seq(Processor)
  BY <1>2, OrderTyped
<1>. DEFINE new == Emissions(Reverse(order), "userEvent")
<1>4. new \in Seq(EmissionRecord)
      /\ ToSet(new) = {Emission(p, "userEvent", p) : p \in ToSet(Reverse(order))}
  BY <1>1, <1>3, EmissionsTyped DEF Event
<1>5. \A p \in ToSet(Reverse(order)) : p \in Processor
  BY <1>3 DEF ToSet
<1>6. \A e \in ToSet(new) : e.event = "userEvent"
  BY <1>1, <1>4, <1>5, EmissionTyped DEF Event
<1>7. emissions' = emissions \o new
  BY <1>2
<1>. HIDE DEF new
<1>8. emissions' \in Seq(EmissionRecord) /\ Pending' = Pending \cup ToSet(new)
  BY <1>1, <1>4, <1>7, ElementsOfConcat DEF Pending
<1>9. UNCHANGED <<runVars, stateVars, wired, globals, late, bornPaused>>
      /\ due' \subseteq Processor
  BY DEF RaiseEvent
<1>10. Ordinary
  BY <1>1, <1>6, <1>8, <1>9, TreeTypes DEF Ordinary, stateVars, runVars, Live
<1>11. Quiet
  BY <1>6, <1>8, <1>9 DEF Quiet, Signals, Control, stateVars, runVars
<1>. QED BY <1>10, <1>11, OrdinaryStep

Differing(procs, on) == {p \in procs : paused[p] # on}
Word(on) == IF on THEN "pause" ELSE "resume"
Switched(procs, on, queue) ==
  /\ paused' = [p \in Processor |-> IF p \in Differing(procs, on) THEN on ELSE paused[p]]
  /\ emissions' \in Seq(EmissionRecord)
  /\ Pending' = ToSet(queue) \cup {Emission(p, Word(on), p) : p \in Differing(procs, on)}
  /\ bornPaused' = bornPaused \ UNION {Children(p) : p \in Differing(procs, on)}

LEMMA SwitchAdds ==
  ASSUME TreeInv, NEW first \in SUBSET Processor, NEW others \in SUBSET Processor,
         NEW on \in BOOLEAN, NEW queue \in Seq(EmissionRecord), Switch(first, others, on, queue)
  PROVE  Switched(first \cup others, on, queue)
<1>. DEFINE changed == Differing(first \cup others, on)
            A == {p \in first : paused[p] # on}
            B == {p \in others : paused[p] # on}
            k == Word(on)
            a == SetToSeq(A)
            b == SetToSeq(B)
<1>1. IsFiniteSet(A) /\ IsFiniteSet(B) /\ A \subseteq Processor /\ B \subseteq Processor
  BY TreeFacts, FS_Subset
<1>2. a \in Seq(A) /\ ToSet(a) = A /\ b \in Seq(B) /\ ToSet(b) = B
  <2>. HIDE DEF A, B
  <2>. QED BY <1>1, SetAsSeq
<1>3. k \in Event
  BY DEF Event, Word
<1>4. A \cup B = changed
  BY DEF Differing
<1>5. /\ paused' = [p \in Processor |-> IF p \in changed THEN on ELSE paused[p]]
      /\ emissions' = queue \o Emissions(a \o b, k)
      /\ bornPaused' = bornPaused \ UNION {Children(p) : p \in changed}
  BY DEF Switch, Differing, Word
<1>. HIDE DEF changed, A, B, a, b, k
<1>6. a \in Seq(Processor) /\ b \in Seq(Processor)
  BY <1>1, <1>2
<1>7. a \o b \in Seq(Processor) /\ ToSet(a \o b) = changed
  <2>1. a \o b \in Seq(Processor) /\ ToSet(a \o b) = ToSet(a) \cup ToSet(b)
    BY <1>6, ElementsOfConcat
  <2>. QED BY <1>2, <1>4, <2>1
<1>. DEFINE new == Emissions(a \o b, k)
<1>8. new \in Seq(EmissionRecord) /\ ToSet(new) = {Emission(p, k, p) : p \in changed}
  BY <1>3, <1>7, EmissionsTyped DEF TreeInv
<1>9. emissions' = queue \o new
  BY <1>5
<1>. HIDE DEF new
<1>10. emissions' \in Seq(EmissionRecord) /\ ToSet(emissions') = ToSet(queue) \cup ToSet(new)
  BY <1>8, <1>9, ElementsOfConcat
<1>. QED BY <1>5, <1>8, <1>10 DEF Pending, k, changed, Switched

LEMMA SwitchInv ==
  ASSUME TreeInv, NEW first \in SUBSET Processor, NEW others \in SUBSET Processor,
         NEW on \in BOOLEAN, NEW queue \in Seq(EmissionRecord), Switch(first, others, on, queue),
         ToSet(queue) \subseteq Pending, \A p \in first \cup others : doing[p] # "none",
         UNCHANGED <<doing, todo, aborted, wired, late, due>>
  PROVE  TreeInv'
<1>. DEFINE changed == Differing(first \cup others, on)
            k == Word(on)
<1>1. /\ paused' = [p \in Processor |-> IF p \in changed THEN on ELSE paused[p]]
      /\ emissions' \in Seq(EmissionRecord)
      /\ Pending' = ToSet(queue) \cup {Emission(p, k, p) : p \in changed}
      /\ bornPaused' = bornPaused \ UNION {Children(p) : p \in changed}
  <2>1. Switched(first \cup others, on, queue)
    BY SwitchAdds
  <2>. QED BY <2>1 DEF Switched
<1>2. \A p \in changed : Emission(p, k, p).event # "graphEnd"
  <2>1. k \in Event /\ k # "graphEnd"
    BY DEF Event, Word
  <2>. QED BY <2>1, EmissionTyped DEF TreeInv, Differing
<1>3. \A p \in changed : doing[p] # "none"
  BY DEF Differing
<1>. HIDE DEF changed, k
<1>4. Ordinary
  BY <1>1, <1>2, <1>3, TreeTypes DEF TreeInv, Ordinary, Live
<1>. QED BY <1>4, OrdinaryStep

LEMMA HostSwitchesInv == ASSUME TreeInv, HostSwitches PROVE TreeInv'
<1>1. /\ Live(Root) /\ Switch({Root}, {}, hostCalls % 2 = 0, emissions)
      /\ UNCHANGED <<doing, todo, aborted, wired, globals, late, due>>
  BY DEF HostSwitches, runVars
<1>2. /\ emissions \in Seq(EmissionRecord) /\ ToSet(emissions) \subseteq Pending
      /\ \A p \in {Root} \cup {} : doing[p] # "none"
      /\ {Root} \in SUBSET Processor /\ {} \in SUBSET Processor
      /\ (hostCalls % 2 = 0) \in BOOLEAN
  BY <1>1, TreeFacts DEF TreeInv, Live, Pending
<1>. QED BY <1>1, <1>2, SwitchInv

(* The event that is delivered, and those that wait behind it. *)
LEMMA Delivery ==
  ASSUME TreeInv, emissions # <<>>, NEW e, e = Head(emissions)
  PROVE  /\ e \in Pending /\ e \in EmissionRecord
         /\ e.at \in Processor /\ e.of \in Processor /\ e.event \in Event /\ e.to \subseteq Processor
         /\ Tail(emissions) \in Seq(EmissionRecord)
         /\ Pending = {e} \cup ToSet(Tail(emissions))
<1>1. emissions \in Seq(EmissionRecord)
  BY DEF TreeInv
<1>2. e \in Pending /\ Tail(emissions) \in Seq(EmissionRecord)
      /\ Pending = {e} \cup ToSet(Tail(emissions))
  BY <1>1, ElementsOfTail DEF Pending
<1>. QED BY <1>2, PendingTyped

LEMMA HearersAreOn ==
  ASSUME TreeInv, NEW c \in wired
  PROVE  /\ c \in Child /\ c \in Processor /\ ParentOf[c] \in Processor
         /\ doing[c] # "none" /\ doing[ParentOf[c]] # "none"
BY TreeTypes, TreeFacts DEF TreeInv, CreationInv

LEMMA DeliverControlInv ==
  ASSUME TreeInv, NEW e \in EmissionRecord, NEW queue \in Seq(EmissionRecord),
         ToSet(queue) \subseteq Pending, e.at \in Processor, e.to \subseteq Processor,
         DeliverControl(e, queue), UNCHANGED <<todo, late>>
  PROVE  TreeInv'
<1>. DEFINE hears == e.to \cap wired
            up == IF e.at \in hears THEN {ParentOf[e.at]} ELSE {}
            others == hears \ {e.at}
            on == e.event = "pause"
<1>1. Switch(up, others, on, queue) /\ UNCHANGED <<doing, aborted, wired, due>>
  BY DEF DeliverControl
<1>2. up \in SUBSET Processor /\ others \in SUBSET Processor /\ on \in BOOLEAN
      /\ \A p \in up \cup others : doing[p] # "none"
  BY HearersAreOn
<1>. HIDE DEF up, others, on
<1>. QED BY <1>1, <1>2, SwitchInv

LEMMA ForwardedTyped ==
  ASSUME TreeInv, NEW e \in EmissionRecord, e.at \in Processor, e.of \in Processor,
         e.event \in Event, e.event = "graphEnd" => e.at \in Line[e.of]
  PROVE  /\ Forwarded(e) \in Seq(EmissionRecord)
         /\ \A f \in ToSet(Forwarded(e)) :
              /\ f.event = e.event
              /\ f.event = "graphEnd" => f.at \in Line[f.of] /\ f.of # f.at
<1>1. CASE e.at = Root \/ (e.event = "graphEnd" /\ ParentOf[e.at] = Root)
  <2>1. Forwarded(e) = <<>> /\ <<>> \in Seq(EmissionRecord)
    BY <1>1 DEF Forwarded
  <2>2. ToSet(<<>>) = {}
    BY DEF ToSet
  <2>. QED BY <2>1, <2>2
<1>2. CASE ~ (e.at = Root \/ (e.event = "graphEnd" /\ ParentOf[e.at] = Root))
  <2>. DEFINE f == Emission(ParentOf[e.at], e.event, e.of)
  <2>1. e.at \in Child /\ ParentOf[e.at] \in Processor
    BY <1>2, TreeFacts DEF Child
  <2>2. /\ f \in EmissionRecord /\ f.at = ParentOf[e.at] /\ f.event = e.event /\ f.of = e.of
    BY <2>1, EmissionTyped DEF TreeInv
  <2>3. Forwarded(e) = <<f>>
    BY <1>2 DEF Forwarded
  <2>. HIDE DEF f
  <2>4. <<f>> \in Seq(EmissionRecord) /\ ToSet(<<f>>) = {f}
    <3>1. <<f>> \in Seq(EmissionRecord) /\ Len(<<f>>) = 1 /\ <<f>>[1] = f
      BY <2>2
    <3>2. DOMAIN <<f>> = {1}
      BY <3>1
    <3>. QED BY <3>1, <3>2 DEF ToSet
  <2>5. e.event = "graphEnd" => f.at \in Line[f.of] /\ f.of # f.at
    <3>. SUFFICES ASSUME e.event = "graphEnd" PROVE f.at \in Line[f.of] /\ f.of # f.at
      OBVIOUS
    <3>1. f.at \in Line[f.of]
      BY <1>2, <2>1, <2>2, LineClosed
    <3>2. e.at \notin Line[ParentOf[e.at]]
      BY <2>1, LineOfChild
    <3>. QED BY <2>2, <3>1, <3>2
  <2>. QED BY <2>2, <2>3, <2>4, <2>5
<1>. QED BY <1>1, <1>2

LEMMA DeliverGraphEndInv ==
  ASSUME TreeInv, NEW e \in Pending, NEW queue \in Seq(EmissionRecord),
         Pending = {e} \cup ToSet(queue), e.event = "graphEnd",
         DeliverGraphEnd(e, queue), UNCHANGED <<todo, late>>
  PROVE  TreeInv' /\ Quiet
<1>1. /\ e \in EmissionRecord /\ e.at \in Processor /\ e.of \in Processor /\ e.event \in Event
      /\ e.at \in Line[e.of] /\ (e.of = e.at => doing[e.at] = "over" \/ aborted[e.at])
  BY PendingTyped DEF TreeInv, EndInv
<1>. DEFINE new == Forwarded(e)
<1>2. /\ new \in Seq(EmissionRecord)
      /\ \A f \in ToSet(new) :
           f.event = "graphEnd" /\ f.at \in Line[f.of] /\ f.of # f.at
  BY <1>1, ForwardedTyped
<1>3. /\ wired' = IF e.of = e.at THEN wired \ {e.at} ELSE wired
      /\ emissions' = queue \o new
      /\ UNCHANGED <<doing, stateVars, bornPaused, due>>
  BY DEF DeliverGraphEnd, OwnEvent
<1>. HIDE DEF new
<1>4. emissions' \in Seq(EmissionRecord) /\ Pending' = ToSet(queue) \cup ToSet(new)
  BY <1>2, <1>3, ElementsOfConcat DEF Pending
<1>5. Ordinary
  BY <1>1, <1>2, <1>3, <1>4, TreeTypes DEF TreeInv, Ordinary, stateVars, Live
<1>6. Quiet
  BY <1>2, <1>3, <1>4 DEF Quiet, Signals, Control, stateVars
<1>. QED BY <1>5, <1>6, OrdinaryStep

LEMMA DeliverGlobalSetInv ==
  ASSUME TreeInv, NEW e \in Pending, NEW queue \in Seq(EmissionRecord),
         Pending = {e} \cup ToSet(queue), e.event = "globalSet",
         DeliverGlobalSet(e, queue), UNCHANGED <<todo, late>>
  PROVE  TreeInv' /\ Quiet
<1>1. /\ e \in EmissionRecord /\ e.at \in Processor /\ e.of \in Processor /\ e.event \in Event
  BY PendingTyped
<1>. DEFINE up == Emission(Root, "globalSet:id", e.of)
            new == IF e.at = Root THEN <<up>> ELSE Forwarded(e)
<1>2. new \in Seq(EmissionRecord) /\ \A f \in ToSet(new) : f.event \in {"globalSet", "globalSet:id"}
  <2>1. CASE e.at = Root
    <3>1. up \in EmissionRecord /\ up.event = "globalSet:id"
      BY <1>1, TreeFacts, EmissionTyped DEF TreeInv, Event
    <3>. HIDE DEF up
    <3>2. <<up>> \in Seq(EmissionRecord) /\ Len(<<up>>) = 1 /\ <<up>>[1] = up
      BY <3>1
    <3>3. DOMAIN <<up>> = {1}
      BY <3>2
    <3>. QED BY <2>1, <3>1, <3>2, <3>3 DEF ToSet
  <2>2. CASE e.at # Root
    BY <1>1, <2>2, ForwardedTyped
  <2>. QED BY <2>1, <2>2
<1>3. emissions' = queue \o new /\ UNCHANGED <<doing, stateVars, wired, bornPaused, due>>
  BY DEF DeliverGlobalSet
<1>. HIDE DEF new
<1>4. emissions' \in Seq(EmissionRecord) /\ Pending' = ToSet(queue) \cup ToSet(new)
  BY <1>2, <1>3, ElementsOfConcat DEF Pending
<1>5. Ordinary
  BY <1>2, <1>3, <1>4, TreeTypes DEF TreeInv, Ordinary, stateVars, Live
<1>6. Quiet
  BY <1>2, <1>3, <1>4 DEF Quiet, Signals, Control, stateVars
<1>. QED BY <1>5, <1>6, OrdinaryStep

LEMMA DeliverToWaitersInv ==
  ASSUME TreeInv, NEW e \in Pending, NEW queue \in Seq(EmissionRecord),
         Pending = {e} \cup ToSet(queue), e.event \notin Control, DeliverToWaiters(e, queue), UNCHANGED <<todo, late>>
  PROVE  TreeInv' /\ Quiet
<1>1. /\ doing' = [q \in Processor |->
                    IF q \in e.to /\ doing[q] = (IF e.event = "userEvent" THEN "event" ELSE "global")
                    THEN "working" ELSE doing[q]]
      /\ due' \subseteq due /\ emissions' = queue /\ UNCHANGED <<stateVars, wired, bornPaused>>
  BY DEF DeliverToWaiters, Wake
<1>2. /\ doing' \in [Processor -> DoingStates]
      /\ \A q \in Processor : /\ ~ Live(q) => doing'[q] = doing[q]
                              /\ Live(q) => doing'[q] # "none"
                              /\ doing[q] = "child" => doing'[q] = "child"
  BY <1>1, TreeTypes DEF TreeInv, Live, DoingStates
<1>3. Pending' = ToSet(queue) /\ emissions' \in Seq(EmissionRecord)
  BY <1>1 DEF Pending
<1>4. Ordinary
  BY <1>1, <1>2, <1>3, TreeTypes DEF TreeInv, Ordinary, stateVars
<1>5. Quiet
  BY <1>1, <1>2, <1>3 DEF Quiet, Signals, stateVars, Live
<1>. QED BY <1>4, <1>5, OrdinaryStep

LEMMA DeliverInv == ASSUME TreeInv, Deliver
  PROVE  TreeInv' /\ (Head(emissions).event \notin Control => Quiet)
<1>. DEFINE e == Head(emissions)
            queue == Tail(emissions)
<1>1. /\ e \in Pending /\ e \in EmissionRecord
      /\ e.at \in Processor /\ e.of \in Processor /\ e.event \in Event /\ e.to \subseteq Processor
      /\ queue \in Seq(EmissionRecord) /\ Pending = {e} \cup ToSet(queue)
  BY Delivery DEF Deliver
<1>2. /\ CASE e.event \in {"pause", "resume"} -> DeliverControl(e, queue)
           [] e.event = "graphEnd" -> DeliverGraphEnd(e, queue)
           [] e.event = "globalSet" -> DeliverGlobalSet(e, queue)
           [] OTHER -> DeliverToWaiters(e, queue)
      /\ UNCHANGED <<todo, late>>
  BY DEF Deliver
<1>. SUFFICES TreeInv' /\ (e.event \notin Control => Quiet)
  OBVIOUS
<1>. HIDE DEF e, queue
<1>3. CASE e.event \in {"pause", "resume"}
  <2>1. DeliverControl(e, queue) /\ e.event \in Control
    BY <1>2, <1>3 DEF Control
  <2>. QED BY <1>1, <1>2, <2>1, DeliverControlInv
<1>4. CASE e.event = "graphEnd"
  BY <1>1, <1>2, <1>4, DeliverGraphEndInv
<1>5. CASE e.event = "globalSet"
  BY <1>1, <1>2, <1>5, DeliverGlobalSetInv
<1>6. CASE e.event \notin {"pause", "resume", "graphEnd", "globalSet"}
  BY <1>1, <1>2, <1>6, DeliverToWaitersInv DEF Control
<1>. QED BY <1>3, <1>4, <1>5, <1>6

(***************************************************************************)
(* The steps that create subgraphs or abort them.                          *)
(***************************************************************************)
LEMMA CreationStep ==
  ASSUME TreeInv, NEW p \in Processor, doing[p] \in {"gate", "working"},
         todo' \in [Processor -> SUBSET Kinds], CreateSubProcessors(p)
  PROVE  TreeInv'
<1>1. PICK C \in SUBSET {c \in Children(p) : doing[c] = "none"} \ {{}} :
        /\ doing' = [q \in Processor |->
                       CASE q = p -> "child" [] q \in C -> "gate" [] OTHER -> doing[q]]
        /\ wired' = wired \cup C
        /\ late' = IF aborted[p] \/ p \in late THEN late \cup C ELSE late
        /\ bornPaused' = IF paused[p] THEN bornPaused \cup C ELSE bornPaused
        /\ UNCHANGED <<aborted, paused, emissions, globals, due>>
  BY DEF CreateSubProcessors
<1>2. \A c \in C : c \in Child /\ c \in Processor /\ ParentOf[c] = p /\ doing[c] = "none" /\ c # p
  BY TreeFacts
<1>3. /\ TreeTypeOK /\ doing \in [Processor -> DoingStates] /\ wired \subseteq Child
      /\ bornPaused \subseteq Child /\ late \subseteq Processor /\ due \subseteq Processor
      /\ aborted \in [Processor -> BOOLEAN] /\ paused \in [Processor -> BOOLEAN]
      /\ \A c \in Child : Live(c) => doing[ParentOf[c]] = "child"
  BY TreeTypes DEF TreeInv
<1>4. /\ doing' \in [Processor -> DoingStates]
      /\ \A q \in Processor : /\ q = p => doing'[q] = "child"
                              /\ q \in C => doing'[q] = "gate"
                              /\ q # p /\ q \notin C => doing'[q] = doing[q]
  BY <1>1, <1>2, <1>3 DEF DoingStates
<1>5. \A q \in Processor : Live(q)' => Live(q) \/ q \in C
  BY <1>4 DEF Live
<1>6. TreeTypeOK'
  <2>1. ASSUME NEW c \in Child, Live(c)' PROVE doing'[ParentOf[c]] = "child"
    <3>1. c \in Processor /\ ParentOf[c] \in Processor
      BY TreeFacts
    <3>2. CASE c \in C
      BY <1>2, <1>4, <3>1, <3>2
    <3>3. CASE c \notin C
      <4>1. doing[ParentOf[c]] = "child"
        BY <1>3, <1>5, <2>1, <3>1, <3>3
      <4>. QED BY <1>2, <1>4, <3>1, <4>1
    <3>. QED BY <3>2, <3>3
  <2>2. wired' \subseteq Child /\ bornPaused' \subseteq Child /\ late' \subseteq Processor
    BY <1>1, <1>2, <1>3
  <2>. QED BY <1>1, <1>3, <1>4, <2>1, <2>2 DEF TreeTypeOK, DoingStates, Kinds, Child, Live
<1>7. CreationInv'
  <2>1. \A q \in Processor : doing'[q] = "none" <=> doing[q] = "none" /\ q \notin C
    BY <1>2, <1>4
  <2>2. doing'[Root] # "none"
    BY <1>2, <2>1, TreeFacts DEF TreeInv, CreationInv, Child
  <2>3. ASSUME NEW c \in Child, doing'[c] # "none" PROVE doing'[ParentOf[c]] # "none"
    <3>1. c \in Processor /\ ParentOf[c] \in Processor
      BY TreeFacts
    <3>. QED BY <1>2, <1>4, <2>1, <2>3, <3>1 DEF TreeInv, CreationInv
  <2>4. ASSUME NEW c \in Child, doing'[c] = "none" PROVE c \notin wired' /\ ~ paused'[c]
    BY <1>1, <2>1, <2>4, TreeFacts DEF TreeInv, CreationInv
  <2>. QED BY <2>2, <2>3, <2>4 DEF CreationInv
<1>8. EndInv'
  <2>1. Pending' = Pending
    BY <1>1 DEF Pending
  <2>2. \A e \in Pending : e.at \in Processor
    BY PendingTyped
  <2>3. \A q \in Processor : doing[q] = "over" => doing'[q] = "over"
    BY <1>2, <1>4
  <2>. QED BY <1>1, <2>1, <2>2, <2>3 DEF TreeInv, EndInv
<1>9. WiredInv'
  BY <1>1, <1>5, TreeFacts DEF TreeInv, WiredInv
<1>10. AbortReachesAll'
  <2>1. ASSUME NEW c \in Child, Live(c)', aborted'[ParentOf[c]]
        PROVE  aborted'[c] \/ c \in late'
    <3>1. CASE c \in C
      BY <1>1, <1>2, <2>1, <3>1
    <3>2. CASE c \notin C
      BY <1>1, <1>5, <2>1, <3>2, TreeFacts DEF TreeInv, AbortReachesAll, Child
    <3>. QED BY <3>1, <3>2
  <2>. QED BY <1>6, <2>1 DEF AbortReachesAll, Child
<1>11. emissions' \in Seq(EmissionRecord)
  BY <1>1 DEF TreeInv
<1>. QED BY <1>6, <1>7, <1>8, <1>9, <1>10, <1>11 DEF TreeInv

(* Who is reached is under the one that aborts, and all between them are. *)
LEMMA ReachedBelow ==
  ASSUME TreeInv, NEW p \in Processor, NEW c \in Child, ParentOf[c] \in ReachedByAbort(p),
         Live(c), ~ aborted[c]
  PROVE  c \in ReachedByAbort(p)
<1>. DEFINE q == ParentOf[c]
<1>1. c \in Processor /\ q \in Processor /\ Line[c] = {c} \cup Line[q] /\ c \in wired
  BY TreeFacts, LineOfChild DEF TreeInv, WiredInv
<1>2. /\ p \in Line[q]
      /\ \A r \in Line[q] \ Line[p] : r \in wired
      /\ \A r \in {p} \cup (Line[q] \ Line[p]) : Live(r) /\ ~ aborted[r]
  BY DEF ReachedByAbort
<1>. HIDE DEF q
<1>. QED BY <1>1, <1>2 DEF ReachedByAbort

LEMMA AbortStep ==
  ASSUME TreeInv, NEW p \in Processor, NEW result \in [Processor -> DoingStates],
         \A q \in Processor :
           result[q] = doing[q] \/ (result[q] = "working" /\ doing[q] \in {"gate", "working"}),
         AbortOf(p, result), todo' \in [Processor -> SUBSET Kinds],
         UNCHANGED <<wired, paused, late, bornPaused>>
  PROVE  TreeInv' /\ Quiet
<1>. DEFINE reached == ReachedByAbort(p)
<1>1. PICK order \in InnermostFirst(reached \ {Root}) :
        emissions' = emissions \o Emissions(order, "graphEnd")
  BY DEF AbortOf
<1>2. /\ aborted' = [q \in Processor |-> aborted[q] \/ q \in reached]
      /\ doing' = [q \in Processor |->
                     IF q \in reached /\ doing[q] \in {"input", "event"} THEN "working" ELSE result[q]]
      /\ due' \subseteq due
  BY DEF AbortOf, RejectedByAbort
<1>3. reached \subseteq Processor
  BY DEF ReachedByAbort
<1>4. /\ TreeTypeOK /\ doing \in [Processor -> DoingStates] /\ wired \subseteq Child
      /\ bornPaused \subseteq Child /\ late \subseteq Processor /\ due \subseteq Processor
      /\ aborted \in [Processor -> BOOLEAN] /\ paused \in [Processor -> BOOLEAN]
      /\ \A c \in Child : Live(c) => doing[ParentOf[c]] = "child"
      /\ emissions \in Seq(EmissionRecord)
  BY TreeTypes DEF TreeInv
<1>5. \A c \in Child : ParentOf[c] \in reached /\ Live(c) /\ ~ aborted[c] => c \in reached
  BY ReachedBelow
<1>. HIDE DEF reached
<1>6. doing' \in [Processor -> DoingStates] /\ aborted' \in [Processor -> BOOLEAN]
  BY <1>2, <1>4 DEF DoingStates
<1>7. \A q \in Processor : /\ Live(q)' <=> Live(q)
                           /\ doing'[q] = "none" <=> doing[q] = "none"
                           /\ doing[q] \in {"child", "over"} => doing'[q] = doing[q]
                           /\ aborted[q] => aborted'[q]
  BY <1>2, <1>4 DEF Live
<1>8. TreeTypeOK'
  <2>1. \A c \in Child : Live(c)' => doing'[ParentOf[c]] = "child"
    BY <1>4, <1>7, TreeFacts
  <2>. QED BY <1>2, <1>4, <1>6, <2>1 DEF TreeTypeOK, DoingStates, Kinds, Child, Live
<1>9. CreationInv'
  BY <1>7, TreeFacts DEF TreeInv, CreationInv
<1>. DEFINE new == Emissions(order, "graphEnd")
<1>10. /\ emissions' \in Seq(EmissionRecord) /\ Pending' = Pending \cup ToSet(new)
       /\ ToSet(new) = {Emission(q, "graphEnd", q) : q \in reached \ {Root}}
  <2>1. order \in Seq(Processor) /\ ToSet(order) = reached \ {Root}
    BY <1>1, <1>3, OrderTyped
  <2>2. new \in Seq(EmissionRecord)
        /\ ToSet(new) = {Emission(q, "graphEnd", q) : q \in ToSet(order)}
    BY <1>4, <2>1, EmissionsTyped DEF Event
  <2>3. emissions' = emissions \o new
    BY <1>1
  <2>. HIDE DEF new
  <2>. QED BY <1>4, <2>1, <2>2, <2>3, ElementsOfConcat DEF Pending
<1>. HIDE DEF new
<1>11. EndInv'
  <2>. SUFFICES ASSUME NEW e \in Pending', e.event = "graphEnd"
                PROVE  /\ e.at \in Line[e.of]
                       /\ e.of = e.at => doing'[e.at] = "over" \/ aborted'[e.at]
    BY DEF EndInv
  <2>1. CASE e \in Pending
    <3>1. e.at \in Processor
      BY <2>1, PendingTyped
    <3>. QED BY <1>7, <2>1, <3>1 DEF TreeInv, EndInv
  <2>2. CASE e \in ToSet(new)
    <3>1. PICK q \in reached \ {Root} : e = Emission(q, "graphEnd", q)
      BY <1>10, <2>2
    <3>2. q \in Processor /\ e.at = q /\ e.of = q
      <4>1. q \in Processor /\ TreeTypeOK
        BY <1>3, <1>4
      <4>2. Emission(q, "graphEnd", q).at = q /\ Emission(q, "graphEnd", q).of = q
        <5>1. "graphEnd" \in Event
          BY DEF Event
        <5>. QED BY <4>1, <5>1, EmissionTyped
      <4>. QED BY <3>1, <4>1, <4>2
    <3>3. aborted'[q]
      BY <1>2, <3>1, <3>2
    <3>. QED BY <3>2, <3>3, LineClosed
  <2>. QED BY <1>10, <2>1, <2>2
<1>12. WiredInv'
  BY <1>7, TreeFacts DEF TreeInv, WiredInv
<1>13. AbortReachesAll'
  <2>1. ASSUME NEW c \in Child, Live(c)', aborted'[ParentOf[c]]
        PROVE  aborted'[c] \/ c \in late'
    <3>1. c \in Processor /\ ParentOf[c] \in Processor /\ Live(c)
      BY <1>7, <2>1, TreeFacts
    <3>2. CASE aborted[ParentOf[c]]
      BY <1>7, <3>1, <3>2 DEF TreeInv, AbortReachesAll, Child
    <3>3. CASE ParentOf[c] \in reached
      BY <1>2, <1>5, <3>1, <3>3
    <3>. QED BY <1>2, <2>1, <3>1, <3>2, <3>3
  <2>. QED BY <1>8, <2>1 DEF AbortReachesAll, Child
<1>14. Quiet
  <2>1. \A e \in ToSet(new) : e.event = "graphEnd"
    BY <1>3, <1>4, <1>10, EmissionTyped DEF Event
  <2>. QED BY <1>7, <1>10, <2>1 DEF Quiet, Signals, Control
<1>. QED BY <1>14, <1>8, <1>9, <1>10, <1>11, <1>12, <1>13 DEF TreeInv

LEMMA NodeStepInv == ASSUME TreeInv, NEW p \in Processor, NodeStep(p)
  PROVE  /\ TreeInv'
         /\ Quiet \/ (CreateSubProcessors(p) /\ doing[p] \in {"gate", "working"})
<1>1. PICK k \in todo[p] : /\ doing[p] \in {"gate", "working"} /\ DoActivity(p, k)
  BY DEF NodeStep
<1>2. /\ todo' = [todo EXCEPT ![p] = @ \ {k}]
      /\ CreateSubProcessors(p) \/ SetGlobal(p) \/ WaitForGlobal(p) \/ WaitForHost(p) \/ AbortGraph(p)
  BY <1>1 DEF DoActivity
<1>3. todo' \in [Processor -> SUBSET Kinds]
  <2>1. todo \in [Processor -> SUBSET Kinds]
    BY TreeTypes DEF TreeInv
  <2>2. todo[p] \ {k} \in SUBSET Kinds
    BY <2>1
  <2>3. todo' = [todo EXCEPT ![p] = todo[p] \ {k}]
    BY <1>2
  <2>. HIDE DEF Kinds
  <2>. QED BY <2>1, <2>2, <2>3
<1>4. CASE AbortGraph(p)
  <2>. DEFINE result == [doing EXCEPT ![p] = "working"]
  <2>1. AbortOf(p, result) /\ UNCHANGED <<wired, paused, late, bornPaused>>
    BY <1>4 DEF AbortGraph
  <2>2. /\ result \in [Processor -> DoingStates]
        /\ \A q \in Processor : result[q] = doing[q] \/
                                (result[q] = "working" /\ doing[q] \in {"gate", "working"})
    BY <1>1, TreeTypes DEF TreeInv, DoingStates
  <2>. HIDE DEF result
  <2>. QED BY <1>3, <2>1, <2>2, AbortStep
<1>. QED
  BY <1>1, <1>2, <1>3, <1>4, CreationStep, SetGlobalInv, WaitsInv

LEMMA HostAbortsInv == ASSUME TreeInv, HostAborts PROVE TreeInv' /\ Quiet
<1>1. /\ AbortOf(Root, doing) /\ todo' = todo /\ UNCHANGED <<wired, paused, late, bornPaused>>
  BY DEF HostAborts
<1>2. doing \in [Processor -> DoingStates] /\ todo' \in [Processor -> SUBSET Kinds]
  BY <1>1, TreeTypes DEF TreeInv
<1>. QED BY <1>1, <1>2, TreeFacts, AbortStep

LEMMA TreeInitInv == TreeInit => TreeInv
<1>. SUFFICES ASSUME TreeInit PROVE TreeInv
  OBVIOUS
<1>1. /\ doing = [p \in Processor |-> IF p = Root THEN "gate" ELSE "none"]
      /\ todo = Activities /\ aborted = [p \in Processor |-> FALSE] /\ paused = aborted
      /\ wired = {} /\ emissions = <<>> /\ late = {} /\ bornPaused = {} /\ due = {}
  BY DEF TreeInit
<1>2. TreeTypeOK
  BY <1>1, TreeFacts, TreeTypes, SubprocessorAssumption DEF Live, DoingStates, Kinds, Child
<1>3. emissions \in Seq(EmissionRecord) /\ Pending = {}
  BY <1>1 DEF Pending, ToSet
<1>. QED
  BY <1>1, <1>2, <1>3, TreeFacts
  DEF TreeInv, CreationInv, EndInv, WiredInv, AbortReachesAll, Live, Child

LEMMA TreeStepInv == TreeInv /\ [TreeNext]_treeVars => TreeInv'
<1>. SUFFICES ASSUME TreeInv, [TreeNext]_treeVars PROVE TreeInv'
  OBVIOUS
<1>1. ASSUME NEW p \in Processor, Work(p) PROVE TreeInv'
  BY <1>1, NodeStepInv, NodeEndsInv, GraphEndsInv, ChildSettlesInv DEF Work
<1>2. CASE UNCHANGED treeVars
  <2>1. UNCHANGED <<doing, todo, aborted, paused, wired, emissions, late, bornPaused, due>>
    BY <1>2 DEF treeVars, runVars, stateVars
  <2>2. Ordinary
    BY <2>1, TreeTypes DEF TreeInv, Ordinary, Live, Pending
  <2>. QED BY <2>2, OrdinaryStep
<1>. QED
  BY <1>1, <1>2, DeliverInv, UserInputInv, HostSwitchesInv, HostAbortsInv, RaiseEventInv DEF TreeNext

LEMMA TreeInvariance == TreeSpec => []TreeInv
BY TreeInitInv, TreeStepInv, PTL DEF TreeSpec

(* An abort is in every subgraph that runs below the one it was called on, at
   the moment of the call, however deep and whatever else runs; only what began
   after it can be without: what the abort listeners of createSubProcessor do,
   for every tree of processors. *)
THEOREM AbortsReachTheTree == TreeSpec => []AbortReachesAll
<1>1. TreeInv => AbortReachesAll
  BY DEF TreeInv
<1>. QED BY <1>1, TreeInvariance, PTL

(***************************************************************************)
(* The pause.  A processor that hears of a change takes it from its parent *)
(* or from a child.  When the host calls between turns only, a child's     *)
(* change is always one that its parent has made already.                  *)
(***************************************************************************)
LEMMA QuietStep == ASSUME TreeInv, PauseInv, Quiet PROVE PauseInv'
<1>1. /\ paused' = paused /\ bornPaused' = bornPaused /\ wired' \subseteq wired /\ Signals' = Signals
      /\ \A p \in Processor : doing[p] # "none" => doing'[p] # "none"
  BY DEF Quiet
<1>2. \A e \in Signals : e.at \in Processor /\ e.to \subseteq Processor
  BY PendingTyped DEF Signals
<1>3. WaveInv'
  BY <1>1, <1>2 DEF PauseInv, WaveInv
<1>4. BornInv'
  BY <1>1 DEF PauseInv, BornInv
<1>5. EdgeInv'
  BY <1>1 DEF PauseInv, EdgeInv
<1>. QED BY <1>3, <1>4, <1>5 DEF PauseInv

LEMMA CreationPause ==
  ASSUME TreeInv, PauseInv, NEW p \in Processor, doing[p] \in {"gate", "working"},
         CreateSubProcessors(p)
  PROVE  PauseInv'
<1>1. PICK C \in SUBSET {c \in Children(p) : doing[c] = "none"} \ {{}} :
        /\ doing' = [q \in Processor |->
                       CASE q = p -> "child" [] q \in C -> "gate" [] OTHER -> doing[q]]
        /\ wired' = wired \cup C
        /\ bornPaused' = IF paused[p] THEN bornPaused \cup C ELSE bornPaused
        /\ UNCHANGED <<aborted, paused, emissions, globals, due>>
  BY DEF CreateSubProcessors
<1>2. \A c \in C : /\ c \in Child /\ c \in Processor /\ ParentOf[c] = p /\ doing[c] = "none"
                   /\ ~ paused[c]
  BY TreeFacts DEF TreeInv, CreationInv
<1>3. Signals' = Signals /\ paused' = paused
  BY <1>1 DEF Signals, Pending
<1>4. \A e \in Signals : /\ e.at \in Processor /\ e.to \subseteq Processor
                         /\ \A c \in C : e.at # c /\ c \notin e.to
  BY <1>2, PendingTyped DEF Signals, PauseInv, WaveInv
<1>5. \A q \in Processor : doing[q] # "none" => doing'[q] # "none"
  BY <1>1
<1>6. WaveInv'
  BY <1>3, <1>4, <1>5 DEF PauseInv, WaveInv
<1>7. BornInv'
  <2>. SUFFICES ASSUME NEW c \in bornPaused'
                PROVE  /\ paused'[ParentOf[c]] /\ ~ paused'[c]
                       /\ \A e \in Signals' : e.at # c /\ c \notin e.to
    BY DEF BornInv
  <2>1. c \in bornPaused \/ (paused[p] /\ c \in C)
    BY <1>1
  <2>. QED BY <1>2, <1>3, <1>4, <2>1 DEF PauseInv, BornInv
<1>8. EdgeInv'
  <2>. SUFFICES ASSUME NEW c \in wired', paused[c] # paused[ParentOf[c]]
                PROVE  \/ c \in bornPaused'
                       \/ \E e \in Signals' : e.at = ParentOf[c] /\ c \in e.to
    BY <1>3 DEF EdgeInv
  <2>1. bornPaused \subseteq bornPaused'
    BY <1>1
  <2>2. CASE c \in C
    <3>1. paused[p]
      <4>1. paused \in [Processor -> BOOLEAN]
        BY TreeTypes DEF TreeInv
      <4>. QED BY <1>2, <2>2, <4>1
    <3>. QED BY <1>1, <2>2, <3>1
  <2>3. CASE c \in wired
    BY <1>3, <2>1, <2>3 DEF PauseInv, EdgeInv
  <2>. QED BY <1>1, <2>2, <2>3
<1>. QED BY <1>6, <1>7, <1>8 DEF PauseInv

LEMMA SignalTyped ==
  ASSUME TreeInv, NEW p \in Processor, NEW on \in BOOLEAN
  PROVE  LET f == Emission(p, Word(on), p)
         IN /\ f.at = p /\ f.event = Word(on) /\ f.event \in Control
            /\ f.event = "pause" <=> on
            /\ f.to = wired \cap (Children(p) \cup {p})
BY EmissionTyped DEF TreeInv, Word, Control, Event

LEMMA HostSwitchesPause ==
  ASSUME OneCallPerTurn, TreeInv, PauseInv, HostSwitches PROVE PauseInv'
<1>. DEFINE on == hostCalls % 2 = 0
            changed == Differing({Root} \cup {}, on)
            e == Emission(Root, Word(on), Root)
<1>1. /\ emissions = <<>> /\ Switch({Root}, {}, on, emissions)
      /\ UNCHANGED <<doing, todo, aborted, wired, globals, late, due>> /\ doing[Root] # "none"
  BY DEF HostSwitches, TurnAllowsCall, runVars, Live
<1>2. on \in BOOLEAN /\ emissions \in Seq(EmissionRecord) /\ Pending = {}
      /\ {Root} \in SUBSET Processor /\ {} \in SUBSET Processor /\ Root \in Processor
  BY <1>1, TreeFacts DEF TreeInv, Pending, ToSet
<1>3. Switched({Root} \cup {}, on, emissions)
  <2>. HIDE DEF on
  <2>. QED BY <1>1, <1>2, SwitchAdds
<1>4. changed \subseteq {Root} /\ paused \in [Processor -> BOOLEAN] /\ wired \subseteq Child
      /\ bornPaused \subseteq Child
  BY TreeTypes DEF Differing, TreeInv
<1>5. /\ paused' = [p \in Processor |-> IF p \in changed THEN on ELSE paused[p]]
      /\ Pending' = {Emission(p, Word(on), p) : p \in changed}
      /\ bornPaused' = bornPaused \ UNION {Children(p) : p \in changed}
  BY <1>2, <1>3 DEF Switched, Pending
<1>6. /\ e.at = Root /\ e.event \in Control /\ (e.event = "pause" <=> on)
      /\ e.to = wired \cap (Children(Root) \cup {Root})
  <2>. HIDE DEF on
  <2>. QED BY <1>2, SignalTyped
<1>. HIDE DEF changed, on, e
<1>7. CASE changed = {}
  <2>1. Pending' = {} /\ paused' = paused /\ bornPaused' = bornPaused
    BY <1>4, <1>5, <1>7
  <2>2. Quiet
    BY <1>1, <1>2, <2>1 DEF Quiet, Signals
  <2>. QED BY <2>2, QuietStep
<1>8. CASE changed = {Root}
  <2>1. Pending' = {e} /\ Signals' = {e} /\ Signals = {}
    BY <1>2, <1>5, <1>6, <1>8 DEF Signals, e
  <2>2. paused'[Root] = on /\ \A p \in Processor : p # Root => paused'[p] = paused[p]
    BY <1>2, <1>5, <1>8
  <2>3. bornPaused' = bornPaused \ Children(Root)
    BY <1>5, <1>8
  <2>4. \A c \in Child : c \in Processor /\ c # Root /\ ParentOf[c] \in Processor
                         /\ (c \in Children(Root) <=> ParentOf[c] = Root)
    BY TreeFacts
  <2>5. WaveInv'
    <3>1. \A p \in e.to \cup {e.at} : doing'[p] # "none"
      BY <1>1, <1>6, HearersAreOn
    <3>. QED BY <1>2, <1>6, <2>1, <2>2, <3>1 DEF WaveInv
  <2>6. BornInv'
    BY <1>4, <1>6, <2>1, <2>2, <2>3, <2>4 DEF PauseInv, BornInv
  <2>7. EdgeInv'
    <3>. SUFFICES ASSUME NEW c \in wired, paused'[c] # paused'[ParentOf[c]]
                  PROVE  \/ c \in bornPaused'
                         \/ \E f \in Signals' : f.at = ParentOf[c] /\ c \in f.to
      BY <1>1 DEF EdgeInv
    <3>1. c \in Child
      BY <1>4
    <3>2. CASE ParentOf[c] = Root
      BY <1>6, <2>1, <2>4, <3>1, <3>2
    <3>3. CASE ParentOf[c] # Root
      BY <2>1, <2>2, <2>3, <2>4, <3>1, <3>3 DEF PauseInv, EdgeInv
    <3>. QED BY <3>2, <3>3
  <2>. QED BY <2>5, <2>6, <2>7 DEF PauseInv
<1>. QED BY <1>4, <1>7, <1>8

(* The parent of who hears its own change has made it before. *)
LEMMA ParentKnows ==
  ASSUME TreeInv, PauseInv, NEW e \in Signals, e.at \in wired
  PROVE  paused[ParentOf[e.at]] = (e.event = "pause")
<1>1. paused \in [Processor -> BOOLEAN] /\ e.at \in Processor /\ ParentOf[e.at] \in Processor
  BY TreeTypes, HearersAreOn DEF TreeInv
<1>2. paused[e.at] <=> e.event = "pause"
  BY DEF PauseInv, WaveInv
<1>3. ASSUME paused[e.at] # paused[ParentOf[e.at]] PROVE FALSE
  <2>1. CASE e.at \in bornPaused
    BY <2>1 DEF PauseInv, BornInv
  <2>2. CASE \E f \in Signals : f.at = ParentOf[e.at]
    BY <1>1, <1>2, <1>3, <2>2 DEF PauseInv, WaveInv
  <2>. QED BY <1>3, <2>1, <2>2 DEF PauseInv, EdgeInv
<1>. QED BY <1>1, <1>2, <1>3

LEMMA DeliverControlPause ==
  ASSUME TreeInv, PauseInv, NEW e \in Signals, NEW queue \in Seq(EmissionRecord),
         Pending = {e} \cup ToSet(queue), DeliverControl(e, queue)
  PROVE  PauseInv'
<1>. DEFINE hears == e.to \cap wired
            up == IF e.at \in hears THEN {ParentOf[e.at]} ELSE {}
            others == hears \ {e.at}
            on == e.event = "pause"
            changed == {p \in others : paused[p] # on}
<1>1. /\ e.at \in Processor /\ e.to \subseteq Children(e.at) \cup {e.at} /\ e.event \in Control
      /\ paused \in [Processor -> BOOLEAN] /\ wired \subseteq Child /\ bornPaused \subseteq Child
      /\ e \in Pending
  BY PendingTyped, TreeTypes DEF TreeInv, PauseInv, WaveInv, Signals
<1>2. paused[e.at] = on /\ Word(on) = e.event
  BY <1>1 DEF PauseInv, WaveInv, Word, Control
<1>3. \A p \in up : paused[p] = on
  BY ParentKnows
<1>4. Switch(up, others, on, queue) /\ UNCHANGED <<doing, aborted, wired, due>>
  BY DEF DeliverControl
<1>5. up \in SUBSET Processor /\ others \in SUBSET Processor /\ on \in BOOLEAN
      /\ others \subseteq Children(e.at) \cap wired
  BY <1>1, HearersAreOn
<1>6. Differing(up \cup others, on) = changed
  BY <1>3 DEF Differing
<1>7. \A p \in changed : /\ p \in Child /\ p \in Processor /\ p \in wired /\ p \in e.to
                         /\ ParentOf[p] = e.at /\ paused[p] # on
  BY <1>1, <1>5, TreeFacts
<1>8. \A c \in wired : c \in e.to /\ ParentOf[c] = e.at /\ paused[c] # on => c \in changed
  <2>1. \A c \in Child : ParentOf[c] # c
    BY LineOfChild, LineClosed, TreeFacts
  <2>. QED BY <1>1, <2>1
<1>. HIDE DEF up, others, on, changed
<1>9. Switched(up \cup others, on, queue)
  BY <1>4, <1>5, SwitchAdds
<1>. DEFINE told(p) == Emission(p, Word(on), p)
<1>10. /\ paused' = [p \in Processor |-> IF p \in changed THEN on ELSE paused[p]]
       /\ Pending' = ToSet(queue) \cup {told(p) : p \in changed}
       /\ bornPaused' = bornPaused \ UNION {Children(p) : p \in changed}
  BY <1>6, <1>9 DEF Switched
<1>11. \A p \in changed : /\ told(p).at = p /\ told(p).event = e.event
                          /\ told(p).to = wired \cap (Children(p) \cup {p})
  BY <1>2, <1>5, <1>7, SignalTyped
<1>. HIDE DEF told
<1>12. Signals' = (Signals \cap ToSet(queue)) \cup {told(p) : p \in changed}
  <2>1. Signals' = {f \in Pending' : f.event \in Control}
        /\ Signals = {f \in Pending : f.event \in Control}
    BY DEF Signals
  <2>. QED BY <1>1, <1>10, <1>11, <2>1
<1>13. \A p \in Processor : /\ p \in changed => paused'[p] = on
                            /\ p \notin changed => paused'[p] = paused[p]
  BY <1>10
<1>14. \A c \in Child : c \in Processor /\ ParentOf[c] \in Processor
                        /\ \A p \in Processor : c \in Children(p) <=> ParentOf[c] = p
  BY TreeFacts
<1>15. on <=> e.event = "pause"
  BY DEF on
<1>16. \A f \in Signals : /\ f.at \in Processor /\ f.event = e.event
                          /\ (paused[f.at] <=> on)
                          /\ f.to \subseteq Children(f.at) \cup {f.at}
                          /\ \A p \in f.to \cup {f.at} : p \in Processor /\ doing[p] # "none"
  BY <1>15, PendingTyped DEF PauseInv, WaveInv, Signals
<1>17. e.at \notin changed
  BY <1>2, <1>7
<1>18. WaveInv'
  <2>1. \A f \in Signals' : f.event = e.event
    BY <1>11, <1>12, <1>16
  <2>2. ASSUME NEW f \in Signals \cap ToSet(queue)
        PROVE  /\ paused'[f.at] <=> f.event = "pause"
               /\ f.to \subseteq Children(f.at) \cup {f.at}
               /\ \A p \in f.to \cup {f.at} : doing'[p] # "none"
    BY <1>1, <1>4, <1>7, <1>13, <1>15, <1>16
  <2>3. ASSUME NEW p \in changed
        PROVE  /\ paused'[told(p).at] <=> told(p).event = "pause"
               /\ told(p).to \subseteq Children(told(p).at) \cup {told(p).at}
               /\ \A q \in told(p).to \cup {told(p).at} : doing'[q] # "none"
    BY <1>4, <1>7, <1>11, <1>13, <1>15, HearersAreOn
  <2>. QED BY <1>12, <2>1, <2>2, <2>3 DEF WaveInv
<1>19. BornInv'
  <2>. SUFFICES ASSUME NEW c \in bornPaused'
                PROVE  /\ paused'[ParentOf[c]] /\ ~ paused'[c]
                       /\ \A f \in Signals' : f.at # c /\ c \notin f.to
    BY DEF BornInv
  <2>1. /\ c \in bornPaused /\ c \in Child /\ c \in Processor /\ ParentOf[c] \in Processor
        /\ ParentOf[c] \notin changed
    <3>1. c \in bornPaused /\ \A p \in changed : c \notin Children(p)
      BY <1>10
    <3>. QED BY <1>1, <1>7, <1>14, <3>1
  <2>2. /\ paused[ParentOf[c]] /\ ~ paused[c]
        /\ \A f \in Signals : f.at # c /\ c \notin f.to
    BY <2>1 DEF PauseInv, BornInv
  <2>3. c \notin changed
    BY <1>7, <2>2
  <2>4. \A p \in changed : told(p).at # c /\ c \notin told(p).to
    BY <1>7, <1>11, <1>14, <2>1, <2>3
  <2>. QED BY <1>12, <1>13, <2>1, <2>2, <2>3, <2>4
<1>20. EdgeInv'
  <2>. SUFFICES ASSUME NEW c \in wired, paused'[c] # paused'[ParentOf[c]]
                PROVE  \/ c \in bornPaused'
                       \/ \E f \in Signals' : f.at = ParentOf[c] /\ c \in f.to
    BY <1>4 DEF EdgeInv
  <2>1. c \in Child /\ c \in Processor /\ ParentOf[c] \in Processor
    BY <1>1, <1>14
  <2>2. CASE ParentOf[c] \in changed
    <3>1. told(ParentOf[c]).at = ParentOf[c] /\ c \in told(ParentOf[c]).to
      BY <1>11, <1>14, <2>1, <2>2
    <3>. QED BY <1>12, <2>2, <3>1
  <2>3. CASE ParentOf[c] \notin changed /\ c \in changed
    BY <1>2, <1>7, <1>13, <2>1, <2>3
  <2>4. CASE ParentOf[c] \notin changed /\ c \notin changed
    <3>1. paused[c] # paused[ParentOf[c]]
      BY <1>13, <2>1, <2>4
    <3>2. CASE c \in bornPaused
      <4>1. \A p \in changed : c \notin Children(p)
        BY <1>7, <1>14, <2>1, <2>4
      <4>. QED BY <1>10, <3>2, <4>1
    <3>3. CASE \E f \in Signals : f.at = ParentOf[c] /\ c \in f.to
      <4>1. PICK f \in Signals : f.at = ParentOf[c] /\ c \in f.to
        BY <3>3
      <4>2. CASE f \in ToSet(queue)
        BY <1>12, <4>1, <4>2
      <4>3. CASE f = e
        BY <1>2, <1>8, <2>4, <3>1, <4>1, <4>3
      <4>. QED BY <4>1, <4>2, <4>3 DEF Signals
    <3>. QED BY <3>1, <3>2, <3>3 DEF PauseInv, EdgeInv
  <2>. QED BY <2>2, <2>3, <2>4
<1>. QED BY <1>18, <1>19, <1>20 DEF PauseInv

LEMMA PauseStep ==
  ASSUME OneCallPerTurn, TreeInv, PauseInv, [TreeNext]_treeVars PROVE PauseInv'
<1>1. ASSUME NEW p \in Processor, Work(p) PROVE PauseInv'
  <2>1. CASE NodeStep(p)
    <3>1. Quiet \/ (CreateSubProcessors(p) /\ doing[p] \in {"gate", "working"})
      BY <2>1, NodeStepInv
    <3>. QED BY <3>1, QuietStep, CreationPause
  <2>. QED BY <1>1, <2>1, NodeEndsInv, GraphEndsInv, ChildSettlesInv, QuietStep DEF Work
<1>2. CASE Deliver
  <2>1. CASE Head(emissions).event \in Control
    <3>. DEFINE e == Head(emissions)
                queue == Tail(emissions)
    <3>1. e \in Pending /\ queue \in Seq(EmissionRecord) /\ Pending = {e} \cup ToSet(queue)
      BY <1>2, Delivery DEF Deliver
    <3>2. DeliverControl(e, queue)
      BY <1>2, <2>1 DEF Deliver, Control
    <3>3. e \in Signals
      BY <2>1, <3>1 DEF Signals
    <3>. HIDE DEF e, queue
    <3>. QED BY <3>1, <3>2, <3>3, DeliverControlPause
  <2>2. CASE Head(emissions).event \notin Control
    BY <1>2, <2>2, DeliverInv, QuietStep
  <2>. QED BY <2>1, <2>2
<1>3. CASE HostAborts
  BY <1>3, HostAbortsInv, QuietStep
<1>4. CASE RaiseEvent
  BY <1>4, RaiseEventInv, QuietStep
<1>5. ASSUME NEW p \in Processor, UserInput(p) PROVE PauseInv'
  BY <1>5, UserInputInv, QuietStep
<1>6. CASE UNCHANGED treeVars
  <2>1. Quiet
    BY <1>6 DEF treeVars, runVars, stateVars, Quiet, Signals, Pending
  <2>. QED BY <2>1, QuietStep
<1>. QED BY <1>1, <1>2, <1>3, <1>4, <1>5, <1>6, HostSwitchesPause DEF TreeNext

LEMMA PausedTogether == ASSUME TreeInv, PauseInv PROVE TreePausesAsOne
<1>. SUFFICES ASSUME emissions = <<>>, NEW c \in Child, Live(c), ~ aborted[c]
              PROVE  /\ paused[c] => paused[ParentOf[c]]
                     /\ paused[ParentOf[c]] => paused[c] \/ c \in bornPaused
  BY DEF TreePausesAsOne, NobodyLeftPaused, PauseIsShared, Child
<1>1. Signals = {}
  BY DEF Signals, Pending, ToSet
<1>2. c \in wired /\ paused[c] \in BOOLEAN /\ paused[ParentOf[c]] \in BOOLEAN
  BY TreeTypes, TreeFacts DEF TreeInv, WiredInv
<1>3. paused[c] # paused[ParentOf[c]] => c \in bornPaused
  BY <1>1, <1>2 DEF PauseInv, EdgeInv
<1>. QED BY <1>2, <1>3 DEF PauseInv, BornInv

(* When the host pauses and resumes between turns, the tree answers as one once
   the events are out: every subgraph that can go on is paused with its parent
   and resumed with it, but for those that a node creates during the pause.
   Of the listeners of pause and resume in createSubProcessor, with a subgraph
   ending or aborting and others created while the events travel. *)
THEOREM TreePausesTogether == ASSUME OneCallPerTurn PROVE TreeSpec => []TreePausesAsOne
<1>1. TreeInit => PauseInv
  BY DEF TreeInit, PauseInv, WaveInv, BornInv, EdgeInv, Signals, Pending, ToSet
<1>2. TreeInv /\ PauseInv /\ [TreeNext]_treeVars => PauseInv'
  BY PauseStep
<1>3. TreeInv /\ PauseInv => TreePausesAsOne
  BY PausedTogether
<1>. QED BY <1>1, <1>2, <1>3, TreeInvariance, PTL DEF TreeSpec

-----------------------------------------------------------------------------
(***************************************************************************)
(* The debugger server.  Lists of processors in which none is twice.       *)
(***************************************************************************)
Once(s) == \A i, j \in DOMAIN s : s[i] = s[j] => i = j

LEMMA AppendOnce ==
  ASSUME NEW S, NEW s \in Seq(S), Once(s), NEW e \in S, e \notin ToSet(s)
  PROVE  Append(s, e) \in Seq(S) /\ Once(Append(s, e)) /\ ToSet(Append(s, e)) = ToSet(s) \cup {e}
<1>. DEFINE t == Append(s, e)
<1>1. t \in Seq(S) /\ Len(t) = Len(s) + 1 /\ Len(s) \in Nat
  BY AppendProperties, LenProperties
<1>2. DOMAIN t = 1 .. (Len(s) + 1) /\ DOMAIN s = 1 .. Len(s)
  BY <1>1, LenProperties
<1>3. (\A i \in DOMAIN s : t[i] = s[i]) /\ t[Len(s) + 1] = e
  BY <1>2, AppendProperties
<1>. HIDE DEF t
<1>4. ToSet(t) = ToSet(s) \cup {e}
  BY <1>1, <1>2, <1>3 DEF ToSet
<1>5. Once(t)
  BY <1>1, <1>2, <1>3 DEF Once, ToSet
<1>. QED BY <1>1, <1>4, <1>5 DEF t

LEMMA TailOnce ==
  ASSUME NEW S, NEW s \in Seq(S), Once(s), s # <<>>
  PROVE  /\ Head(s) \in S /\ Tail(s) \in Seq(S) /\ Once(Tail(s))
         /\ ToSet(Tail(s)) = ToSet(s) \ {Head(s)}
<1>. DEFINE t == Tail(s)
<1>1. t \in Seq(S) /\ Head(s) \in S /\ Len(t) = Len(s) - 1 /\ Len(s) \in Nat /\ Len(s) > 0
  BY HeadTailProperties, LenProperties, EmptySeq
<1>2. DOMAIN t = 1 .. (Len(s) - 1) /\ DOMAIN s = 1 .. Len(s) /\ Head(s) = s[1]
  BY <1>1, LenProperties
<1>3. \A i \in DOMAIN t : t[i] = s[i + 1]
  BY <1>1, <1>2, HeadTailProperties
<1>. HIDE DEF t
<1>4. Once(t)
  <2>. SUFFICES ASSUME NEW i \in DOMAIN t, NEW j \in DOMAIN t, t[i] = t[j] PROVE i = j
    BY DEF Once
  <2>1. i + 1 \in DOMAIN s /\ j + 1 \in DOMAIN s
    BY <1>1, <1>2
  <2>2. i + 1 = j + 1
    BY <1>3, <2>1 DEF Once
  <2>. QED BY <1>1, <1>2, <2>2
<1>5. ToSet(t) \subseteq ToSet(s) \ {Head(s)}
  BY <1>1, <1>2, <1>3 DEF Once, ToSet
<1>6. ASSUME NEW i \in DOMAIN s, s[i] # Head(s) PROVE s[i] \in ToSet(t)
  <2>1. i # 1 /\ i - 1 \in DOMAIN t
    BY <1>1, <1>2, <1>6
  <2>2. t[i - 1] = s[i]
    BY <1>1, <1>2, <1>3, <2>1
  <2>. QED BY <2>1, <2>2 DEF ToSet
<1>. QED BY <1>1, <1>4, <1>5, <1>6 DEF ToSet, t

LEMMA RemoveOnce ==
  ASSUME NEW S, NEW s \in Seq(S), Once(s), NEW e \in S
  PROVE  /\ RemoveFirst(s, e) \in Seq(S) /\ Once(RemoveFirst(s, e))
         /\ ToSet(RemoveFirst(s, e)) = ToSet(s) \ {e}
<1>1. Len(s) \in Nat /\ DOMAIN s = 1 .. Len(s)
  BY LenProperties
<1>2. CASE e \notin ToSet(s)
  BY <1>1, <1>2 DEF RemoveFirst, ToSet
<1>3. CASE e \in ToSet(s)
  <2>1. PICK k \in 1 .. Len(s) : s[k] = e
    BY <1>1, <1>3 DEF ToSet
  <2>2. {i \in 1 .. Len(s) : s[i] = e} = {k}
    BY <1>1, <2>1 DEF Once
  <2>3. RemoveFirst(s, e) = RemoveAt(s, k)
    <3>1. SelectInSeq(s, LAMBDA v : v = e) = k
      BY <2>2 DEF SelectInSeq, Min
    <3>. QED BY <2>1, <3>1 DEF RemoveFirst
  <2>. DEFINE t == RemoveAt(s, k)
              u == SubSeq(s, 1, k - 1)
              v == SubSeq(s, k + 1, Len(s))
  <2>4. /\ u \in Seq(S) /\ Len(u) = k - 1 /\ v \in Seq(S) /\ Len(v) = Len(s) - k
        /\ \A i \in 1 .. (k - 1) : u[i] = s[i]
        /\ \A i \in 1 .. (Len(s) - k) : v[i] = s[k + i]
    <3>1. k \in Int /\ k - 1 \in Int /\ k + 1 \in Int /\ 1 \in Int /\ Len(s) \in Int
      BY <1>1, <2>1
    <3>2. /\ \A i \in 1 .. (k - 1) : s[i] \in S
          /\ \A i \in (k + 1) .. Len(s) : s[i] \in S
      BY <1>1, <2>1, ElementOfSeq
    <3>3. /\ u \in Seq(S) /\ Len(u) = IF 1 <= k - 1 THEN (k - 1) - 1 + 1 ELSE 0
          /\ \A i \in 1 .. ((k - 1) - 1 + 1) : u[i] = s[1 + i - 1]
      BY <3>1, <3>2, SubSeqProperties
    <3>4. /\ v \in Seq(S) /\ Len(v) = IF k + 1 <= Len(s) THEN Len(s) - (k + 1) + 1 ELSE 0
          /\ \A i \in 1 .. (Len(s) - (k + 1) + 1) : v[i] = s[(k + 1) + i - 1]
      BY <3>1, <3>2, SubSeqProperties
    <3>. HIDE DEF u, v
    <3>5. Len(u) = k - 1 /\ Len(v) = Len(s) - k
      <4>1. k \in Int /\ 1 <= k /\ k <= Len(s) /\ Len(s) \in Int
        BY <1>1, <2>1
      <4>2. Len(u) = k - 1
        BY <3>3, <4>1
      <4>3. Len(v) = Len(s) - k
        BY <3>4, <4>1
      <4>. QED BY <4>2, <4>3
    <3>6. ASSUME NEW i \in 1 .. (k - 1) PROVE u[i] = s[i]
      <4>1. i \in 1 .. ((k - 1) - 1 + 1) /\ 1 + i - 1 = i
        BY <2>1
      <4>2. u[i] = s[1 + i - 1]
        BY <3>3, <4>1
      <4>. QED BY <4>1, <4>2
    <3>7. ASSUME NEW i \in 1 .. (Len(s) - k) PROVE v[i] = s[k + i]
      <4>1. i \in 1 .. (Len(s) - (k + 1) + 1) /\ (k + 1) + i - 1 = k + i
        BY <1>1, <2>1
      <4>2. v[i] = s[(k + 1) + i - 1]
        BY <3>4, <4>1
      <4>. QED BY <4>1, <4>2
    <3>. QED BY <3>3, <3>4, <3>5, <3>6, <3>7
  <2>5. t = u \o v
    BY DEF RemoveAt
  <2>. HIDE DEF t, u, v
  <2>6. /\ t \in Seq(S) /\ Len(t) = Len(s) - 1 /\ DOMAIN t = 1 .. (Len(s) - 1)
        /\ \A i \in 1 .. (Len(s) - 1) : t[i] = IF i < k THEN s[i] ELSE s[i + 1]
    <3>1. /\ t \in Seq(S) /\ Len(t) = Len(u) + Len(v)
          /\ \A i \in 1 .. (Len(u) + Len(v)) : t[i] = IF i <= Len(u) THEN u[i] ELSE v[i - Len(u)]
      BY <2>4, <2>5, ConcatProperties
    <3>2. Len(t) = Len(s) - 1 /\ DOMAIN t = 1 .. (Len(s) - 1)
      BY <1>1, <2>1, <2>4, <3>1, LenProperties
    <3>3. ASSUME NEW i \in 1 .. (Len(s) - 1)
          PROVE  t[i] = IF i < k THEN s[i] ELSE s[i + 1]
      <4>0. /\ i \in 1 .. (Len(u) + Len(v)) /\ i \in Int /\ k \in Int
            /\ (i <= Len(u) <=> i < k) /\ i - Len(u) = i - (k - 1)
        BY <1>1, <2>1, <2>4
      <4>3. t[i] = IF i <= Len(u) THEN u[i] ELSE v[i - Len(u)]
        BY <3>1, <4>0
      <4>1. CASE i < k
        <5>1. i \in 1 .. (k - 1)
          BY <4>0, <4>1
        <5>. QED BY <2>4, <4>0, <4>1, <4>3, <5>1
      <4>2. CASE i >= k
        <5>1. i - (k - 1) \in 1 .. (Len(s) - k) /\ k + (i - (k - 1)) = i + 1
          BY <1>1, <2>1, <4>2
        <5>2. t[i] = v[i - (k - 1)]
          <6>1. ~ (i <= Len(u))
            BY <4>0, <4>2
          <6>. QED BY <4>0, <4>3, <6>1
        <5>3. v[i - (k - 1)] = s[k + (i - (k - 1))]
          BY <2>4, <5>1
        <5>. QED BY <1>1, <2>1, <4>2, <5>1, <5>2, <5>3
      <4>. QED BY <4>0, <4>1, <4>2
    <3>. QED BY <3>1, <3>2, <3>3
  <2>7. Once(t)
    <3>. SUFFICES ASSUME NEW i \in DOMAIN t, NEW j \in DOMAIN t, t[i] = t[j] PROVE i = j
      BY DEF Once
    <3>. DEFINE at(m) == IF m < k THEN m ELSE m + 1
    <3>1. /\ i \in Int /\ j \in Int /\ at(i) \in DOMAIN s /\ at(j) \in DOMAIN s
          /\ t[i] = s[at(i)] /\ t[j] = s[at(j)]
      BY <1>1, <2>1, <2>6
    <3>2. at(i) = at(j)
      BY <3>1 DEF Once
    <3>. QED BY <2>1, <3>1, <3>2
  <2>8. ToSet(t) \subseteq ToSet(s) \ {e}
    BY <1>1, <2>1, <2>6 DEF Once, ToSet
  <2>9. ASSUME NEW i \in DOMAIN s, s[i] # e PROVE s[i] \in ToSet(t)
    <3>1. CASE i < k
      <4>1. i \in DOMAIN t /\ t[i] = s[i]
        BY <1>1, <2>1, <2>6, <3>1
      <4>. QED BY <4>1 DEF ToSet
    <3>2. CASE i > k
      <4>1. i - 1 \in DOMAIN t /\ t[i - 1] = s[i]
        BY <1>1, <2>1, <2>6, <3>2
      <4>. QED BY <4>1 DEF ToSet
    <3>. QED BY <1>1, <2>1, <2>9, <3>1, <3>2
  <2>10. ToSet(t) = ToSet(s) \ {e}
    BY <2>8, <2>9 DEF ToSet
  <2>. QED BY <2>3, <2>6, <2>7, <2>10 DEF t
<1>. QED BY <1>2, <1>3

(***************************************************************************)
(* The sockets.                                                            *)
(***************************************************************************)
SocketTypes ==
  /\ socket \in [Client -> {"none", "open", "closed"}]
  /\ reachable \subseteq Client /\ awaitingPong \subseteq Client /\ unflushed \subseteq Client
  /\ timeouts \in [Client -> SUBSET {"last", "older"}]
  /\ onrequest \in Client \cup {None}
  /\ uploaded \in BOOLEAN

(* Only an open socket is waited for. *)
TimersFit == \A c \in Client : TimerIsOfTheLastPing(c)
HeartbeatInv ==
  /\ TimersFit
  /\ awaitingPong \cup unflushed \subseteq Open

(* The dataset provider sends to a connection as soon as there is one. *)
ConnectedInv == \A c \in Client : socket[c] # "none" => onrequest # None

SocketInv == SocketTypes /\ HeartbeatInv /\ ConnectedInv

(* A socket that was opened is never again what it was before, and one that
   was closed stays so; the newest connection is one that was opened. *)
SocketsAdvance ==
  /\ \A c \in Client : /\ socket[c] # "none" => socket'[c] # "none"
                       /\ socket[c] = "closed" => socket'[c] = "closed"
  /\ onrequest # None => onrequest' # None

LEMMA MarkAliveInv ==
  ASSUME SocketInv, NEW S \in SUBSET Client, MarkAlive(S)
  PROVE  /\ awaitingPong' = awaitingPong \ S
         /\ timeouts' \in [Client -> SUBSET {"last", "older"}]
         /\ TimersFit'
<1>1. /\ awaitingPong' = awaitingPong \ S
      /\ timeouts' = [c \in Client |-> IF c \in S THEN {} ELSE timeouts[c]]
  BY DEF MarkAlive
<1>2. timeouts' \in [Client -> SUBSET {"last", "older"}]
  BY <1>1 DEF SocketInv, SocketTypes
<1>3. \A c \in Client : timeouts'[c] = IF c \in awaitingPong' THEN {"last"} ELSE {}
  BY <1>1 DEF SocketInv, HeartbeatInv, TimersFit, TimerIsOfTheLastPing
<1>. QED BY <1>1, <1>2, <1>3 DEF TimersFit, TimerIsOfTheLastPing

LEMMA ClosedInv ==
  ASSUME SocketInv, NEW c \in Open, Closed(c), UNCHANGED <<reachable, onrequest, uploaded>>
  PROVE  SocketInv' /\ SocketsAdvance
<1>1. /\ socket' = [socket EXCEPT ![c] = "closed"] /\ unflushed' = unflushed \ {c}
      /\ MarkAlive({c}) /\ c \in Client /\ socket[c] = "open"
  BY DEF Closed, Open
<1>2. /\ awaitingPong' = awaitingPong \ {c}
      /\ timeouts' \in [Client -> SUBSET {"last", "older"}]
      /\ TimersFit'
  BY <1>1, MarkAliveInv
<1>3. SocketTypes'
  BY <1>1, <1>2 DEF SocketInv, SocketTypes
<1>4. Open' = Open \ {c}
  BY <1>1 DEF Open, SocketInv, SocketTypes
<1>5. HeartbeatInv'
  BY <1>1, <1>2, <1>4 DEF SocketInv, HeartbeatInv
<1>6. SocketsAdvance
  BY <1>1 DEF SocketsAdvance, SocketInv, SocketTypes
<1>7. ConnectedInv'
  BY <1>1 DEF SocketInv, SocketTypes, ConnectedInv
<1>. QED BY <1>3, <1>5, <1>6, <1>7 DEF SocketInv

(* Signs of life of some open sockets. *)
LEMMA AliveInv ==
  ASSUME SocketInv, NEW S \in SUBSET Client, MarkAlive(S), UNCHANGED <<socket, reachable, onrequest>>,
         uploaded' \in BOOLEAN, unflushed' \subseteq unflushed \cup Open
  PROVE  SocketInv' /\ SocketsAdvance
<1>1. /\ awaitingPong' = awaitingPong \ S
      /\ timeouts' \in [Client -> SUBSET {"last", "older"}]
      /\ TimersFit'
  BY MarkAliveInv
<1>2. Open \subseteq Client /\ Open' = Open
  BY DEF Open
<1>3. SocketTypes'
  BY <1>1, <1>2 DEF SocketInv, SocketTypes
<1>4. HeartbeatInv'
  BY <1>1, <1>2 DEF SocketInv, HeartbeatInv
<1>5. SocketsAdvance
  BY DEF SocketsAdvance
<1>6. ConnectedInv'
  BY DEF SocketInv, ConnectedInv
<1>. QED BY <1>3, <1>4, <1>5, <1>6 DEF SocketInv

LEMMA HearsInv ==
  ASSUME SocketInv, NEW c, Hears(c), UNCHANGED onrequest, uploaded' \in BOOLEAN
  PROVE  SocketInv' /\ SocketsAdvance /\ c \in Open /\ UNCHANGED socket
<1>1. /\ c \in Open /\ {c} \in SUBSET Client /\ MarkAlive({c})
      /\ UNCHANGED <<socket, reachable, unflushed>>
  BY DEF Hears, Open
<1>. QED BY <1>1, AliveInv

LEMMA SendsInv ==
  ASSUME SocketInv, NEW S, SendTo(S), UNCHANGED <<onrequest, uploaded>>
  PROVE  SocketInv' /\ SocketsAdvance /\ UNCHANGED socket
<1>1. /\ S \cap Open \in SUBSET Client /\ MarkAlive(S \cap Open)
      /\ UNCHANGED <<socket, reachable>> /\ unflushed' \subseteq unflushed \cup Open
  BY DEF SendTo, Open
<1>2. uploaded' \in BOOLEAN
  BY DEF SocketInv, SocketTypes
<1>. QED BY <1>1, <1>2, AliveInv

LEMMA BroadcastInv ==
  ASSUME SocketInv, Broadcast, UNCHANGED <<onrequest, uploaded>>
  PROVE  SocketInv' /\ SocketsAdvance /\ UNCHANGED socket
BY SendsInv DEF Broadcast

LEMMA QuietInv ==
  ASSUME SocketInv, UNCHANGED <<socketVars, onrequest, uploaded>>
  PROVE  SocketInv' /\ SocketsAdvance /\ UNCHANGED socket
BY DEF socketVars, SocketInv, SocketTypes, HeartbeatInv, ConnectedInv, TimersFit,
       TimerIsOfTheLastPing, Open, SocketsAdvance

(* What happens to a socket of itself. *)
SocketStep(c) ==
  \/ Connect(c) \/ Disconnect(c) \/ PeerVanishes(c)
  \/ Flushed(c) \/ SendPing(c) \/ Pong(c) \/ TimerFires(c)

LEMMA SendPingInv ==
  ASSUME SocketInv, NEW c \in Client, SendPing(c)
  PROVE  SocketInv' /\ SocketsAdvance
<1>1. CASE c \in Open /\ Closed(c) /\ UNCHANGED <<reachable, onrequest, uploaded>>
  BY <1>1, ClosedInv
<1>2. CASE /\ c \in Open \ awaitingPong
           /\ awaitingPong' = awaitingPong \cup {c}
           /\ timeouts' = [timeouts EXCEPT ![c] = {"last"} \cup (IF @ = {} THEN {} ELSE {"older"})]
           /\ UNCHANGED <<socket, unflushed, reachable, onrequest, uploaded>>
  <2>1. timeouts[c] = {}
    BY <1>2 DEF SocketInv, HeartbeatInv, TimersFit, TimerIsOfTheLastPing
  <2>2. timeouts' = [timeouts EXCEPT ![c] = {"last"}]
    BY <1>2, <2>1
  <2>3. SocketTypes'
    BY <1>2, <2>2 DEF SocketInv, SocketTypes
  <2>4. TimersFit'
    BY <1>2, <2>2 DEF SocketInv, SocketTypes, HeartbeatInv, TimersFit, TimerIsOfTheLastPing
  <2>5. HeartbeatInv' /\ ConnectedInv' /\ SocketsAdvance
    BY <1>2, <2>4 DEF SocketInv, HeartbeatInv, ConnectedInv, Open, SocketsAdvance
  <2>. QED BY <2>3, <2>5 DEF SocketInv
<1>. QED BY <1>1, <1>2 DEF SendPing

LEMMA SocketStepInv ==
  ASSUME SocketInv, NEW c \in Client, SocketStep(c)
  PROVE  SocketInv' /\ SocketsAdvance /\ UNCHANGED <<serverRunVars, controlVars>>
<1>1. CASE Connect(c)
  <2>1. /\ socket[c] = "none" /\ socket' = [socket EXCEPT ![c] = "open"] /\ onrequest' = c
        /\ UNCHANGED <<reachable, awaitingPong, timeouts, unflushed, uploaded, serverRunVars,
                       controlVars>>
    BY <1>1 DEF Connect
  <2>2. SocketTypes' /\ Open \subseteq Open'
    BY <2>1 DEF SocketInv, SocketTypes, Open
  <2>3. HeartbeatInv'
    BY <2>1, <2>2 DEF SocketInv, HeartbeatInv, TimersFit, TimerIsOfTheLastPing
  <2>4. SocketsAdvance
    BY <2>1, ServerAssumption DEF SocketsAdvance, SocketInv, SocketTypes
  <2>5. ConnectedInv'
    BY <2>1, ServerAssumption DEF ConnectedInv
  <2>. QED BY <2>1, <2>2, <2>3, <2>4, <2>5 DEF SocketInv
<1>2. CASE Disconnect(c)
  BY <1>2, ClosedInv DEF Disconnect
<1>3. CASE PeerVanishes(c)
  BY <1>3 DEF PeerVanishes, SocketInv, SocketTypes, HeartbeatInv, ConnectedInv,
              TimersFit, TimerIsOfTheLastPing, Open, SocketsAdvance
<1>4. CASE Flushed(c)
  <2>1. CASE Closed(c)
    BY <1>4, <2>1, ClosedInv DEF Flushed, SocketInv, HeartbeatInv
  <2>2. CASE MarkAlive({c}) /\ unflushed' = unflushed \ {c} /\ UNCHANGED socket
    BY <1>4, <2>2, AliveInv DEF Flushed, SocketInv, SocketTypes
  <2>. QED BY <1>4, <2>1, <2>2 DEF Flushed
<1>5. CASE SendPing(c)
  BY <1>5, SendPingInv DEF SendPing
<1>6. CASE Pong(c)
  BY <1>6, HearsInv DEF Pong, SocketInv, SocketTypes
<1>7. CASE TimerFires(c)
  <2>1. c \in awaitingPong /\ c \in Open
    BY <1>7 DEF TimerFires, SocketInv, HeartbeatInv, TimersFit, TimerIsOfTheLastPing
  <2>. QED BY <1>7, <2>1, ClosedInv DEF TimerFires
<1>. QED BY <1>1, <1>2, <1>3, <1>4, <1>5, <1>6, <1>7 DEF SocketStep

(***************************************************************************)
(* The runs.  A processor is in the server's list, once, from its start to *)
(* its terminal event, and only then can it be paused or waiting for a     *)
(* dataset.                                                                *)
(***************************************************************************)
Served(r) == run[r] \in {"running", "waiting", "drained"}

RequestTypes ==
  /\ client \in [Request -> Client \cup {None}]
  /\ asked \in [Request -> Client \cup {None}]
  /\ run \in [Request -> {"none", "assembling", "running", "waiting", "drained", "over"}]
  /\ answered \subseteq Request
  /\ isPaused \subseteq Request
  /\ attachedProcessors \in Seq(Request)

AttachInv ==
  /\ Once(attachedProcessors)
  /\ Attached = {r \in Request : Served(r)}
  /\ isPaused \subseteq Attached

(* No terminal message of r is lost, and none is sent before its run is over. *)
AnswerInv(r) ==
  /\ run[r] = "over" => r \in answered \/ socket[client[r]] = "closed"
  /\ r \in answered => run[r] = "over"

RequestOK(r) ==
  /\ run[r] = "none" <=> client[r] = None
  /\ run[r] # "none" => socket[client[r]] # "none"
  /\ AnswerInv(r)
  /\ asked[r] # None => Served(r)
  /\ run[r] = "waiting" => asked[r] # None

(* Each abort message goes over the processors it found, once, and they had
   been started. *)
AbortTypes ==
  /\ abortedBy \in [Request -> AbortMessage \cup {None}]
  /\ abortLoop \in [AbortMessage -> Seq(Request)]

AbortInv ==
  /\ \A m \in AbortMessage : Once(abortLoop[m])
  /\ \A r \in Request :
       run[r] \in {"none", "assembling"} =>
         abortedBy[r] = None /\ \A m \in AbortMessage : r \notin ToSet(abortLoop[m])

ServerRunInv ==
  /\ RequestTypes /\ AttachInv
  /\ \A r \in Request : RequestOK(r)
  /\ AbortTypes /\ AbortInv

ServerInv == SocketInv /\ ServerRunInv

LEMMA RequestKept ==
  ASSUME SocketTypes, RequestTypes, NEW r \in Request, RequestOK(r), SocketsAdvance,
         client'[r] = client[r], run'[r] = run[r], asked'[r] = asked[r],
         r \in answered' <=> r \in answered
  PROVE  RequestOK(r)'
<1>1. client[r] \in Client \cup {None} /\ (run[r] = "none" <=> client[r] = None)
  BY DEF RequestTypes, RequestOK
<1>2. run[r] # "none" => client[r] \in Client /\ socket'[client[r]] # "none"
  BY <1>1 DEF RequestOK, SocketsAdvance
<1>3. run[r] = "over" => r \in answered \/ socket'[client[r]] = "closed"
  BY <1>1 DEF RequestOK, AnswerInv, SocketsAdvance
<1>. QED BY <1>1, <1>2, <1>3 DEF RequestOK, AnswerInv, Served

(* The sockets' own steps leave the runs as they were. *)
LEMMA RunsKept ==
  ASSUME SocketTypes, ServerRunInv, SocketsAdvance, UNCHANGED <<serverRunVars, controlVars>>
  PROVE  ServerRunInv'
<1>1. UNCHANGED <<client, run, asked, answered, attachedProcessors, isPaused, abortedBy, abortLoop>>
  BY DEF serverRunVars, controlVars
<1>2. RequestTypes' /\ AttachInv' /\ AbortTypes' /\ AbortInv'
  BY <1>1 DEF ServerRunInv, RequestTypes, AttachInv, Attached, Served, AbortTypes, AbortInv
<1>3. ASSUME NEW r \in Request PROVE RequestOK(r)'
  BY <1>1, <1>3, RequestKept DEF ServerRunInv
<1>. QED BY <1>2, <1>3 DEF ServerRunInv

LEMMA UploadInv ==
  ASSUME ServerInv, NEW c \in Client, Upload(c)
  PROVE  ServerInv'
BY HearsInv, RunsKept DEF Upload, ServerInv, SocketInv

LEMMA ProgressInv ==
  ASSUME ServerInv, NEW r \in Request, Progress(r)
  PROVE  ServerInv'
BY BroadcastInv, RunsKept DEF Progress, ServerInv, SocketInv

(* An answer is sent unless the client's socket is closed. *)
LEMMA AnswerSent ==
  ASSUME SocketTypes, NEW r \in Request, Answer(r), client'[r] \in Client, socket[client'[r]] # "none"
  PROVE  /\ answered' \subseteq answered \cup {r} /\ answered \subseteq answered'
         /\ r \in answered' \/ socket[client'[r]] = "closed"
BY DEF Answer, Open, SocketTypes

LEMMA RunRequestedInv ==
  ASSUME ServerInv, NEW c \in Client, NEW r \in Request, RunRequested(c, r)
  PROVE  ServerInv'
<1>1. /\ run[r] = "none" /\ Hears(c)
      /\ client' = [client EXCEPT ![r] = c]
      /\ UNCHANGED <<onrequest, uploaded, asked, attachedProcessors, isPaused, abortedBy, abortLoop>>
  BY DEF RunRequested, controlVars
<1>2. /\ SocketInv' /\ SocketsAdvance /\ UNCHANGED socket /\ c \in Open
      /\ SocketTypes
  <2>1. SocketInv /\ uploaded' \in BOOLEAN
    BY <1>1 DEF ServerInv, SocketInv, SocketTypes
  <2>. QED BY <1>1, <2>1, HearsInv DEF SocketInv
<1>3. PICK s \in {"assembling", "over"} :
        /\ run' = [run EXCEPT ![r] = s]
        /\ IF s = "over" THEN Answer(r) ELSE UNCHANGED answered
  BY DEF RunRequested
<1>4. /\ ServerRunInv /\ RequestTypes /\ AttachInv /\ AbortTypes /\ AbortInv
      /\ \A q \in Request : RequestOK(q)
  BY DEF ServerInv, ServerRunInv
<1>5. client'[r] = c /\ socket[c] = "open" /\ c # None /\ run'[r] = s
  <2>1. c \in Client /\ c # None /\ socket[c] = "open"
    BY <1>2, ServerAssumption DEF Open
  <2>. QED BY <1>1, <1>3, <1>4, <2>1 DEF RequestTypes
<1>6. /\ answered' \subseteq answered \cup {r} /\ answered \subseteq answered'
      /\ s = "over" => r \in answered'
      /\ s # "over" => answered' = answered
  BY <1>2, <1>3, <1>5, AnswerSent
<1>7. RequestTypes'
  BY <1>1, <1>3, <1>4, <1>6 DEF RequestTypes
<1>8. AttachInv'
  BY <1>1, <1>3, <1>4 DEF AttachInv, Attached, Served, RequestTypes
<1>9. ASSUME NEW q \in Request PROVE RequestOK(q)'
  <2>1. CASE q = r
    <3>1. r \notin answered /\ asked[r] = None
      BY <1>1, <1>4 DEF RequestOK, AnswerInv, Served
    <3>. QED BY <1>1, <1>2, <1>3, <1>5, <1>6, <2>1, <3>1 DEF RequestOK, AnswerInv, Served
  <2>2. CASE q # r
    <3>1. /\ client'[q] = client[q] /\ run'[q] = run[q] /\ asked'[q] = asked[q]
          /\ q \in answered' <=> q \in answered
      BY <1>1, <1>3, <1>4, <1>6, <2>2 DEF RequestTypes
    <3>. QED BY <1>2, <1>4, <3>1, RequestKept
  <2>. QED BY <2>1, <2>2
<1>10. AbortTypes' /\ AbortInv'
  BY <1>1, <1>3, <1>4 DEF AbortTypes, AbortInv, RequestTypes
<1>. QED BY <1>2, <1>7, <1>8, <1>9, <1>10 DEF ServerInv, ServerRunInv

LEMMA AssembledInv ==
  ASSUME ServerInv, NEW r \in Request, Assembled(r)
  PROVE  ServerInv'
<1>1. /\ run[r] = "assembling"
      /\ UNCHANGED <<client, socketVars, onrequest, uploaded, asked, isPaused, abortedBy, abortLoop>>
  BY DEF Assembled, controlVars
<1>2. SocketInv' /\ SocketsAdvance /\ UNCHANGED socket /\ SocketTypes
  BY <1>1, QuietInv DEF ServerInv, SocketInv
<1>3. /\ ServerRunInv /\ RequestTypes /\ AttachInv /\ AbortTypes /\ AbortInv
      /\ \A q \in Request : RequestOK(q)
  BY DEF ServerInv, ServerRunInv
<1>4. PICK s \in {"running", "over"} :
        /\ run' = [run EXCEPT ![r] = s]
        /\ s = "running" => attachedProcessors' = Append(attachedProcessors, r) /\ UNCHANGED answered
        /\ s = "over" => Answer(r) /\ UNCHANGED attachedProcessors
  BY DEF Assembled
<1>5. client'[r] \in Client /\ socket[client'[r]] # "none" /\ run'[r] = s
  BY <1>1, <1>3, <1>4 DEF RequestOK, RequestTypes
<1>6. /\ answered' \subseteq answered \cup {r} /\ answered \subseteq answered'
      /\ s = "over" => r \in answered' \/ socket[client'[r]] = "closed"
      /\ s # "over" => answered' = answered
  BY <1>2, <1>4, <1>5, AnswerSent
<1>7. r \notin Attached
  BY <1>1, <1>3 DEF AttachInv, Served
<1>8. /\ attachedProcessors' \in Seq(Request) /\ Once(attachedProcessors')
      /\ Attached' = IF s = "running" THEN Attached \cup {r} ELSE Attached
  <2>1. attachedProcessors \in Seq(Request) /\ Once(attachedProcessors)
    BY <1>3 DEF RequestTypes, AttachInv
  <2>2. CASE s = "running"
    <3>1. attachedProcessors' = Append(attachedProcessors, r)
      BY <1>4, <2>2
    <3>2. /\ Append(attachedProcessors, r) \in Seq(Request) /\ Once(Append(attachedProcessors, r))
          /\ ToSet(Append(attachedProcessors, r)) = ToSet(attachedProcessors) \cup {r}
      BY <1>7, <2>1, AppendOnce DEF Attached
    <3>. QED BY <2>2, <3>1, <3>2 DEF Attached
  <2>3. CASE s = "over"
    BY <1>4, <2>1, <2>3 DEF Attached
  <2>. QED BY <2>2, <2>3
<1>9. RequestTypes'
  BY <1>1, <1>3, <1>4, <1>6, <1>8 DEF RequestTypes
<1>10. AttachInv'
  BY <1>1, <1>3, <1>4, <1>8 DEF AttachInv, Served, RequestTypes
<1>11. ASSUME NEW q \in Request PROVE RequestOK(q)'
  <2>1. CASE q = r
    <3>1. r \notin answered /\ asked[r] = None
      BY <1>1, <1>3 DEF RequestOK, AnswerInv, Served
    <3>2. client[r] # None
      BY <1>1, <1>3 DEF RequestOK
    <3>. QED BY <1>1, <1>2, <1>4, <1>5, <1>6, <2>1, <3>1, <3>2 DEF RequestOK, AnswerInv, Served
  <2>2. CASE q # r
    <3>1. /\ client'[q] = client[q] /\ run'[q] = run[q] /\ asked'[q] = asked[q]
          /\ q \in answered' <=> q \in answered
      BY <1>1, <1>3, <1>4, <1>6, <2>2 DEF RequestTypes
    <3>. QED BY <1>2, <1>3, <3>1, RequestKept
  <2>. QED BY <2>1, <2>2
<1>12. AbortTypes' /\ AbortInv'
  BY <1>1, <1>3, <1>4 DEF AbortTypes, AbortInv, RequestTypes
<1>. QED BY <1>2, <1>9, <1>10, <1>11, <1>12 DEF ServerInv, ServerRunInv

(* What a processor that is served does, without leaving. *)
LEMMA ServedOn ==
  ASSUME SocketTypes, ServerRunInv, SocketsAdvance, NEW r \in Request, Served(r), Served(r)',
         run' = [run EXCEPT ![r] = run'[r]],
         asked' = [asked EXCEPT ![r] = asked'[r]], asked'[r] \in Client \cup {None},
         run'[r] = "waiting" => asked'[r] # None,
         UNCHANGED <<client, answered, attachedProcessors, controlVars>>
  PROVE  ServerRunInv'
<1>1. /\ RequestTypes /\ AttachInv /\ AbortTypes /\ AbortInv
      /\ \A q \in Request : RequestOK(q)
      /\ UNCHANGED <<isPaused, abortedBy, abortLoop>>
  BY DEF ServerRunInv, controlVars
<1>2. run[r] # "none" /\ run[r] # "over" /\ run[r] # "assembling"
  BY DEF Served
<1>3. run'[r] \in {"running", "waiting", "drained"}
  BY DEF Served
<1>4. RequestTypes'
  BY <1>1, <1>3 DEF RequestTypes
<1>5. AttachInv'
  BY <1>1 DEF AttachInv, Attached, Served, RequestTypes
<1>6. ASSUME NEW q \in Request PROVE RequestOK(q)'
  <2>1. CASE q = r
    <3>1. client[r] \in Client /\ socket[client[r]] # "none" /\ r \notin answered /\ client[r] # None
      BY <1>1, <1>2 DEF RequestOK, AnswerInv, RequestTypes
    <3>2. socket'[client[r]] # "none"
      BY <3>1 DEF SocketsAdvance
    <3>. QED BY <1>3, <2>1, <3>1, <3>2 DEF RequestOK, AnswerInv, Served
  <2>2. CASE q # r
    <3>1. /\ client'[q] = client[q] /\ run'[q] = run[q] /\ asked'[q] = asked[q]
          /\ q \in answered' <=> q \in answered
      BY <1>1, <2>2 DEF RequestTypes
    <3>. QED BY <1>1, <3>1, RequestKept
  <2>. QED BY <2>1, <2>2
<1>7. AbortTypes' /\ AbortInv'
  BY <1>1, <1>3 DEF AbortTypes, AbortInv, RequestTypes
<1>. QED BY <1>4, <1>5, <1>6, <1>7 DEF ServerRunInv

LEMMA AsksForDatasetInv ==
  ASSUME ServerInv, NEW r \in Request, AsksForDataset(r)
  PROVE  ServerInv'
<1>1. /\ run[r] = "running" /\ run' = [run EXCEPT ![r] = "waiting"]
      /\ asked' = [asked EXCEPT ![r] = onrequest] /\ SendTo({onrequest})
      /\ UNCHANGED <<onrequest, uploaded, client, answered, attachedProcessors, controlVars>>
  BY DEF AsksForDataset
<1>2. SocketInv' /\ SocketsAdvance /\ SocketTypes /\ ServerRunInv
  BY <1>1, SendsInv DEF ServerInv, SocketInv
<1>3. RequestTypes /\ RequestOK(r) /\ ConnectedInv
  BY DEF ServerInv, ServerRunInv, SocketInv
<1>4. onrequest \in Client \cup {None} /\ onrequest # None
  BY <1>1, <1>2, <1>3 DEF SocketTypes, RequestTypes, RequestOK, ConnectedInv
<1>5. run'[r] = "waiting" /\ asked'[r] = onrequest
  BY <1>1, <1>3 DEF RequestTypes
<1>6. Served(r) /\ Served(r)'
  BY <1>1, <1>5 DEF Served
<1>. QED BY <1>1, <1>2, <1>4, <1>5, <1>6, ServedOn DEF ServerInv

LEMMA DatasetAnsweredInv ==
  ASSUME ServerInv, NEW r \in Request, DatasetAnswered(r)
  PROVE  ServerInv'
<1>1. /\ run[r] = "waiting" /\ run' = [run EXCEPT ![r] = "running"] /\ Hears(asked[r])
      /\ UNCHANGED <<onrequest, uploaded, client, asked, answered, attachedProcessors, controlVars>>
  BY DEF DatasetAnswered
<1>2. SocketInv' /\ SocketsAdvance /\ SocketTypes /\ ServerRunInv
  BY <1>1, HearsInv DEF ServerInv, SocketInv, SocketTypes
<1>3. RequestTypes
  BY DEF ServerInv, ServerRunInv
<1>4. run'[r] = "running" /\ asked' = [asked EXCEPT ![r] = asked'[r]] /\ asked'[r] \in Client \cup {None}
  BY <1>1, <1>3 DEF RequestTypes
<1>5. Served(r) /\ Served(r)'
  BY <1>1, <1>4 DEF Served
<1>. QED BY <1>1, <1>2, <1>4, <1>5, ServedOn DEF ServerInv

LEMMA DrainsInv ==
  ASSUME ServerInv, NEW r \in Request, Drains(r)
  PROVE  ServerInv'
<1>1. /\ run[r] = "running" /\ run' = [run EXCEPT ![r] = "drained"]
      /\ UNCHANGED <<socketVars, onrequest, uploaded, client, asked, answered, attachedProcessors,
                     controlVars>>
  BY DEF Drains
<1>2. SocketInv' /\ SocketsAdvance /\ SocketTypes /\ ServerRunInv
  BY <1>1, QuietInv DEF ServerInv, SocketInv
<1>3. RequestTypes
  BY DEF ServerInv, ServerRunInv
<1>4. run'[r] = "drained" /\ asked' = [asked EXCEPT ![r] = asked'[r]] /\ asked'[r] \in Client \cup {None}
  BY <1>1, <1>3 DEF RequestTypes
<1>5. Served(r) /\ Served(r)'
  BY <1>1, <1>4 DEF Served
<1>. QED BY <1>1, <1>2, <1>4, <1>5, ServedOn DEF ServerInv

LEMMA RunEndsInv ==
  ASSUME ServerInv, NEW r \in Request, RunEnds(r)
  PROVE  ServerInv'
<1>1. /\ run[r] = "drained" /\ run' = [run EXCEPT ![r] = "over"]
      /\ Broadcast /\ Answer(r)
      /\ attachedProcessors' = RemoveFirst(attachedProcessors, r)
      /\ isPaused' = isPaused \ {r}
      /\ asked' = [asked EXCEPT ![r] = None]
      /\ UNCHANGED <<client, onrequest, uploaded, abortedBy, abortLoop>>
  BY DEF RunEnds, Forget
<1>2. SocketInv' /\ SocketsAdvance /\ UNCHANGED socket /\ SocketTypes
  BY <1>1, BroadcastInv DEF ServerInv, SocketInv
<1>3. /\ ServerRunInv /\ RequestTypes /\ AttachInv /\ AbortTypes /\ AbortInv
      /\ \A q \in Request : RequestOK(q)
  BY DEF ServerInv, ServerRunInv
<1>4. client'[r] \in Client /\ client[r] # None /\ socket[client'[r]] # "none" /\ run'[r] = "over"
  BY <1>1, <1>3 DEF RequestOK, RequestTypes
<1>5. /\ answered' \subseteq answered \cup {r} /\ answered \subseteq answered'
      /\ r \in answered' \/ socket[client'[r]] = "closed"
  BY <1>1, <1>2, <1>4, AnswerSent
<1>6. /\ attachedProcessors' \in Seq(Request) /\ Once(attachedProcessors')
      /\ Attached' = Attached \ {r}
  BY <1>1, <1>3, RemoveOnce DEF RequestTypes, AttachInv, Attached
<1>7. RequestTypes'
  BY <1>1, <1>3, <1>5, <1>6 DEF RequestTypes
<1>8. AttachInv'
  BY <1>1, <1>3, <1>6 DEF AttachInv, Served, RequestTypes
<1>9. ASSUME NEW q \in Request PROVE RequestOK(q)'
  <2>1. CASE q = r
    <3>1. asked'[r] = None
      BY <1>1, <1>3 DEF RequestTypes
    <3>. QED BY <1>1, <1>2, <1>4, <1>5, <2>1, <3>1 DEF RequestOK, AnswerInv, Served
  <2>2. CASE q # r
    <3>1. /\ client'[q] = client[q] /\ run'[q] = run[q] /\ asked'[q] = asked[q]
          /\ q \in answered' <=> q \in answered
      BY <1>1, <1>3, <1>5, <2>2 DEF RequestTypes
    <3>. QED BY <1>2, <1>3, <3>1, RequestKept
  <2>. QED BY <2>1, <2>2
<1>10. AbortTypes' /\ AbortInv'
  BY <1>1, <1>3 DEF AbortTypes, AbortInv, RequestTypes
<1>. QED BY <1>2, <1>7, <1>8, <1>9, <1>10 DEF ServerInv, ServerRunInv

(* Control messages change neither the runs nor their answers. *)
LEMMA ControlKeeps ==
  ASSUME ServerInv, SocketInv', SocketsAdvance, UNCHANGED serverRunVars,
         isPaused' \subseteq isPaused \cup Attached, AbortTypes', AbortInv'
  PROVE  ServerInv'
<1>1. UNCHANGED <<client, run, asked, answered, attachedProcessors>>
  BY DEF serverRunVars
<1>2. /\ RequestTypes /\ AttachInv /\ SocketTypes
      /\ \A r \in Request : RequestOK(r)
  BY DEF ServerInv, ServerRunInv, SocketInv
<1>3. Attached' = Attached /\ Attached \subseteq Request
  BY <1>1, <1>2 DEF Attached, AttachInv
<1>4. RequestTypes' /\ AttachInv'
  <2>1. RequestTypes'
    BY <1>1, <1>2, <1>3 DEF RequestTypes
  <2>2. AttachInv'
    BY <1>1, <1>2, <1>3 DEF AttachInv, Served
  <2>. QED BY <2>1, <2>2
<1>5. ASSUME NEW r \in Request PROVE RequestOK(r)'
  BY <1>1, <1>2, <1>5, RequestKept
<1>. QED BY <1>4, <1>5 DEF ServerInv, ServerRunInv

LEMMA AbortsKept ==
  ASSUME AbortTypes, AbortInv, UNCHANGED <<run, abortedBy, abortLoop>>
  PROVE  AbortTypes' /\ AbortInv'
BY DEF AbortTypes, AbortInv

LEMMA PauseKept ==
  ASSUME ServerInv, NEW c \in Client, Pause(c)
  PROVE  ServerInv'
<1>1. SocketInv' /\ SocketsAdvance
  BY HearsInv, BroadcastInv DEF Pause, ServerInv, SocketInv, SocketTypes
<1>2. UNCHANGED <<serverRunVars, run, abortedBy, abortLoop>> /\ isPaused' \subseteq isPaused \cup Attached
  BY DEF Pause, serverRunVars
<1>. QED BY <1>1, <1>2, AbortsKept, ControlKeeps DEF ServerInv, ServerRunInv

LEMMA ResumeKept ==
  ASSUME ServerInv, NEW c \in Client, Resume(c)
  PROVE  ServerInv'
<1>1. SocketInv' /\ SocketsAdvance
  BY HearsInv, BroadcastInv DEF Resume, ServerInv, SocketInv, SocketTypes
<1>2. UNCHANGED <<serverRunVars, run, abortedBy, abortLoop>> /\ isPaused' \subseteq isPaused \cup Attached
  BY DEF Resume, serverRunVars
<1>. QED BY <1>1, <1>2, AbortsKept, ControlKeeps DEF ServerInv, ServerRunInv

LEMMA AbortArrivesInv ==
  ASSUME ServerInv, NEW m \in AbortMessage, NEW c \in Client, AbortArrives(m, c)
  PROVE  ServerInv'
<1>1. /\ Hears(c) /\ abortLoop' = [abortLoop EXCEPT ![m] = attachedProcessors]
      /\ UNCHANGED <<onrequest, uploaded, serverRunVars, isPaused, abortedBy>>
  BY DEF AbortArrives
<1>2. SocketInv' /\ SocketsAdvance
  BY <1>1, HearsInv DEF ServerInv, SocketInv, SocketTypes
<1>3. RequestTypes /\ AttachInv /\ AbortTypes /\ AbortInv /\ UNCHANGED run
  BY <1>1 DEF ServerInv, ServerRunInv, serverRunVars
<1>4. AbortTypes'
  BY <1>1, <1>3 DEF AbortTypes, RequestTypes
<1>5. \A n \in AbortMessage : abortLoop'[n] = IF n = m THEN attachedProcessors ELSE abortLoop[n]
  BY <1>1, <1>3 DEF AbortTypes
<1>6. \A r \in Request : run[r] \in {"none", "assembling"} => r \notin ToSet(attachedProcessors)
  BY <1>3 DEF AttachInv, Attached, Served
<1>7. AbortInv'
  <2>1. \A n \in AbortMessage : Once(abortLoop'[n])
    BY <1>3, <1>5 DEF AbortInv, AttachInv
  <2>2. \A r \in Request : run[r] \in {"none", "assembling"} =>
          abortedBy[r] = None /\ \A n \in AbortMessage : r \notin ToSet(abortLoop'[n])
    BY <1>3, <1>5, <1>6 DEF AbortInv
  <2>. QED BY <1>1, <1>3, <2>1, <2>2 DEF AbortInv
<1>. QED BY <1>1, <1>2, <1>4, <1>7, ControlKeeps

LEMMA HeadIsThere ==
  ASSUME AbortTypes, NEW m \in AbortMessage, abortLoop[m] # <<>>
  PROVE  Head(abortLoop[m]) \in Request /\ Head(abortLoop[m]) \in ToSet(abortLoop[m])
<1>1. abortLoop[m] \in Seq(Request)
  BY DEF AbortTypes
<1>2. Len(abortLoop[m]) \in Nat /\ Len(abortLoop[m]) # 0 /\ DOMAIN abortLoop[m] = 1 .. Len(abortLoop[m])
  BY <1>1, LenProperties, EmptySeq
<1>3. 1 \in DOMAIN abortLoop[m] /\ Head(abortLoop[m]) = abortLoop[m][1]
  BY <1>1, <1>2, HeadTailProperties
<1>. QED BY <1>1, <1>2, <1>3, ElementOfSeq DEF ToSet

LEMMA AbortCalledInv ==
  ASSUME ServerInv, NEW m \in AbortMessage, AbortCalled(m)
  PROVE  ServerInv'
<1>. DEFINE p == Head(abortLoop[m])
<1>1. /\ abortLoop[m] # <<>> /\ Broadcast
      /\ abortedBy' = [abortedBy EXCEPT ![p] = m]
      /\ UNCHANGED <<onrequest, uploaded, serverRunVars, isPaused, abortLoop>>
  BY DEF AbortCalled
<1>2. SocketInv' /\ SocketsAdvance
  BY <1>1, BroadcastInv DEF ServerInv, SocketInv
<1>3. AbortTypes /\ AbortInv /\ UNCHANGED run
  BY <1>1 DEF ServerInv, ServerRunInv, serverRunVars
<1>4. p \in Request /\ p \in ToSet(abortLoop[m])
  BY <1>1, <1>3, HeadIsThere
<1>. HIDE DEF p
<1>5. AbortTypes'
  BY <1>1, <1>3, <1>4 DEF AbortTypes
<1>6. AbortInv'
  BY <1>1, <1>3, <1>4 DEF AbortTypes, AbortInv
<1>. QED BY <1>1, <1>2, <1>5, <1>6, ControlKeeps

LEMMA AbortNextInv ==
  ASSUME ServerInv, NEW m \in AbortMessage, AbortNext(m)
  PROVE  ServerInv'
<1>1. /\ abortLoop[m] # <<>> /\ abortLoop' = [abortLoop EXCEPT ![m] = Tail(abortLoop[m])]
      /\ UNCHANGED <<socketVars, onrequest, uploaded, serverRunVars, isPaused, abortedBy>>
  BY DEF AbortNext, AbortReturned
<1>2. SocketInv' /\ SocketsAdvance
  BY <1>1, QuietInv DEF ServerInv
<1>3. AbortTypes /\ AbortInv /\ UNCHANGED run
  BY <1>1 DEF ServerInv, ServerRunInv, serverRunVars
<1>4. /\ Tail(abortLoop[m]) \in Seq(Request) /\ Once(Tail(abortLoop[m]))
      /\ ToSet(Tail(abortLoop[m])) \subseteq ToSet(abortLoop[m])
  BY <1>1, <1>3, TailOnce DEF AbortTypes, AbortInv
<1>5. AbortTypes'
  BY <1>1, <1>3, <1>4 DEF AbortTypes
<1>6. \A n \in AbortMessage : abortLoop'[n] = IF n = m THEN Tail(abortLoop[m]) ELSE abortLoop[n]
  BY <1>1, <1>3 DEF AbortTypes
<1>7. AbortInv'
  BY <1>1, <1>3, <1>4, <1>6 DEF AbortInv
<1>. QED BY <1>1, <1>2, <1>5, <1>7, ControlKeeps

LEMMA ServerStepInv == ASSUME ServerInv, [ServerNext]_serverVars PROVE ServerInv'
<1>1. CASE UNCHANGED serverVars
  <2>1. /\ UNCHANGED <<socketVars, onrequest, uploaded, serverRunVars, controlVars>>
        /\ SocketInv /\ ServerRunInv /\ SocketTypes
    BY <1>1 DEF serverVars, ServerInv, SocketInv
  <2>2. SocketInv' /\ SocketsAdvance
    BY <2>1, QuietInv
  <2>. QED BY <2>1, <2>2, RunsKept DEF ServerInv
<1>2. ASSUME NEW c \in Client, SocketStep(c) PROVE ServerInv'
  <2>1. SocketInv /\ ServerRunInv /\ SocketTypes
    BY DEF ServerInv, SocketInv
  <2>2. SocketInv' /\ SocketsAdvance /\ UNCHANGED <<serverRunVars, controlVars>>
    BY <1>2, <2>1, SocketStepInv
  <2>. QED BY <2>1, <2>2, RunsKept DEF ServerInv
<1>3. CASE \E c \in Client : Upload(c) \/ Pause(c) \/ Resume(c)
  BY <1>3, UploadInv, PauseKept, ResumeKept
<1>4. CASE \E c \in Client : \/ \E r \in Request : RunRequested(c, r)
                             \/ \E m \in AbortMessage : AbortArrives(m, c)
  BY <1>4, RunRequestedInv, AbortArrivesInv
<1>5. CASE \E r \in Request : RunStep(r) \/ Progress(r) \/ AsksForDataset(r)
  BY <1>5, AssembledInv, DatasetAnsweredInv, DrainsInv, RunEndsInv, ProgressInv, AsksForDatasetInv
     DEF RunStep
<1>6. CASE \E m \in AbortMessage : AbortCalled(m) \/ AbortNext(m)
  BY <1>6, AbortCalledInv, AbortNextInv
<1>. QED BY <1>1, <1>2, <1>3, <1>4, <1>5, <1>6 DEF ServerNext, SocketStep

LEMMA ServerInitInv == ServerInit => ServerInv
<1>. SUFFICES ASSUME ServerInit PROVE ServerInv
  OBVIOUS
<1>1. SocketTypes
  BY DEF ServerInit, SocketTypes
<1>2. HeartbeatInv /\ ConnectedInv
  BY DEF ServerInit, HeartbeatInv, ConnectedInv, TimersFit, TimerIsOfTheLastPing
<1>3. <<>> \in Seq(Request) /\ ToSet(<<>>) = {} /\ Once(<<>>)
  BY DEF ToSet, Once
<1>4. RequestTypes
  BY <1>3 DEF ServerInit, RequestTypes
<1>5. AttachInv
  BY <1>3 DEF ServerInit, AttachInv, Attached, Served
<1>6. \A r \in Request : RequestOK(r)
  BY DEF ServerInit, RequestOK, AnswerInv, Served
<1>7. AbortTypes /\ AbortInv
  BY <1>3 DEF ServerInit, AbortTypes, AbortInv
<1>. QED BY <1>1, <1>2, <1>4, <1>5, <1>6, <1>7 DEF ServerInv, SocketInv, ServerRunInv

LEMMA ServerSafe == ServerSpec => []ServerInv
<1>1. ServerInit => ServerInv
  BY ServerInitInv
<1>2. ServerInv /\ [ServerNext]_serverVars => ServerInv'
  BY ServerStepInv
<1>. QED BY <1>1, <1>2, PTL DEF ServerSpec

(* No heartbeat ends a socket for an older silence, and none is waited for on a
   socket that is not open: the cleanup of a connection leaves no timer behind
   (startDebuggerServer's ping, pong, message, close and error handlers). *)
THEOREM HeartbeatsAreTimely == ServerSpec => []HeartbeatInv
<1>1. ServerInv => HeartbeatInv
  BY DEF ServerInv, SocketInv
<1>. QED BY <1>1, ServerSafe, PTL

(* A processor is in the list of the server exactly while its run goes on, and
   once: pause, resume and abort, which go over the list, reach every run that
   can hear them and no other, and a run that is over is paused no more
   (attach, its finish handler and detach). *)
THEOREM AttachedWhileServed == ServerSpec => []AttachInv
<1>1. ServerInv => AttachInv
  BY DEF ServerInv, ServerRunInv
<1>. QED BY <1>1, ServerSafe, PTL

(* A run that is over has had its done, error or abort sent to the editor that
   asked for it, unless that connection is closed, whoever else connected,
   paused or aborted meanwhile; and no request is answered while its run goes on
   (the handler of a dynamic executor's run message). *)
Answers == \A r \in Request : AnswerInv(r)

THEOREM NoAnswerIsLost == ServerSpec => []Answers
<1>1. ServerInv => Answers
  BY DEF ServerInv, ServerRunInv, RequestOK, Answers
<1>. QED BY <1>1, ServerSafe, PTL

(* A step of an abort message's loop: it begins with every processor that is
   attached, it passes one only after somebody's abort of it or its end, and no
   abort is done twice. *)
AbortsEach ==
  \A m \in AbortMessage, r \in Request :
    /\ r \in ToSet(abortLoop[m]) \ ToSet(abortLoop'[m]) => abortedBy[r] # None \/ run[r] = "over"
    /\ abortLoop[m] = <<>> /\ abortLoop'[m] # <<>> /\ r \in Attached => r \in ToSet(abortLoop'[m])
    /\ abortedBy[r] # None => abortedBy'[r] = abortedBy[r]

LEMMA AbortsEachStep == ASSUME ServerInv, [ServerNext]_serverVars PROVE AbortsEach
<1>0. AbortTypes /\ AbortInv /\ ToSet(<<>>) = {}
  BY DEF ServerInv, ServerRunInv, ToSet
<1>1. CASE UNCHANGED <<abortedBy, abortLoop>>
  BY <1>1 DEF AbortsEach
<1>2. ASSUME NEW m \in AbortMessage, NEW c \in Client, AbortArrives(m, c) PROVE AbortsEach
  <2>1. /\ abortLoop[m] = <<>> /\ abortLoop' = [abortLoop EXCEPT ![m] = attachedProcessors]
        /\ UNCHANGED abortedBy
    BY <1>2 DEF AbortArrives
  <2>. QED BY <1>0, <2>1 DEF AbortsEach, AbortTypes, Attached
<1>3. ASSUME NEW m \in AbortMessage, AbortCalled(m) PROVE AbortsEach
  <2>1. /\ abortLoop[m] # <<>> /\ UNCHANGED abortLoop /\ abortedBy[Head(abortLoop[m])] = None
        /\ abortedBy' = [abortedBy EXCEPT ![Head(abortLoop[m])] = m]
    BY <1>3 DEF AbortCalled
  <2>. QED BY <1>0, <2>1 DEF AbortsEach, AbortTypes
<1>4. ASSUME NEW m \in AbortMessage, AbortNext(m) PROVE AbortsEach
  <2>. DEFINE p == Head(abortLoop[m])
  <2>1. /\ abortLoop[m] # <<>> /\ abortLoop' = [abortLoop EXCEPT ![m] = Tail(abortLoop[m])]
        /\ UNCHANGED abortedBy
        /\ run[p] = "over" \/ abortedBy[p] # None
    BY <1>4, ServerAssumption DEF AbortNext, AbortReturned
  <2>2. ToSet(Tail(abortLoop[m])) = ToSet(abortLoop[m]) \ {p}
    BY <1>0, <2>1, TailOnce DEF AbortTypes, AbortInv
  <2>3. \A n \in AbortMessage : abortLoop'[n] = IF n = m THEN Tail(abortLoop[m]) ELSE abortLoop[n]
    BY <1>0, <2>1 DEF AbortTypes
  <2>. HIDE DEF p
  <2>. QED BY <2>1, <2>2, <2>3 DEF AbortsEach
<1>. QED
  BY <1>1, <1>2, <1>3, <1>4
     DEF ServerNext, serverVars, serverRunVars, controlVars, RunStep, Connect, Disconnect, PeerVanishes,
         Flushed, SendPing, Pong, TimerFires, Upload, Pause, Resume, RunRequested, Assembled,
         DatasetAnswered, Drains, RunEnds, Progress, AsksForDataset

(* Every abort message goes on, whatever ends or is aborted meanwhile, to each
   processor it found attached (the abort message's handler goes over the list
   that filter made, and awaits each abort). *)
THEOREM AbortsPassNone == ServerSpec => [][AbortsEach]_serverVars
<1>1. ServerInv /\ [ServerNext]_serverVars => [AbortsEach]_serverVars
  BY AbortsEachStep
<1>. QED BY <1>1, ServerSafe, PTL DEF ServerSpec
=============================================================================
