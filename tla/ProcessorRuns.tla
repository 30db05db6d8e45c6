---------------------------- MODULE ProcessorRuns ----------------------------
(***************************************************************************)
(* One processor of createProcessor() used for several runs: what frames   *)
(* the scheduling of a run (processGraph), the remote debugger attached to *)
(* it for the time of a run (run() of the Node package), and the data      *)
(* preloaded between runs.                                                 *)
(* running is what a new run and abort() look at.                          *)
(*                                                                         *)
(* A call of run() goes from one await to the next.  While a run awaits    *)
(* its own listeners, or its nodes, other calls of the host come in.       *)
(***************************************************************************)
EXTENDS Naturals, FiniteSets

CONSTANTS
  Call,          \* the calls of run() the host makes
  StartsFrom,    \* stages of an earlier call at which the host makes one
  HostPreloads   \* the host preloads node data

Stage == {"starting", "processing", "erroring", "finishing", "ending", "closing"}
Calling == Stage \cup {"none", "settled"}

ASSUME CallAssumption ==
  /\ IsFiniteSet(Call)
  /\ StartsFrom \subseteq Stage
  /\ HostPreloads \in BOOLEAN

VARIABLES
  stage,                   \* where each call stands
  manages,                 \* shouldManageRemoteDebugger of each call
  running, finishEmitted,
  hasPreloadedData,
  visitedNodes,            \* what is in it: "nothing", "preloaded" nodes,
                           \* or nodes that a "run" visited
  attached,                \* the debugger server listens to the processor
  remoteDebuggerAttached,  \* what run() believes of it
  started, finishes        \* history: calls that began a run, finish events

debuggerVars == <<attached, remoteDebuggerAttached>>
vars == <<stage, manages, running, finishEmitted, hasPreloadedData,
          visitedNodes, debuggerVars, started, finishes>>

In(stages) == {c \in Call : stage[c] \in stages}
Moves(c, to) == stage' = [stage EXCEPT ![c] = to]

(* createProcessor attaches the debugger at once. *)
Init ==
  /\ stage = [c \in Call |-> "none"]
  /\ manages = [c \in Call |-> FALSE]
  /\ running = FALSE
  /\ finishEmitted = FALSE
  /\ hasPreloadedData = FALSE
  /\ visitedNodes = "nothing"
  /\ attached = TRUE
  /\ remoteDebuggerAttached = TRUE
  /\ started = {}
  /\ finishes = 0

-----------------------------------------------------------------------------
(***************************************************************************)
(* run() up to its first await: attach the debugger if nothing runs, then  *)
(* initialize the run, or refuse it if something does.  The refusal passes *)
(* through the finally block of run(), which manages nothing then.         *)
(***************************************************************************)
ManagesDebugger_Always == TRUE   \* mutant: whether or not a run is going on
ManagesDebugger == ~ running

AttachRemoteDebugger ==
  /\ attached' = (attached \/ (ManagesDebugger /\ ~ remoteDebuggerAttached))
  /\ remoteDebuggerAttached' = (remoteDebuggerAttached \/ ManagesDebugger)

DetachRemoteDebugger(managed) ==
  /\ attached' = (attached /\ ~ (managed /\ remoteDebuggerAttached))
  /\ remoteDebuggerAttached' = (remoteDebuggerAttached /\ ~ managed)

HostMayCall(c) ==
  /\ stage[c] = "none"
  /\ \A d \in Call : stage[d] \in Stage => stage[d] \in StartsFrom

Refused(c) ==
  /\ HostMayCall(c)
  /\ running
  /\ Moves(c, "settled")
  /\ DetachRemoteDebugger(ManagesDebugger)
  /\ UNCHANGED <<manages, running, finishEmitted, hasPreloadedData,
                 visitedNodes, started, finishes>>

InitializeGraphRun_KeepsFinish(c) ==   \* mutant: finishEmitted is not reset
  /\ HostMayCall(c) /\ ~ running
  /\ AttachRemoteDebugger
  /\ manages' = [manages EXCEPT ![c] = ManagesDebugger]
  /\ Moves(c, "starting")
  /\ running' = TRUE
  /\ visitedNodes' = IF hasPreloadedData THEN visitedNodes ELSE "nothing"
  /\ started' = started \cup {c}
  /\ UNCHANGED <<finishEmitted, hasPreloadedData, finishes>>

InitializeGraphRun(c) ==
  /\ HostMayCall(c)
  /\ ~ running
  /\ AttachRemoteDebugger
  /\ manages' = [manages EXCEPT ![c] = ManagesDebugger]
  /\ Moves(c, "starting")
  /\ running' = TRUE
  /\ finishEmitted' = FALSE
  /\ visitedNodes' = IF hasPreloadedData THEN visitedNodes ELSE "nothing"
  /\ started' = started \cup {c}
  /\ UNCHANGED <<hasPreloadedData, finishes>>

(* The server detaches itself when it hears finish, which is not emitted twice. *)
DetachOnFinish == attached' = (attached /\ finishEmitted)

(***************************************************************************)
(* The finally block: the run is over, and finish is emitted unless it has *)
(* been.                                                                   *)
(***************************************************************************)
EmitFinishIfNeeded ==
  /\ finishEmitted' = TRUE
  /\ finishes' = IF finishEmitted THEN finishes ELSE finishes + 1
  /\ DetachOnFinish
  /\ UNCHANGED remoteDebuggerAttached

CloseRun_KeepsRunning(c) ==   \* mutant: only a run that finishes clears running
  /\ Moves(c, "closing")
  /\ EmitFinishIfNeeded
  /\ UNCHANGED <<manages, running, hasPreloadedData, started>>

CloseRun(c) ==
  /\ Moves(c, "closing")
  /\ running' = FALSE
  /\ EmitFinishIfNeeded
  /\ UNCHANGED <<manages, hasPreloadedData, started>>

(* References loaded, start and graphStart emitted, the pause gate passed. *)
StartEmitted(c) ==
  /\ stage[c] = "starting"
  /\ \/ /\ Moves(c, "processing")
        /\ UNCHANGED <<manages, running, finishEmitted, hasPreloadedData,
                       visitedNodes, debuggerVars, started, finishes>>
     \/ CloseRun(c) /\ UNCHANGED visitedNodes   \* a reference did not load, or an abort

(* The scheduler is through; throwIfGraphErrored, finalizeGraphRun. *)
Processed(c) ==
  /\ stage[c] = "processing"
  /\ visitedNodes' = "run"
  /\ \/ Moves(c, "erroring") /\ UNCHANGED running
     \/ Moves(c, "finishing") /\ running' = FALSE
  /\ UNCHANGED <<manages, finishEmitted, hasPreloadedData, debuggerVars,
                 started, finishes>>

ErrorEmitted(c) ==
  /\ stage[c] = "erroring"
  /\ CloseRun(c)
  /\ UNCHANGED visitedNodes

(* graphFinish and done emitted, now finish. *)
DoneEmitted(c) ==
  /\ stage[c] = "finishing"
  /\ Moves(c, "ending")
  /\ EmitFinishIfNeeded
  /\ UNCHANGED <<manages, running, hasPreloadedData, visitedNodes, started>>

FinishEmitted(c) ==
  /\ stage[c] = "ending"
  /\ CloseRun(c)
  /\ UNCHANGED visitedNodes

(* processGraph is settled; the finally block of run(). *)
RunSettled(c) ==
  /\ stage[c] = "closing"
  /\ Moves(c, "settled")
  /\ DetachRemoteDebugger(manages[c])
  /\ UNCHANGED <<manages, running, finishEmitted, hasPreloadedData,
                 visitedNodes, started, finishes>>

(* Data for the next run. *)
PreloadNodeData ==
  /\ HostPreloads
  /\ In(Stage) = {}
  /\ ~ hasPreloadedData
  /\ hasPreloadedData' = TRUE
  /\ visitedNodes' = IF visitedNodes = "nothing" THEN "preloaded" ELSE visitedNodes
  /\ UNCHANGED <<stage, manages, running, finishEmitted, debuggerVars, started,
                 finishes>>

-----------------------------------------------------------------------------
CallStep(c) ==
  \/ Refused(c)
  \/ InitializeGraphRun(c)
  \/ StartEmitted(c)
  \/ Processed(c)
  \/ ErrorEmitted(c)
  \/ DoneEmitted(c)
  \/ FinishEmitted(c)
  \/ RunSettled(c)

HostIsDone == In({"settled"}) = Call /\ UNCHANGED vars

Next ==
  \/ \E c \in Call : CallStep(c)
  \/ PreloadNodeData
  \/ HostIsDone

Spec == Init /\ [][Next]_vars

-----------------------------------------------------------------------------
Busy == {"starting", "processing", "erroring"}

(* Every variable has its type, and no more finish events come than calls. *)
TypeOK ==
  /\ stage \in [Call -> Calling]
  /\ manages \in [Call -> BOOLEAN]
  /\ {running, finishEmitted, hasPreloadedData, attached, remoteDebuggerAttached}
       \subseteq BOOLEAN
  /\ visitedNodes \in {"nothing", "preloaded", "run"}
  /\ started \subseteq Call
  /\ finishes \in 0 .. Cardinality(Call)

(* Two runs never share the processor's state. *)
OneRunAtATime == Cardinality(In(Busy)) <= 1

(* running says exactly that a run is on: while it is, a second one is refused
   and an abort is heard; once it is not, the next one is let in, however the
   last one ended. *)
RunIsGuarded == OneRunAtATime /\ (running <=> In(Busy) # {})

(* Each run has one finish event, after all its other events, whether it
   resolves or rejects; a refused call has none. *)
FinishPerRun ==
  /\ finishes <= Cardinality(started \ In(Busy))
  /\ In(Stage) = {} => finishes = Cardinality(started)

(* The debugger is attached from the start of a run to its done, in the first
   run and in every later one: it loses no event of any. *)
NoEventIsLost == In(Busy \cup {"finishing"}) # {} => attached

(* It loses no event, and between runs it is not attached: server and run() both
   detach it, and neither leaves it to a run that it does not belong to. *)
DebuggerSeesRun ==
  /\ NoEventIsLost
  /\ In(Stage) = {} /\ started # {} => ~ attached
=============================================================================
