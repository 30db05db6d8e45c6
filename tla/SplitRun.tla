------------------------------ MODULE SplitRun ------------------------------
(***************************************************************************)
(* One node from processNode() to its last event: its nodeStart listeners, *)
(* its one process() call or the items of its split run, the errors of     *)
(* those, and the event that reports them.  The host may pause, resume and *)
(* abort the graph meanwhile, and listeners may throw.                     *)
(*                                                                         *)
(* Values are abstracted away.  The exclusion check at the head of         *)
(* processSplitRunNode repeats the one made just before, on the same       *)
(* inputs, and is left out.                                                *)
(***************************************************************************)
EXTENDS Naturals, Sequences, FiniteSetsExt

CONSTANTS
  LongestArray,         \* the longest array on an input
  SplitRunMax,          \* node.splitRunMax
  SplitRunConcurrency,  \* parallel items at a time
  ListenersThrow        \* whether nodeStart and nodeFinish listeners may throw

ASSUME SplitRunAssumption ==
  /\ {LongestArray, SplitRunMax, SplitRunConcurrency} \subseteq Nat \ {0}
  /\ ListenersThrow \in BOOLEAN

Item == 1 .. SplitRunMax

VARIABLES
  mode,                    \* how the node runs: "once", "sequential", "parallel"
  splittingAmount,
  stage, item,             \* where the node and each of its items are
  nodeAbortControllers,    \* the items registered under the node's id
  signalled,               \* items whose controller was aborted
  isPaused, aborted,       \* aborted: "no", "failed" or "successful"
  nodeResults,             \* "none", "outputs" or "excluded"
  errored,
  terminal,                \* successfulAbortTerminalProcessIds has the process
  queuesOutputs,           \* the readers were pushed
  events,
  endedLate                \* history: items that ended after the abort

nodeVars == <<mode, splittingAmount>>
hostVars == <<isPaused, aborted>>
itemVars == <<item, nodeAbortControllers, signalled, endedLate>>
outcomeVars == <<nodeResults, errored, terminal, queuesOutputs, events>>
vars == <<nodeVars, stage, itemVars, hostVars, outcomeVars>>

Stages == {"new", "starting", "items", "finishing", "erroring", "excluding",
           "settled", "rejected"}
AtGate == {"paused", "released"}
Active == AtGate \cup {"running"}
Settled == {"output", "error", "aborted"}

ItemsIn(states) == {i \in Item : item[i] \in states}
IsAborted == aborted # "no"
Emit(event) == events' = Append(events, event)

(* Inputs without arrays, or without a value, make one item. *)
Init ==
  /\ mode \in {"once", "sequential", "parallel"}
  /\ \E longest \in 0 .. LongestArray :
       splittingAmount = IF mode = "once" THEN 1 ELSE Min({longest, SplitRunMax})
  /\ stage = "new"
  /\ item = [i \in Item |-> IF i <= splittingAmount THEN "queued" ELSE "none"]
  /\ nodeAbortControllers = {} /\ signalled = {} /\ endedLate = {}
  /\ isPaused = FALSE /\ aborted = "no"
  /\ nodeResults = "none" /\ errored = FALSE /\ terminal = FALSE
  /\ queuesOutputs = FALSE
  /\ events = <<>>

-----------------------------------------------------------------------------
(***************************************************************************)
(* nodeErrored: an error that a successful abort caused is an exclusion.   *)
(***************************************************************************)
NodeErrored(abortLike) ==
  IF abortLike /\ aborted = "successful"
  THEN /\ stage' = "excluding"
       /\ terminal' = TRUE
       /\ nodeResults' = "excluded"
       /\ Emit("nodeExcluded")
       /\ UNCHANGED <<errored, queuesOutputs>>
  ELSE /\ stage' = "erroring"
       /\ errored' = TRUE
       /\ Emit("nodeError")
       /\ UNCHANGED <<nodeResults, terminal, queuesOutputs>>

ProcessNode ==
  /\ stage = "new"
  /\ IF IsAborted
     THEN NodeErrored(TRUE)
     ELSE stage' = "starting" /\ Emit("nodeStart")
          /\ UNCHANGED <<nodeResults, errored, terminal, queuesOutputs>>
  /\ UNCHANGED <<nodeVars, itemVars, hostVars>>

NodeStartEmitted ==
  /\ stage = "starting"
  /\ stage' = "items"
  /\ UNCHANGED <<nodeVars, itemVars, hostVars, outcomeVars>>

(* The event is awaited outside the try block: the node's job ends there. *)
NodeStartListenerThrew ==
  /\ ListenersThrow
  /\ stage = "starting"
  /\ stage' = "rejected"
  /\ UNCHANGED <<nodeVars, itemVars, hostVars, outcomeVars>>

-----------------------------------------------------------------------------
(* A queue of SplitRunConcurrency, or the loop over the items. *)
HasFreeSlot == Cardinality(ItemsIn(Active)) < SplitRunConcurrency

IsNext(i) ==
  /\ stage = "items"
  /\ item[i] = "queued"
  /\ \A j \in Item : j < i => item[j] # "queued"
  /\ IF mode = "parallel" THEN HasFreeSlot ELSE ItemsIn(Active) = {}

(* processNodeWithInputData up to process(): its controller, and the gate. *)
StartItem(i) ==
  /\ nodeAbortControllers' = nodeAbortControllers \cup {i}
  /\ signalled' = IF IsAborted THEN signalled \cup {i} ELSE signalled
  /\ item' = [item EXCEPT ![i] = IF isPaused THEN "paused" ELSE "running"]
  /\ UNCHANGED <<stage, endedLate, outcomeVars>>

(* An abort before an item throws out of the loop, and out of all that the  *)
(* loop has recorded; in parallel it is the result of the item.             *)
TakeItem(i) ==
  /\ IsNext(i)
  /\ \/ (~ IsAborted \/ mode = "once") /\ StartItem(i)
     \/ /\ IsAborted /\ mode = "sequential"
        /\ NodeErrored(TRUE)
        /\ UNCHANGED itemVars
     \/ /\ IsAborted /\ mode = "parallel"
        /\ item' = [item EXCEPT ![i] = "aborted"]
        /\ UNCHANGED <<stage, nodeAbortControllers, signalled, endedLate, outcomeVars>>
  /\ UNCHANGED <<nodeVars, hostVars>>

Unregister_Node(i) == {}   \* mutant: forgets the other items of the node
Unregister(i) == nodeAbortControllers \ {i}

EndItem(i, result) ==
  /\ item' = [item EXCEPT ![i] = result]
  /\ nodeAbortControllers' = Unregister(i)
  /\ endedLate' = IF IsAborted THEN endedLate \cup {i} ELSE endedLate
  /\ UNCHANGED <<nodeVars, stage, signalled, hostVars, nodeResults, errored,
                 queuesOutputs, events>>

GateOpened(i) ==
  /\ item[i] = "released" /\ ~ IsAborted
  /\ item' = [item EXCEPT ![i] = "running"]
  /\ UNCHANGED <<nodeVars, stage, nodeAbortControllers, signalled, endedLate,
                 hostVars, outcomeVars>>

GateAborted_Deaf(i) ==   \* mutant: the gate listens to resume() only
  /\ item[i] = "released" /\ IsAborted
  /\ EndItem(i, "aborted") /\ UNCHANGED terminal

GateAborted(i) ==
  /\ item[i] \in AtGate /\ IsAborted
  /\ EndItem(i, "aborted") /\ UNCHANGED terminal

(* process() answers.  A signalled item that has outputs all the same keeps *)
(* them if the abort was a successful one.                                  *)
ItemReturns(i) ==
  /\ item[i] = "running"
  /\ EndItem(i, IF i \in signalled /\ aborted = "failed" THEN "aborted" ELSE "output")
  /\ terminal' = (terminal \/ (i \in signalled /\ aborted = "successful"))

ItemThrows(i) ==
  /\ item[i] = "running"
  /\ EndItem(i, "error") /\ UNCHANGED terminal

ItemStops(i) ==
  /\ item[i] = "running" /\ i \in signalled
  /\ EndItem(i, "aborted") /\ UNCHANGED terminal

-----------------------------------------------------------------------------
(* All items are settled: their outputs joined in order, or their errors. *)
AllSettled == ItemsIn({"queued"} \cup Active) = {}

Failures_OfAll ==   \* mutant: items that have outputs make up for the others
  IF ItemsIn({"output"}) = {} THEN ItemsIn({"error", "aborted"}) ELSE {}
Failures == ItemsIn({"error", "aborted"})

OnlyAborted == IsAborted /\ ItemsIn({"error"}) = {}

CollectResults ==
  /\ stage = "items"
  /\ AllSettled
  /\ IF Failures = {}
     THEN /\ stage' = "finishing"
          /\ nodeResults' = "outputs"
          /\ Emit("nodeFinish")
          /\ UNCHANGED <<errored, terminal, queuesOutputs>>
     ELSE NodeErrored(OnlyAborted)
  /\ UNCHANGED <<nodeVars, itemVars, hostVars>>

(* The try block holds the nodeFinish event too. *)
NodeFinishListenerThrew ==
  /\ ListenersThrow
  /\ stage = "finishing"
  /\ NodeErrored(FALSE)
  /\ UNCHANGED <<nodeVars, itemVars, hostVars>>

(* The last event is out.  A node that an abort kept from starting, or whose
   end is a successful abort, pushes no reader. *)
TerminalEmitted ==
  /\ stage \in {"finishing", "erroring", "excluding"}
  /\ stage' = "settled"
  /\ queuesOutputs' = (~ terminal /\ Head(events) = "nodeStart")
  /\ UNCHANGED <<nodeVars, itemVars, hostVars, nodeResults, errored, terminal, events>>

-----------------------------------------------------------------------------
IsOn == stage \notin {"settled", "rejected"}

Abort ==
  /\ IsOn /\ ~ IsAborted
  /\ aborted' \in {"failed", "successful"}
  /\ signalled' = signalled \cup nodeAbortControllers
  /\ UNCHANGED <<nodeVars, stage, item, nodeAbortControllers, endedLate, isPaused,
                 outcomeVars>>

Pause ==
  /\ IsOn /\ ~ isPaused
  /\ isPaused' = TRUE
  /\ UNCHANGED <<nodeVars, stage, itemVars, aborted, outcomeVars>>

Resume ==
  /\ IsOn /\ isPaused
  /\ isPaused' = FALSE
  /\ item' = [i \in Item |-> IF item[i] = "paused" THEN "released" ELSE item[i]]
  /\ UNCHANGED <<nodeVars, stage, nodeAbortControllers, signalled, endedLate, aborted,
                 outcomeVars>>

ItemEnds(i) == ItemReturns(i) \/ ItemThrows(i) \/ ItemStops(i)

NodeStep ==
  \/ ProcessNode \/ NodeStartEmitted \/ NodeStartListenerThrew
  \/ \E i \in Item : TakeItem(i) \/ GateOpened(i) \/ GateAborted(i) \/ ItemEnds(i)
  \/ CollectResults \/ NodeFinishListenerThrew \/ TerminalEmitted

Done == ~ IsOn /\ UNCHANGED vars

Next == NodeStep \/ Abort \/ Pause \/ Resume \/ Done

Spec == Init /\ [][Next]_vars

(* Listeners return and process() ends; nothing is assumed of the host. *)
FairSpec == Spec /\ WF_vars(NodeStep)

-----------------------------------------------------------------------------
(* Every variable has its type, and no more items are under way than the
   mode allows. *)
TypeOK ==
  /\ stage \in Stages /\ mode \in {"once", "sequential", "parallel"}
  /\ item \in [Item -> {"none", "queued"} \cup Active \cup Settled]
  /\ {nodeAbortControllers, signalled, endedLate} \subseteq SUBSET Item
  /\ {isPaused, errored, terminal, queuesOutputs} \subseteq BOOLEAN
  /\ aborted \in {"no", "failed", "successful"}
  /\ Cardinality(ItemsIn(Active))
       <= (IF mode = "parallel" THEN SplitRunConcurrency ELSE 1)

(* An abort reaches every item under way, also when others of the node have
   ended before it and have left the node's controllers. *)
AbortReachesItems == IsAborted => ItemsIn(Active) \subseteq signalled

(* No item is under way once the node has its last event: what the event
   reports is all the node did. *)
LastEventIsLast ==
  stage \in {"finishing", "erroring", "excluding", "settled"} => ItemsIn(Active) = {}

(* Outputs are stored for a node only if every item has its own, and then it
   is errored only after a listener of its nodeFinish threw.  A node whose
   nodeStart listener threw leaves nothing by which the run could tell. *)
ResultsAreWhole ==
  /\ nodeResults = "outputs" =>
       /\ ItemsIn({"output"}) = 1 .. splittingAmount
       /\ errored => events = <<"nodeStart", "nodeFinish", "nodeError">>
  /\ stage = "settled" => (nodeResults = "none" <=> errored /\ Len(events) < 3)
  /\ stage = "rejected" => nodeResults = "none" /\ ~ errored

(* A failure of an item is reported as one: neither the other items nor an
   abort that comes in hide it.  A sequential run that is aborted before its
   next item is the exception, as it drops what it has. *)
FailureIsReported ==
  /\ stage = "settled" /\ ItemsIn({"error"}) # {}
  /\ ~ (mode = "sequential" /\ aborted = "successful" /\ ItemsIn({"queued"}) # {})
  => errored

(* What the node leaves behind is of one piece: its bound on items at a time
   held, its last event came last, its results are those of all items, and
   its failures are reported. *)
OutcomeIsWhole == TypeOK /\ LastEventIsLast /\ ResultsAreWhole /\ FailureIsReported

(* Outputs that come after a successful abort are kept, but wake no reader. *)
LateOutputsWakeNobody ==
  stage = "settled" /\ aborted = "successful" /\ ~ errored /\ endedLate # {}
    => ~ queuesOutputs

(* An abort is heeded by what is under way and by what comes out of it. *)
AbortIsHeeded == AbortReachesItems /\ LateOutputsWakeNobody

(* An abort ends the node, paused or not. *)
AbortEndsNode == IsAborted ~> ~ IsOn
=============================================================================
