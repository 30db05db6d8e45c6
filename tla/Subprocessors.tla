--------------------------- MODULE Subprocessors ---------------------------
(***************************************************************************)
(* A processor and the processors of its subgraphs: how pause, resume and  *)
(* abort get from one to the others, and how user input, user events and   *)
(* globals reach the nodes that wait for them.                             *)
(*                                                                         *)
(* A processor is seen as the sequence of its nodes, and a node as things  *)
(* that its process() does; the scheduler is in GraphProcessor.  An event  *)
(* goes to the listeners there were when it was emitted and that are still *)
(* there a microtask later.                                                *)
(***************************************************************************)
EXTENDS Naturals, SequencesExt

CONSTANTS
  Processor, Root,
  ParentOf,       \* [Processor \ {Root} -> Processor]
  Activities,     \* what the nodes of each processor do, each at most once:
                  \* "child", "abort", "set", "ask", "global"
  OneCallPerTurn, \* the host calls pause() and resume() between turns only
  MaxHostCalls    \* bound on its calls of them

ASSUME SubprocessorAssumption ==
  /\ IsFiniteSet(Processor) /\ Root \in Processor
  /\ ParentOf \in [Processor \ {Root} -> Processor]
  /\ Activities \in [Processor -> SUBSET {"child", "abort", "set", "ask", "global"}]
  /\ OneCallPerTurn \in BOOLEAN /\ MaxHostCalls \in Nat

Children(p) == {c \in Processor \ {Root} : ParentOf[c] = p}

(* A processor and those above it. *)
Line ==
  [p \in Processor |->
     {q \in Processor : \A S \in SUBSET Processor :
        p \in S /\ (\A c \in S \ {Root} : ParentOf[c] \in S) => q \in S}]

ASSUME TreeAssumption == \A p \in Processor : Root \in Line[p]

(* Processors in an order that the code may take them in. *)
InnermostFirst(procs) ==
  {s \in SetToSeqs(procs) :
     \A i, j \in DOMAIN s : i < j => Cardinality(Line[s[i]]) >= Cardinality(Line[s[j]])}

VARIABLES
  doing,      \* "none", "gate" between nodes, "working", "over", or what a node awaits
  todo,       \* the activities that its nodes may still do
  aborted, paused,
  wired,      \* the listeners of SubprocessorBridge are there
  emissions,  \* events emitted and not delivered
  globals,    \* the global is set
  hostCalls,  \* of pause() and resume(), which take turns
  late,       \* history: its wait, or itself, began after an abort
  bornPaused, \* history: created while its parent was paused
  due         \* history: awaited an event when it was raised

runVars == <<doing, todo>>
stateVars == <<aborted, paused>>
treeVars == <<runVars, stateVars, wired, emissions, globals, hostCalls, late, bornPaused, due>>

TreeInit ==
  /\ doing = [p \in Processor |-> IF p = Root THEN "gate" ELSE "none"]
  /\ todo = Activities
  /\ aborted = [p \in Processor |-> FALSE] /\ paused = aborted
  /\ wired = {} /\ emissions = <<>> /\ globals = FALSE
  /\ hostCalls = 0
  /\ late = {} /\ bornPaused = {} /\ due = {}

Live(p) == doing[p] \notin {"none", "over"}

-----------------------------------------------------------------------------
(* Who hears an event: of pause and resume the children and, for a child,
   its parent; of the others the nodes that wait for it. *)
Emission(p, event, of) ==
  [at |-> p, event |-> event, of |-> of,
   to |-> CASE event \in {"pause", "resume"} -> wired \cap (Children(p) \cup {p})
            [] event = "globalSet:id" -> {q \in Processor : doing[q] = "global"}
            [] event = "userEvent" -> {q \in {p} : doing[q] = "event"}
            [] OTHER -> {}]
Emissions(procs, event) == [i \in DOMAIN procs |-> Emission(procs[i], event, procs[i])]

(* pause() or resume() of some processors, and then of others: no event
   without a change. *)
Switch(first, others, on, queue) ==
  LET Changed(procs) == {p \in procs : paused[p] # on}
      changed == Changed(first \cup others)
  IN /\ paused' = [p \in Processor |-> IF p \in changed THEN on ELSE paused[p]]
     /\ emissions' = queue \o Emissions(SetToSeq(Changed(first)) \o SetToSeq(Changed(others)),
                                       IF on THEN "pause" ELSE "resume")
     /\ bornPaused' = bornPaused \ UNION {Children(p) : p \in changed}

(* What abort() of p reaches by the listeners on its signals, there and then. *)
ReachedByAbort(p) ==
  {q \in Processor :
    /\ p \in Line[q]
    /\ \A r \in Line[q] \ Line[p] : r \in wired
    /\ \A r \in {p} \cup (Line[q] \ Line[p]) : Live(r) /\ ~ aborted[r]}

(* Waiters of user input and of user events listen to their signals, if these
   were not aborted when they began to wait; waiters of globals do not. *)
RejectedByAbort_InputOnly(q) == doing[q] = "input"   \* mutant
RejectedByAbort(q) == doing[q] \in {"input", "event"}

AbortOf(p, result) ==
  LET reached == ReachedByAbort(p) IN
  /\ aborted' = [q \in Processor |-> aborted[q] \/ q \in reached]
  /\ doing' = [q \in Processor |->
                 IF q \in reached /\ RejectedByAbort(q) THEN "working"
                 ELSE result[q]]
  /\ due' = due \ reached
  /\ \E order \in InnermostFirst(reached \ {Root}) :
       emissions' = emissions \o Emissions(order, "graphEnd")

-----------------------------------------------------------------------------
(* createSubProcessor and processGraph up to its first await, for a node or for
   some at a time.  What was aborted or paused before is not looked at. *)
CreateSubProcessors(p) ==
  \E C \in SUBSET {c \in Children(p) : doing[c] = "none"} \ {{}} :
    /\ doing' = [q \in Processor |->
                   CASE q = p -> "child" [] q \in C -> "gate" [] OTHER -> doing[q]]
    /\ wired' = wired \cup C
    /\ late' = IF aborted[p] \/ p \in late THEN late \cup C ELSE late
    /\ bornPaused' = IF paused[p] THEN bornPaused \cup C ELSE bornPaused
    /\ UNCHANGED <<aborted, paused, emissions, globals, due>>

SetGlobal(p) ==
  /\ globals' = TRUE
  /\ emissions' = Append(emissions, Emission(p, "globalSet", p))
  /\ doing' = [doing EXCEPT ![p] = "working"]
  /\ UNCHANGED <<wired, aborted, paused, late, bornPaused, due>>

WaitForGlobal_Unchecked(p) ==   \* mutant: does not look whether it is set
  /\ doing' = [doing EXCEPT ![p] = "global"]
  /\ UNCHANGED <<wired, aborted, paused, emissions, globals, late, bornPaused, due>>
WaitForGlobal(p) ==
  /\ doing' = [doing EXCEPT ![p] = IF globals THEN "working" ELSE "global"]
  /\ UNCHANGED <<wired, aborted, paused, emissions, globals, late, bornPaused, due>>

(* requestUserInput and waitEvent: no look at a signal that is aborted. *)
WaitForHost(p) ==
  /\ \E kind \in {"input", "event"} : doing' = [doing EXCEPT ![p] = kind]
  /\ late' = IF aborted[p] THEN late \cup {p} ELSE late
  /\ UNCHANGED <<wired, aborted, paused, emissions, globals, bornPaused, due>>

AbortGraph(p) ==
  /\ AbortOf(p, [doing EXCEPT ![p] = "working"])
  /\ UNCHANGED <<wired, paused, globals, late, bornPaused>>

DoActivity(p, k) ==
  /\ k \in todo[p]
  /\ todo' = [todo EXCEPT ![p] = @ \ {k}]
  /\ \/ k = "child" /\ CreateSubProcessors(p)
     \/ k = "set" /\ SetGlobal(p)
     \/ k = "global" /\ WaitForGlobal(p)
     \/ k = "ask" /\ WaitForHost(p)
     \/ k = "abort" /\ AbortGraph(p)

(* A node starts at the pause gate, and not in an aborted graph; once it has
   started, neither stops it. *)
NodeStep(p) ==
  \E k \in todo[p] :
    /\ doing[p] = "working" \/ (doing[p] = "gate" /\ ~ paused[p] /\ ~ aborted[p])
    /\ DoActivity(p, k)

NodeEnds(p) ==
  /\ doing[p] = "working"
  /\ doing' = [doing EXCEPT ![p] = "gate"]
  /\ UNCHANGED <<todo, stateVars, wired, emissions, globals, late, bornPaused, due>>

(* The queue is idle, be it that nodes were excluded: the run ends. *)
GraphEnds(p) ==
  /\ doing[p] = "gate"
  /\ ~ paused[p] \/ aborted[p] \/ todo[p] = {}
  /\ doing' = [doing EXCEPT ![p] = "over"]
  /\ emissions' = IF p = Root THEN emissions ELSE Append(emissions, Emission(p, "graphEnd", p))
  /\ UNCHANGED <<todo, stateVars, wired, globals, late, bornPaused, due>>

(* processGraph of a child settles after the listeners of its last event. *)
ChildSettles(p) ==
  /\ doing[p] = "child"
  /\ \A c \in Children(p) : ~ Live(c)
  /\ \A i \in DOMAIN emissions : emissions[i].event = "graphEnd" => emissions[i].at \notin Children(p)
  /\ doing' = [doing EXCEPT ![p] = "working"]
  /\ UNCHANGED <<todo, stateVars, wired, emissions, globals, late, bornPaused, due>>

-----------------------------------------------------------------------------
(* At the root they are the host's. *)
Forwarded(e) ==
  IF e.at = Root \/ (e.event = "graphEnd" /\ ParentOf[e.at] = Root) THEN <<>>
  ELSE <<Emission(ParentOf[e.at], e.event, e.of)>>

Wake(procs) ==
  doing' = [q \in Processor |-> IF q \in procs THEN "working" ELSE doing[q]]

(* The parent takes a child's pause or resume for its own. *)
DeliverControl_RootOnly(e, queue) ==   \* mutant: subgraphs do not hand it on
  /\ Switch({}, IF e.at = Root THEN e.to \cap wired ELSE {}, e.event = "pause", queue)
  /\ UNCHANGED <<doing, aborted, wired, due>>
DeliverControl(e, queue) ==
  LET hears == e.to \cap wired
      up == IF e.at \in hears THEN {ParentOf[e.at]} ELSE {}
  IN /\ Switch(up, hears \ {e.at}, e.event = "pause", queue)
     /\ UNCHANGED <<doing, aborted, wired, due>>

(* A processor tells its own last event from those that it forwards. *)
OwnEvent_Any(e) == TRUE   \* mutant
OwnEvent(e) == e.of = e.at

DeliverGraphEnd(e, queue) ==
  /\ wired' = IF OwnEvent(e) THEN wired \ {e.at} ELSE wired
  /\ emissions' = queue \o Forwarded(e)
  /\ UNCHANGED <<doing, stateVars, bornPaused, due>>

(* On its way up it is emitted under the name of the global, too; the waiters
   are all at the root. *)
DeliverGlobalSet(e, queue) ==
  /\ emissions' = queue \o
       (IF e.at = Root THEN <<Emission(Root, "globalSet:id", e.of)>> ELSE Forwarded(e))
  /\ UNCHANGED <<doing, stateVars, wired, bornPaused, due>>

DeliverToWaiters(e, queue) ==
  /\ Wake({q \in e.to : doing[q] = (IF e.event = "userEvent" THEN "event" ELSE "global")})
  /\ due' = IF e.event = "userEvent" THEN due \ e.to ELSE due
  /\ emissions' = queue
  /\ UNCHANGED <<stateVars, wired, bornPaused>>

Deliver ==
  /\ emissions # <<>>
  /\ LET e == Head(emissions)
         queue == Tail(emissions)
     IN CASE e.event \in {"pause", "resume"} -> DeliverControl(e, queue)
          [] e.event = "graphEnd" -> DeliverGraphEnd(e, queue)
          [] e.event = "globalSet" -> DeliverGlobalSet(e, queue)
          [] OTHER -> DeliverToWaiters(e, queue)
  /\ UNCHANGED <<todo, globals, hostCalls, late>>

-----------------------------------------------------------------------------
(* The host has the root processor only. *)
TurnAllowsCall == OneCallPerTurn => emissions = <<>>

HostSwitches ==
  /\ TurnAllowsCall
  /\ hostCalls < MaxHostCalls /\ Live(Root)
  /\ hostCalls' = hostCalls + 1
  /\ Switch({Root}, {}, hostCalls % 2 = 0, emissions)
  /\ UNCHANGED <<runVars, aborted, wired, globals, late, due>>

HostAborts ==
  /\ TurnAllowsCall
  /\ Live(Root) /\ ~ aborted[Root]
  /\ AbortOf(Root, doing)
  /\ UNCHANGED <<todo, paused, wired, globals, hostCalls, late, bornPaused>>

(* userInput and raiseEvent go down all processors that there were. *)
UserInput(p) ==
  /\ TurnAllowsCall
  /\ doing[p] = "input"
  /\ Wake({p})
  /\ UNCHANGED <<todo, stateVars, wired, emissions, globals, hostCalls, late, bornPaused, due>>

RaiseEvent ==
  /\ TurnAllowsCall
  /\ \E p \in Processor : doing[p] = "event" /\ p \notin due
  /\ \E order \in InnermostFirst({p \in Processor : doing[p] = "event"}) :
       emissions' = emissions \o Emissions(Reverse(order), "userEvent")
  /\ due' = {p \in Processor : doing[p] = "event"}
  /\ UNCHANGED <<runVars, stateVars, wired, globals, hostCalls, late, bornPaused>>

Work(p) ==
  /\ NodeStep(p) \/ NodeEnds(p) \/ GraphEnds(p) \/ ChildSettles(p)
  /\ UNCHANGED hostCalls

Over == doing[Root] = "over" /\ emissions = <<>>

TreeNext ==
  \/ Deliver
  \/ \E p \in Processor : Work(p) \/ UserInput(p)
  \/ HostSwitches \/ HostAborts \/ RaiseEvent
  \/ UNCHANGED treeVars

TreeSpec == TreeInit /\ [][TreeNext]_treeVars

(* Microtasks run and process() goes on; the host owes nothing. *)
FairTreeSpec == TreeSpec /\ WF_treeVars(Deliver) /\ \A p \in Processor : WF_treeVars(Work(p))

-----------------------------------------------------------------------------
(* Every variable has its type, and a processor that runs is wired to a parent
   that awaits it, until the last event of its graph is out. *)
TreeTypeOK ==
  /\ doing \in [Processor -> {"none", "gate", "working", "child", "input",
                              "event", "global", "over"}]
  /\ todo \in [Processor -> SUBSET {"child", "abort", "set", "ask", "global"}]
  /\ {aborted, paused} \subseteq [Processor -> BOOLEAN]
  /\ wired \cup bornPaused \subseteq Processor \ {Root} /\ late \cup due \subseteq Processor
  /\ \A c \in Processor \ {Root} : Live(c) => doing[ParentOf[c]] = "child"

(* Once the events are out, no subgraph that can go on is left paused under a
   parent that is not: nobody would ever resume it. *)
NobodyLeftPaused ==
  emissions = <<>> =>
    \A c \in Processor \ {Root} :
      Live(c) /\ ~ aborted[c] /\ paused[c] => paused[ParentOf[c]]

(* Once the events are out a pause holds in every subgraph, but for those that
   a node created while it lasted. *)
PauseIsShared ==
  emissions = <<>> =>
    \A c \in Processor \ {Root} :
      Live(c) /\ ~ aborted[c] /\ paused[ParentOf[c]] => paused[c] \/ c \in bornPaused

(* The tree answers a pause as one: nobody goes on through it, and nobody is
   left behind by the resume that ends it. *)
TreePausesAsOne == NobodyLeftPaused /\ PauseIsShared

(* An abort is in every subgraph at once, but for those that began after it,
   and a processor that is on has one above it that waits for it. *)
AbortReachesAll ==
  TreeTypeOK /\ \A c \in Processor \ {Root} :
    Live(c) /\ aborted[ParentOf[c]] => aborted[c] \/ c \in late

(* An abort ends the run, paused or not; only a node that waits for a global,
   or that began to wait after the abort, can keep it. *)
Kept == \E p \in Processor : doing[p] = "global" \/ (p \in late /\ Live(p))
AbortEndsRun == aborted[Root] ~> Over \/ Kept

(* Who waits for a global hears of it wherever it is set, also by a subgraph
   that has ended, and when both happen at once. *)
GlobalIsHeard == globals ~> \A p \in Processor : doing[p] # "global"

(* A user event gets to every node that waited for it when it was raised. *)
EventIsHeard == \A p \in Processor : p \in due ~> p \notin due

(* Who waits for a global or a user event hears of it. *)
WaitersHear == GlobalIsHeard /\ EventIsHeard

(* What the host called last holds in the end. *)
LastCallHolds ==
  hostCalls = MaxHostCalls ~>
    []\A p \in Processor : Live(p) /\ ~ aborted[p] => paused[p] = (MaxHostCalls % 2 = 1)
=============================================================================
