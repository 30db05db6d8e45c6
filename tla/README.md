# Rivet 2.0: the graph processor in TLA+

Rivet is a visual programming environment for AI applications: a project holds
graphs of nodes, and a `GraphProcessor` (`packages/core/src/model/GraphProcessor.ts`)
runs a graph. This directory models that processor and what surrounds it, checks
the models with TLC and proves their main properties with TLAPS.

## 1. The system

| component | state it keeps | operations | what makes it correct |
|---|---|---|---|
| compatible scheduler | the processing queue, `queuedNodes`, `currentlyProcessing`, `visitedNodes`, `erroredNodes`, `nodeResults`, the outputs | demand a node and its inputs, try a node, exclude it, process it, settle it and push its readers; pause, resume, abort | a node is processed once and by one job; a decision is never contradicted later; no node is forgotten; every run ends; its events are those the graph explains |
| fast-acyclic scheduler | counts of missing inputs, ready nodes, active nodes | pump, settle | the same promise to observers as the compatible one |
| run envelope | `running`, `finishEmitted`, preloaded results, the debugger attached | `processGraph`, `preloadNodeData`, `abort` | one `finish` per run, events in order, a run does not see another one's state |
| loops and races | attached node data, nodes to run again | post-process a controller, complete a race | iterations stay in step and the loop goes on until its break; losers are cancelled and are no failures |
| split runs | the items, their abort controllers and results | sequential and parallel items | outputs only when every item has its own; a failure is reported; the bound on parallel items; an abort reaches every item |
| subprocessor bridge | the parent's and the child's pause and abort | pass pause, resume and abort on; unsubscribe | an abort of the parent ends the child; no event comes back in circles |
| user input, user events, globals | pending promises by node, by event, by name | ask, answer, raise, wait | every waiter is woken by its answer or by the abort |
| graph preprocessing | lists of connections, strongly connected components, the execution plan | `GraphPreprocessor`, `CycleDetector` | the components are those of the definition; a node is woken by what it waits for; the fast scheduler gets no circle |
| code runner worker pool | idle workers, ready or not | `run`, fill, remove a failed worker, `shutdown` | a worker is handed out once; none survives `shutdown` |
| debugger server | connections, heartbeats, attached processors, the uploaded project | upload, run, attach, detach, pause, resume, abort, time a peer out | every request is answered; an abort reaches every run; a live peer is not dropped |
| executor session | one socket, a reconnect timer, the upload cache, those who wait | connect, replace, disconnect, retry, send a run | one live socket; no retry after a disconnect; no run without its project; nobody waits on a session that is gone |
| recorder and player | the recorded events | record, play, pause, abort | replay is the recorded order |
| nodes, chat clients, plugins, UI, CLI, Trivet | none that is shared | one call each | not a matter of scheduling |

The parts call each other in one direction: the app (or the CLI, or a program)
calls the processor directly, or through the debugger server when the executor
runs in a process of its own; the processor calls the nodes; a subgraph node
calls a processor of its own, bridged to its parent; code nodes call the worker
pool. What comes back is events.

The hard part is that all of it is asynchronous. JavaScript runs one piece of
code at a time, but every `await` lets the others in: other jobs of the queue,
the host's `pause()`, `resume()` and `abort()`, the listeners of events. So a
check may be stale when its result is used, a wakeup may come before its waiter
and an error after the abort that caused it. The file `PROJECT.json` lists
these hazards at their lines, with the properties that cover them, or a note
where none does.

## 2. The modules

```
ProjectGraph            the graph, readiness and exclusion (no variables)
  NodeLifecycle         what a run promises its observers (abstract)
  GraphProcessor        the compatible scheduler; implements NodeLifecycle
    GraphProcessorMC    graphs for TLC
    GraphProcessorInv   the inductive invariant
      GraphProcessor_proofs   types, decisions, no lost wakeup, the refinement
  FastAcyclicScheduler  the fast scheduler; implements NodeLifecycle too
    FastAcyclicSchedulerMC    graphs for TLC
    FastAcyclicSchedulerInv   the inductive invariant
      FastAcyclicScheduler_proofs      types, the one try, the refinement
NodeProcessing          what both schedulers do with a node and its events
  NodeProcessing_proofs   what its operators preserve, for both
SplitRun                one node from its start to its last event
  SplitRun_proofs
LoopsAndRaces           the compatible scheduler on a graph with a loop and races
  LoopsAndRacesMC
  LoopsAndRaces_proofs  races, types, loops
GraphPreprocessing      connections, cycles and the execution plan
  GraphPreprocessingMC
  GraphPreprocessingInv   the inductive invariant
    GraphPreprocessing_proofs
ProcessorRuns           one processor used for several runs
  ProcessorRunsMC
Subprocessors           a processor, those of its subgraphs, and who waits in them
  SubprocessorsMC
DebuggerServer          the Node executor's server and its runs
  Processor_proofs      about these three
CodeWorkerPool          the threads that run code nodes
  CodeWorkerPoolMC
ExecutorSession         the app's session with an executor
  ExecutorSessionMC
  Services_proofs       about both
```

`GraphProcessor` and `FastAcyclicScheduler` extend `NodeProcessing`, which
extends `ProjectGraph`: the state of a node and the steps that store an outcome
are written, and proved about, once. Two of the proof modules hold the proofs
of several components that share no state, whose definitions have names of
their own therefore (`TreeSpec` and `TreeInit` in `Subprocessors`, `ServerSpec`
and `ServerInit` in `DebuggerServer`, `PoolSpec` and `PoolInit` in
`CodeWorkerPool`).

### ProjectGraph

The graph is a set of nodes and a set of connections, with the attributes the
two policies read: `isConditional` and its `if` port, `disabled`, missing
required inputs, and the nodes that may consume an excluded value. The values
that flow are abstracted to what `NodeExclusionPolicy.ts` tells apart:
`"excluded"`, and on an `if` port `"truthy"` or `"falsy"` (an absent value is
falsy, as `coerceToBoolean` makes it). At most one connection joins two nodes,
so a port is named by its connection. `RunTo = {}` stands for an undefined
`runToNodeIds`.

### GraphProcessor

An action is the code between two awaits. A job of the queue is
`<<kind, by, node>>`: `start` for a start node, `fetch` for an input that `by`
demands, `push` for a reader that `by` wakes. Its stages are the awaits of the
code:

| stage | where the code stands |
|---|---|
| `queued` | in the PQueue |
| `fetched` | inputs demanded, about to try the node (`#fetchNodeDataAndProcessNode`) |
| `starting` | awaiting the `nodeStart` listeners |
| `paused`, `resumed` | in `#waitUntilUnpaused`; `resumed` when the event is on its way |
| `running` | in the node's `process()` |
| `settling` | awaiting the last event of the node; its readers will be pushed |
| `stopping` | the same after a successful abort: the readers are not pushed |
| `done` | left the queue |

A try (`#processNodeIfAllInputsAvailable`) is one step up to its first await:
`SkipNode`, `ExcludeNode` or `BeginNode`. A demand and the try that follows it
are two steps, because `addAll` may start the jobs of the inputs in between.
The order of the PQueue is abstracted to a set of queued jobs: the properties
hold whatever job is served next.

`runPhase` is where `processGraph()` stands. `Resume` marks the waiters of that
moment, and they go on later whatever `isPaused` says by then, because the event
is emitted detached. `Abort` may come from the host or from a node, with either
value of `successful`; a successful abort has no error message, as in every
caller in the repository.

### FastAcyclicScheduler

`#canUseFastAcyclicScheduler` chooses it only for a graph without cycles, loops,
races and split runs, and a run without requested nodes, preloaded data, slow
mode and trace; what of that the model can say is `FastAssumption`. `activity` is where a
node is: waiting for inputs, in the ready list, then the awaits of its
processing as above, `returned` when `#processNodeIfAllInputsAvailable` is
settled and its readers are not counted down yet, `leaving` between that
callback and the one that gives up the slot and pumps, `done`. `pumping` says
that the synchronous loop that fills the slots is on: nothing else moves until
it ends, whichever ready nodes it takes. The order of the ready list is
abstracted to a set.

### NodeLifecycle

The abstract run: a node starts, finishes, fails, is excluded or is cancelled,
each when the graph and the events so far explain it, and the run resolves or
rejects as its events say. `GraphProcessor` implements it under the mapping in
`GraphProcessor.tla` (`Lifecycle`): `stop` is read off the two abort flags,
`outcome` off the phase. So does `FastAcyclicScheduler`: an observer cannot
tell one scheduler from the other by anything the abstract run forbids.
What it promises the caller of `run()` is `OutcomeIsEarned`: the run settles
when no node is at work any more, and resolves or rejects for a reason.

### ProcessorRuns

A call of `run()` of the Node package is at one of the awaits of
`processGraph`: `starting` (references, `start`, `graphStart`, the pause gate),
`processing` (a scheduler), `erroring` (`graphError`, `error`), `finishing`
(`graphFinish`, `done`), `ending` (`finish`), `closing` (the finally block). The
two flags that decide about a new run, `running` and `remoteDebuggerAttached`,
are kept apart from the truth they stand for: the calls that are busy, and
whether the debugger server listens (`attached`). `StartsFrom` says at which
stages of one call the host may make another. `visitedNodes` is abstracted to
where its nodes come from.

### CodeWorkerPool

Workers are numbered in the order of their creation, which is the order of the
pool. `status` is the worker's own; a run is `awaiting` an entry that it took
from the pool, or a `cold` worker that it started, or `coding`. Filling the pool
and the way from a ready worker to its request are one step, as nothing but
microtasks lies between; the loop of `#acquireWorker` is one action for each
turn.

### SplitRun

The part of a node that `GraphProcessor` takes for one `process()`: from
`processNode` through `SplitRunProcessor` to the last event of the node.
`stage` is where the node stands (`starting` awaits the `nodeStart` listeners,
`items` the calls of `process()`, `finishing`, `erroring` and `excluding` the
last event); `item[i]` is where the i-th item stands: queued, at the pause gate,
running, or how it settled. A node that is not split is a run of one item.
`nodeAbortControllers` is the entry of the map under the node's id, from which
each item takes itself out. A sequential run takes its items in turn and drops
what it has when an abort comes between two; a parallel one runs a limited
number at a time and waits for all. Listeners of `nodeStart` and `nodeFinish`
may throw: the first error escapes the job (`rejected`), the second makes an
errored node of one that has outputs.

### LoopsAndRaces

The compatible scheduler again, reduced to what loops and races need and
extended by what they add: the attached data of a node (the races it runs for,
the loop it is in), `loopControllersSeen`, the outcomes and sets that a loop
controller clears when it goes round, and the branches that a finished race
cancels. `proc` holds the nodes being processed, each with its stage, the
signal it got and what it read; `queue` the demands and the tries. As in
`GraphProcessor`, an action ends at an await, so the last event of a node
(`Emitted`) may come long after its `process()` returned, and the
post-processing of a controller or a race after that. Two variables are
history: `stamp` is the set of iterations of the loop that an outcome rests on,
through whatever it was made from, and `late` has the nodes that were attached
to a race when it was over. The code does that: `#fetchNodeDataAndProcessNode`
hands the races of a node to its inputs with `completed: false`, also when the
node's own are completed. What the race properties promise is promised to all
others.

The wait for the `nodeStart` listeners is not a stage of its own here, since
only the end of a race tells it from `process()`: a loser that is still there
has no abort controller yet, gets no signal, and runs to its end. So
`HandleCompletedRace` signals any of the losers that are being processed. An
abort of the graph reaches that node too, when it makes its controller.

The loop properties are not true of every graph. `ClosedLoop`, `PassableGraph`
and `PromptLoop`, the last a condition on steps, say of which graphs and which
listeners they are; section 4 says what each part of them excludes.

### Subprocessors

A tree of processors. Each is reduced to a sequence of nodes, and a node to
activities: create subprocessors and await them, abort the graph, ask for user
input or an event, set a global, wait for one. What is modelled in full is what
passes between them. `emissions` are the events that are emitted and not yet
delivered; an event goes to the listeners there were when it was emitted and
that are still there at delivery, as the emitter of the code does it a microtask
later. `wired` says that the listeners of `SubprocessorBridge` are there.
Abort is synchronous, by signals (`AbortOf`); pause and resume are events that
go down to children and up to parents (`DeliverControl`); the listeners of a
child go with the last event of its graph (`DeliverGraphEnd`). Waiters of user
input are answered by id, those of user events by an event that goes down all
processors, and those of a global by one that climbs to the root.

### GraphPreprocessing

Sequential code, as a state machine whose steps are the turns of its loops:
`DefineNode` asks one node for its ports and drops the connections that have
none, `NextRoot`, `Descend`, `LookAtVisited` and `Return` are Tarjan's search
with its recursion as a stack of calls. What the execution plan and the
scheduler's own lookups read off the result are operators
(`InputConnections`, `StartNodes`, `UnplannedDependencies`,
`CanUseFastAcyclicScheduler` and others). The order in which nodes are defined
matters: a passthrough node has ports that follow from its connections, so the
connection of a later node may already have given it one.

### DebuggerServer

The server of `debugger.ts` with its heartbeats and the run handler of the Node
executor. A client is one connection: `socket` is the server's view of it,
`reachable` the truth. A heartbeat waits for a pong (`awaitingPong`) with a
timer (`timeouts` tells the timer of the last ping from older ones); every
message, sent or received, counts as a sign of life. `run` is how far a request
is: `assembling` its plugins and processor, on, `waiting` for a dataset,
`drained`, `over`. Pause and resume go to all attached processors in one step;
an abort message takes a copy of the list and awaits one abort after the other
(`abortLoop`). Requests for datasets go to the newest connection
(`onrequest`), whoever asked for the run.

### ExecutorSession

The app's side. `socket` is each web socket with the messages on their way to
the app (`inbox`) and what its server holds and was asked; `session` the closure
variables of `createExecutorSessionRuntime`; the coordinator, the upload cache
and the pending promises act in the same steps as the session, since its
callbacks are synchronous. A socket that was replaced goes on for a while: its
late opening, messages and close must change nothing (`IsStale`). A run is
planned, reads settings across an await (`settings`), is sent with or without
its project, and settles by an answer or by the end of the session. `project`
is a version: an edit or a change of settings makes another one.

## 3. What is checked

| run | instance | what it shows |
|---|---|---|
| `GraphProcessor_run_to` | partial execution of five nodes, a to b to d, c to d, d to e: a frozen and feeding the `if` port of b, c preloaded, d and e requested, d merging excluded values; two jobs at a time; pause, resume and abort at every moment | `OneJobPerNode`, `DecisionsStand`, `NoStall`, `ImplementsLifecycle`, `RunTerminates` |
| `FastAcyclicScheduler_kite` | six nodes on paths of two and three connections to one, two slots; a frozen, a conditional and a disabled node and one that misses an input; pause, resume and abort | `ReadyNeverWaits`, `OnlyErrorsHoldBack`, `ImplementsLifecycle`, `RunTerminates` |
| `LoopsAndRaces_race_then_loop` | a race of two branches starts a loop of three nodes that turns up to three times; a branch, what it needs three levels up and the body may fail, the body may be excluded; an abort | `LoopIsSound`, `LoopGoesOn`, `WonRaceIsNoFailure`, `NoLoserStarts`, `RunEnds` |
| `SplitRun_items` | a node run once, or over up to five of six items in turn or three at a time; failing items, throwing listeners, pause, resume, abort | `OutcomeIsWhole`, `AbortIsHeeded`, `AbortEndsNode` |
| `Subprocessors_tree` | a root, two subgraphs at a time and a subgraph of one; the host acts once per turn, a subgraph may abort itself | `TreePausesAsOne`, `AbortReachesAll`, `AbortEndsRun`, `WaitersHear` |
| `Subprocessors_doc_resume` | one subgraph, `pause()` and `resume()` in one turn | `LastCallHolds` fails: the resumed processor is paused again (finding) |
| `ProcessorRuns_in_turn` | three calls of `run()`, made while a run is on or after it | `RunIsGuarded`, `FinishPerRun`, `DebuggerSeesRun` |
| `CodeWorkerPool_runs` | two runs, two idle workers, one failure, a shutdown | `OneRunPerWorker`, `NoDeadWorkerIsUsed`, `WorkersHaveOwners`, `ThreadsAreBounded`, `EveryRunIsServed` |
| `GraphPreprocessing_graphs` | all 4096 graphs of four nodes by one port each, and 2048 with a passthrough node, missing ports, parallel, dangling and self connections | `ComponentsAreCycles`, `NeighboursAgree`, `FastNodesNeverWaitInACircle` |
| `DebuggerServer_editors` | two editors, one over a connection that may die silently; two runs, one reading a dataset; pauses and one abort message | `RequestsAreAnswered`, `AbortsReachAll`, `HeartbeatIsFair` |
| `ExecutorSession_reconnect` | an internal executor, a debugger and a URL that is refused; two sockets, a run of the editor, one of the tests, an edit | `SessionIsWhole`, `UploadsAreOfThisSession`, `ResultsAreOwn`, `RunsSettle`, `ReconnectEnds` |
| `ExecutorSession_doc_node_mode` | the same | `NodeModeKeepsSession` fails: a refused URL ends the session of Node mode (finding) |

`OutcomeIsWhole`, `AbortIsHeeded`, `LoopIsSound` and `SessionIsWhole` are
conjunctions of named parts, the type invariant of the module among them where
no run would check it otherwise. The type invariants of the other proved modules
are theorems and are not run.

### Bounds, and why they are enough

- Schedulers. The graph of `GraphProcessor_run_to` is the least that has a node
  with two inputs that settle independently, a path longer than another, an
  exclusion on the way, and a requested node behind a requested one, which is
  where the demand of the code stops and goes on. The fast scheduler's six nodes
  have three ways into one node, of two lengths. Two jobs at a time are the
  least that interleave. Nothing else is bounded: the state spaces are complete.
- `LoopsAndRaces`: a loop of three nodes has a body whose two nodes see the
  controller one after the other, so that one may be an iteration behind; three
  iterations make one that is neither the first nor the last. Two branches make
  a winner and a loser. The longer one has a need three levels above the race,
  which is fetched before the race is over or after it, and not started yet when
  the race ends. The graph is closed and passable (`LoopIsClosed` and
  `GraphIsPassable`, which TLC evaluates), and TLC finds `PromptLoop` true of it,
  so the instance is one of those that the theorems about loops speak of.
- `SplitRun`: more items than slots, and arrays longer than `splitRunMax`, so
  that the cut and the queue both happen.
- `Subprocessors`: two children tell siblings apart, a grandchild makes events
  climb and fall through a processor in between. Two host calls
  (`MaxHostCalls`) are one pause and one resume, as they take turns and each
  may come at any time. Every activity happens at most once per processor.
- `ProcessorRuns`: three calls are the least in which a run meets both the one
  before it and the one after.
- `CodeWorkerPool`: two runs on a pool of two find two entries, one or none, and
  two entries let one fail while `shutdown()` waits for the other;
  `MaxFailures` bounds the idle workers that fail, each of which is replaced.
- `GraphPreprocessing`: four nodes hold two cycles, joined or apart, and a node
  that belongs to none; the faulty family has every kind of bad connection.
- `DebuggerServer`: one editor suffices as the one that stays, one as the one
  that goes (`Unsteady`); a run asks for a dataset once. Two runs make the
  abort loop have a next one.
- `ExecutorSession`: two sockets are the old and the new one; a third would need
  two replacements while the first still closes (`Sockets` is a bound on those
  not closed). `MaxVersion = 2` makes an upload that is out of date.

`CHECK_DEADLOCK FALSE` is said where the host, or all connections, may have
nothing left to do.

### Fairness

Nothing is ever assumed of a host or a user: they may pause for ever, never
answer and never abort.

- Both schedulers: weak fairness of every job and of the envelope, since the
  PQueue serves what it holds, listeners return and `process()` ends.
  `RunTerminates` asks that the graph be unpaused again and again, or be
  aborted, which ends it even at the pause gate.
- `SplitRun`, `LoopsAndRaces`: weak fairness of the steps of the node and of the
  scheduler, for the same reasons.
- `Subprocessors`: emitted events are delivered (microtasks) and nodes go on.
- `CodeWorkerPool`: a thread that starts comes up or fails, and a run whose
  promise is settled goes on; code may run for ever.
- `DebuggerServer`: timers fire, callbacks of sends come, plugins load, an
  editor that hears a request for a dataset answers it, a run that nobody holds
  back runs dry, and the handler of an abort goes on. A peer that is gone does
  nothing at all.
- `ExecutorSession`: timers fire, messages arrive, closing sockets close, the
  settings are read and a server answers on an open socket. No connection need
  ever succeed.

## 4. What is proved

The theorems hold for every value of the constants that the assumptions of the
modules allow: TLC shows a property on one instance, the theorem on all of
them. Each rests on an inductive invariant, most of which TLC has checked too.

### Schedulers

The compatible scheduler, for every acyclic graph of any number of nodes, every
concurrency, every `runToNodeIds` and every set of preloaded or frozen nodes
(assumptions `GraphAssumption`, `AcyclicAssumption`, `ProcessorAssumption`):

| theorem | of | by |
|---|---|---|
| `TypeCorrect` | `TypeOK` | a job takes a slot only in `FetchNodeData` and in a try out of the queue, both guarded |
| `ProcessedOnce` | `OneJobPerNode` | a job keeps its node, takes a free one or lets it go (`HoldStay`, `HoldEnter`, `HoldLeave`) |
| `DecisionsFinal` | `DecisionsStand` | an outcome is stored for a node that was not visited, a decision is made when all inputs were (`StoresFor`, `InputsKept`) |
| `NoLostWakeup` | `NoStall` | see below |
| `SchedulerImplementsLifecycle` | `ImplementsLifecycle` | a step of a job is one event of its node or none (`JobStepEvent`); the end of the run needs `NoStall` |
| `OutcomesAreEarned` | `OutcomeIsEarned` of the abstract run | the theorem before, and that the abstract run has the property (`EarnedOutcome`) |

None of the run's properties is inductive. `GraphProcessorInv` strengthens them in
layers: jobs are queued once (`FreshInv`, without it a job could be queued
again while it runs), only while the queue is drained (`PhaseInv`); the sets of
the code agree with the events (`LifeInv`, `StageInv`); and for the wakeups,
every demanded node that can go on has a job that will try it or an input that
will push it (`WakeInv`), and the demand reaches every start node and every
input of a demanded node (`DemandInv`). When the queue is idle a demanded node
without an outcome would need a demanded input without an outcome
(`IdleStall`), and so on upstream without end, which an acyclic graph does not
allow. A node behind a requested one is the exception the code makes, and
`NoCircularInput` shows that the exception is inherited by its readers.

The fast scheduler, for every acyclic graph that it may be chosen for:

| theorem | of | by |
|---|---|---|
| `FastTypeCorrect` | `TypeOK` | a slot is taken only by the pump and under its guard; a count is at least the number of inputs still pending, so it never passes below zero |
| `FastReadyNeverWaits` | `ReadyNeverWaits` | without an abort the count is that number, so a node becomes ready with its last input |
| `FastOnlyErrorsHoldBack` | `OnlyErrorsHoldBack` | when no node is active or ready, a node left out has an input left out, and so on upstream to an error |
| `FastDecisionsStand` | `DecisionsStand` | the operators of `NodeProcessing`, as for the other scheduler |
| `FastSchedulerImplementsLifecycle` | `ImplementsLifecycle` | a step is one event of its node or none; the end of the run needs `FastOnlyErrorsHoldBack` |
| `FastOutcomesAreEarned` | `OutcomeIsEarned` of the abstract run | the theorem before and `EarnedOutcome` |

### Split runs

For every length of the arrays, every `splitRunMax` and every number of items
at a time (`SplitRunAssumption`), with listeners that throw or not:

| theorem | of | by |
|---|---|---|
| `ItemsInvariant` | the invariant | one lemma for each action |
| `SplitRunIsWhole` | `OutcomeIsWhole` | an item is under way only while the node is at its items (`ItemsInv`); what has been emitted and stored is told by `stage` (`StageInv`); outputs are stored when every item has its own (`OutputsInv`) |
| `AbortReachesEveryItem` | `AbortIsHeeded` | items under way have a controller in the map, which the abort signals; one that ends later than a successful abort fails, or marks the node as ended by it (`LateInv`) |

`ExclusionInv` is the odd part: an excluded node may hide an item that failed,
in a sequential run that an abort met before its next item and nowhere else.

### Races and loops

For every graph, with a loop or without, every set of nodes that fail and every
concurrency (`LoopAssumption`):

| theorem | of | by |
|---|---|---|
| `WonRacesDoNotFail` | `WonRaceIsNoFailure` | `RaceInv`: a race that has a value and is not in process is `completed` in the data of every node attached to it, except those in `late` |
| `LosersDoNotStart` | `NoLoserStarts` | the same, and that a node enters `currentlyProcessing` only by a try, which `completed` stops |
| `LoopTypeCorrect` | `TypeOK` | a job is taken only into a free slot (`SlotInv`), and the data attached to nodes stays of its kind as it is merged (`DataInv`) |
| `OutsideLoopsOneJob` | `OneJobOutsideLoop`: no node is processed twice at a time but one the loop has registered | only a controller takes nodes out of `currentlyProcessing` that are in process, and only those of its loop (`BusyInv`) |

The exception of the first two is the code's and not the proof's: without `late`
both are false on a graph whose losing branch has needs two levels up (section
6). It was met when the induction step for a fetch would not go through.

What the loop promises is promised under conditions; TLC refutes it on small
graphs without them:

| theorem | of | if |
|---|---|---|
| `ClosedLoopsAreSound` | `LoopIsSound` | `ClosedLoop`, `PromptLoop` |
| `LoopsGoOn` | `LoopGoesOn` | `ClosedLoop`, `PromptLoop`, `PassableGraph` |

- `ClosedLoop`: all that the body feeds leads back to the controller. The
  controller waits for its inputs only, so a side branch may still run when the
  loop is cleared and is then started a second time beside itself. What the
  controller feeds is either in the loop or behind its break port, and no race of
  the body starts on some of its inputs.
- `PromptLoop`: no node of the loop begins while the last event of one it reads
  there is awaited. The loop's data is handed on, and the controller's body is
  cleared, only after that event, while the readers may begin from the moment the
  node is visited. A body node that something else wakes in between is not in
  the loop, is never cleared, and the run ends in mid-loop; a controller that
  begins there has its body processed twice. Listeners that return at once leave
  only microtasks for this to happen in.
- `PassableGraph`: every circle passes a controller that closes one, that leads
  to an end of the graph and that leads to no race; the body reads from
  outside the loop only what the controller reads too, as a controller that is
  tried before it was fetched never has the other needs of its body fetched; and
  what runs for a race runs for nothing else, as it is cancelled with it.

`TurningInv` is the invariant of the first. A node of the body begins in the
loop, after all that it reads and while the controller waits (`BodyInv`), the
controller finds its body untouched or done (`TurnInv`), and so what the body has
rests on the controller's last iteration alone (`StampInv`, `FitsInv`).

`GoingInv` adds, for runs that neither failed nor were aborted, that who can run
is woken: a node that was fetched, that has something to read, and that nothing
holds up has a try in the queue or an input whose last event is awaited and
will push it (`WakeFor`); and that what is needed is fetched (`FetchInv`). When
the queue is idle, a node that is left waits for an input that is left
(`LeftWaits`), so there is a circle of them (`LeftCircles`), so a controller is
among them; that controller has begun (`ControllerRan`) and, as its body is
done (`BodyRan`), has broken (`ControllerBroke`), so it is not left. TLC checked
both invariants on small random graphs, about sixty for the first
and more than a hundred for the second, before they were proved.

### Preprocessing

For every number of nodes, every finite set of connections between ports, and
every choice of passthrough nodes and required inputs
(`GraphPreprocessingAssumption`):

| theorem | of | by |
|---|---|---|
| `SearchInvariant` | the invariant `IInv` of `GraphPreprocessingInv` | see below |
| `SearchFindsCycles` | `ComponentsAreCycles` | a component found is strongly connected and has no way out but to earlier ones (`ComponentInv`), so those who reach each other share one |
| `PlanNeighboursAgree` | `NeighboursAgree` | a connection is listed under both ends or nowhere (`ListInv`), and nodes that were asked keep none without a port (`PortInv`) |
| `FastNodesCanAllRun` | `FastNodesNeverWaitInACircle` | a circle would lie in one component, and the plan refuses a component of two nodes; a walk upstream in a finite graph without circles ends at a start node |

The invariant is what makes Tarjan's search right, said of its stack of calls:
the callers are a path, and the nodes on the stack come after their caller and
lead back to it or an earlier one (`CallInv`, `DownInv`, `UpInv`); the low link
of a caller is the index of a node on the stack that it can reach (`LowInv`),
and bounds from below all that was seen from the nodes since (`BoundInv`). When
a call returns with its low link equal to its index, nothing on the stack above
it leads below it, and the part above is a component. Reachability is defined
by closed sets of nodes, not by paths, so no induction over data is needed.

### Runs of one processor

For every number of calls, assuming that the host makes none while a run is
finishing (`StartsFrom \subseteq Busy`; a listener of the last events that
starts another run refutes them, see section 6): `RunsTypeCorrect`,
`RunsAreGuarded`, `OneFinishPerRun`, `DebuggerSeesEveryRun`. The invariant says
that one call at most is between its start and its end, what each flag is at
each of its stages, and that `finishes` counts the runs past their finish event.

### The tree of processors

For every tree of processors of any depth and any activities of their nodes
(`SubprocessorAssumption`, `TreeAssumption`):

| theorem | of | by |
|---|---|---|
| `AbortsReachTheTree` | `AbortReachesAll` | a subgraph that runs has its listeners (`WiredInv`), and they go only with the last event of a graph that is over or aborted (`EndInv`); so an abort, which is one step down all that are wired, misses nobody below |
| `TreePausesTogether` | `TreePausesAsOne` | the events of pause and resume that are out all say the same, as the host calls once per turn (`WaveInv`); a child that differs from its parent has one on its way or was created in the pause (`EdgeInv`, `BornInv`) |

The second assumes `OneCallPerTurn`, as the run does: the finding of section 6
is what happens without it. `Line`, a processor and those above it, is defined
as the least closed set, and its lemmas (`LineLeast`, `LineOfChild`) stand for
induction over the tree.

### The debugger server

For every number of clients, requests and abort messages (`ServerAssumption`):

| theorem | what it states | by |
|---|---|---|
| `HeartbeatsAreTimely` | no timer is out but that of the last ping, and none on a socket that is not open | a ping goes out only when none is awaited, and whatever ends the wait or the socket clears the timer (`HeartbeatInv`) |
| `AttachedWhileServed` | a processor is in the server's list exactly while its run goes on, once, and is paused only there | `AttachInv`, by one lemma for each step of a run |
| `NoAnswerIsLost` | a run that is over was answered to the editor that asked for it, if its connection is not closed, and none was before | sockets only advance, and a run ends in one step with its answer (`AnswerInv`) |
| `AbortsPassNone` | an abort message goes over every processor it found, and leaves none before it was aborted or its run was over | the list it goes over is its own (`AbortInv`) |

They are the safety part of what the run checks under fairness:
`HeartbeatIsFair`, `RequestsAreAnswered`, `AbortsReachAll`.

### The worker pool

For every number of runs, size of the pool and number of failures:
`PoolTypeCorrect`, `WorkerServesOneRun`, `DeadWorkersAreNotUsed`,
`NoThreadIsLost`, `ThreadBound`. The invariant gives every worker at most one
owner (`OwnInv`) and ties its status to what the owner believes (`UseInv`); the
bound follows as the workers in use are the image of the runs that go on.

### The executor session

For every set of targets, sockets and runs, any number of edits up to
`MaxVersion` and every order of late messages:

| theorem | of | by |
|---|---|---|
| `SessionInvariant` | the invariant | one lemma for each action, over lemmas for what they share (`DroppedOK`, `OpenOK`, `SendOK`, `RunUpdate`) |
| `OneSessionOneSocket` | `SessionIsWhole` | every socket but the session's own is closed or closing, and its handlers are stale |
| `UploadsStayCurrent` | `UploadsAreOfThisSession` | the cache is dropped with the session, and only a server that allows uploads says so (`MessageInv`) |
| `RunsGetTheirResults` | `ResultsAreOwn` | a message without a request id comes only from the host of a debugger (`MessageInv`), and the editor's active run has been sent (`ActiveInv`) |

### What is only model-checked

- Liveness, since fairness and ENABLED are out of the prover's reach:
  `RunTerminates`, `RunEnds`, `AbortEndsNode`, `AbortEndsRun`, `WaitersHear`,
  `EveryRunIsServed`, `RunsSettle`, `ReconnectEnds`, and of the debugger server
  `RequestsAreAnswered`, `AbortsReachAll`, `HeartbeatIsFair`.
- `PromptLoop`, which is a condition of the theorems about loops. TLC finds it
  true of the run's graph, however slow its listeners are.

Every other property of a run that should pass is stated by a theorem.

## 5. What is assumed or left out

- In the two schedulers listeners do not throw. `SplitRun` has them throw around
  `nodeStart` and `nodeFinish`; those of `nodeError` and `nodeExcluded` never do.
- Outputs of nodes are chosen freely, except that a value is only told falsy
  where an `if` port asks.
- At most one connection joins two nodes in the schedulers and in
  `LoopsAndRaces`; a race inside a loop is left out there.
- `ProcessorRuns`: the run-scoped runtime cache and the tokenizer's error
  listener are left out, and the host preloads data only between runs.
- `CodeWorkerPool`: a worker reports in a task of its own, so no failure falls
  between an await and its continuation; the mark `failed` that the code checks
  there is part of `Rejected`. A terminated thread counts as gone at once.
- `Subprocessors_tree`: the host makes one call of pause or resume per turn; the
  finding is about two. Two requests for user input by one node id at a time are
  left out (the second takes the slot of the first, `GraphProcessor.ts:2415`).
- `GraphPreprocessing`: the plan cache between processors, and the definitions of
  subgraph nodes that ask for another graph's boundary, are left out.
- `DebuggerServer`: the callbacks by which a host routes clients to processors,
  user input and preload messages, static data, throttling and the sanitizing of
  payloads are left out.
- `ExecutorSession`: servers and sockets are external; tests run one after the
  other, as Trivet does; the editor runs only on an internal executor; a project
  version stands for the upload key and the settings of a run; static data, the
  dataset bridge, the display of events without a request id and the start of
  the desktop sidecar are left out. An aborted run settles as one in error.
- Costs, timings, traces, caches and profiling have no influence on control and
  are left out.

Not modelled: recording and playback; the nodes themselves; chat clients and
plugins (one call each, to a remote service); the user interface; the command
line, Trivet and the documentation site.

## 6. Where code and documents disagree

Two disagreements have a run (section 3) and are findings:

- `SubprocessorBridge.ts:62`: a subprocessor hands its own pause and resume back
  to its parent, so `pause()` and `resume()` in one turn end in an endless
  exchange between the two.
- `executorSession.ts:231`: a debugger URL that the `WebSocket` constructor
  refuses takes the internal session with it.

Others were met while modelling and have no run of their own. Documents are
under `packages/docs/docs/` unless said otherwise; `GraphProcessor.md` is
`api-reference/core/GraphProcessor.md`.

| code | what it does | document |
|---|---|---|
| `GraphProcessor.ts:1675` | a race is skipped when one of its inputs has failed, also if another one finishes | `node-reference/race-inputs.mdx:81` |
| `GraphProcessor.ts:1949` | a losing branch that awaits the listeners of its `nodeStart` when the race is won is not cancelled: it runs, and its result counts as one | `node-reference/race-inputs.mdx:67` |
| `GraphProcessor.ts:1646` | of two requested nodes, one of which depends on the other, only the other one is run | `GraphProcessor.md:282` |
| `GraphProcessor.ts:2331` | a subgraph that is created while its parent is paused starts unpaused, and runs until the next pause | `GraphProcessor.md:316` |
| `GraphProcessor.ts:1521` | what a losing branch needs and fetches only after the race was won is attached to it anew: it starts, and fails the run if it fails | `node-reference/race-inputs.mdx:67` and `:81` |
| `GraphProcessor.ts:1830` | a reader of a processed node runs too once its inputs are there, requested or not | `GraphProcessor.md:282` |
| `GraphProcessor.ts:857` | a node that waits at the gate starts by a `resume()` although the graph was paused again meanwhile | `GraphProcessor.md:214` |
| `GraphProcessor.ts:849` | a successful abort rejects the run that waits at the pause gate | `GraphProcessor.md:210` |
| `GraphProcessor.ts:1413` | a listener of the last events can start a run, and a third one overlaps it | the error of `processGraph`, and `packages/node/test/api.test.ts:343` for a concurrent run |
| `GraphProcessor.ts:988` | after `preloadNodeData` a later run finds the nodes of the earlier one visited | `GraphProcessor.md:294` |
| `GraphProcessor.ts:1665` | a controller is not held back by having been processed, so a late node of the body may run it again after its break | `node-reference/loop-controller.mdx:22` |
| `GraphProcessor.ts:1720` | a body node that begins while the controller's last event is awaited is not in the loop, so the run ends without a break or another iteration | `node-reference/loop-controller.mdx:22` |
| `debuggerProcessorAttachments.ts:149` | the server detaches a processor at `finish`, also from a run that a listener of that event has started | `developer-docs/EXECUTION-DATA-FLOW.md:986-988` |
| `useRemoteExecutor.ts:400` | frozen outputs are chosen by the session as it was when the run was asked for, and sent over the one there is after an await | `developer-docs/APP-ARCHITECTURE.md:1207` |
| `debugger.ts:225` | the abort loop awaits each abort, so a run that hangs keeps it from those behind | `user-guide/remote-debugging.md:31` |

Smaller observations of the same kind: an abort that comes while a run's plugins
are being assembled finds no processor; the Node executor reads the project
before an await and the settings after it (`executor.mts:157`, `:222`); requests
for datasets go to the newest connection, and if that one closes the run waits
for ever (`debugger.ts:133`); a node that is connected with itself by an output
that does not exist keeps the connection as an input; a side branch of a loop's
body may be processed twice at a time (`GraphProcessor.ts:1742`), and so may a
node of the body whose last event is still awaited when the controller begins, as
it counts as visited before that event (`:1965`); a controller that begins
before it is fetched never has the other needs of its body fetched (`:1488`);
a controller that is connected with itself is tried again for ever after its
break (section 4).

## 7. Plan

Done: both schedulers with their abstract run, loops and races, split runs,
subprocessors and their waiters, the runs of one processor, preprocessing, the
worker pool, the debugger server and the app's session; the proofs of section 4.

Left, in this order:

1. The recorder and the player.
2. Listeners that throw, in both schedulers.
3. A race inside a loop, and two connections between the same nodes.
4. `ExecutorSession` and `DebuggerServer` composed: the two ends of one socket.
