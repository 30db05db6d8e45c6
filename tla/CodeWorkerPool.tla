---------------------------- MODULE CodeWorkerPool ----------------------------
(***************************************************************************)
(* The pool of worker threads that run the code of Code nodes              *)
(* (AppExecutorCodeWorkerPool).  Workers are started ahead and kept idle;  *)
(* each serves one run of code and is terminated.  Runs, workers that come *)
(* up or fail, and shutdown() meet in every order.                         *)
(*                                                                         *)
(* Workers are numbered in the order of their creation, which is their     *)
(* order in idleWorkers too.  What a worker reports is a task of its own:  *)
(* it finds no await that could have gone on before.                       *)
(***************************************************************************)
EXTENDS Integers, FiniteSets

CONSTANTS
  Run,          \* calls of run()
  poolSize,
  MaxFailures   \* idle workers that fail, for TLC

ASSUME PoolAssumption == IsFiniteSet(Run) /\ poolSize \in Nat /\ MaxFailures \in Nat

Status == {"starting", "idle", "serving", "terminated", "failed"}
Living == {"starting", "idle", "serving"}
Stage == {"none", "awaiting", "cold", "coding", "done"}
Active == {"awaiting", "cold", "coding"}

VARIABLES
  created,          \* workers so far
  status,           \* of each of them
  idleWorkers,
  stage, has,       \* where each run is, and its worker (0: none yet)
  shutDown,
  closing,          \* the workers that shutdown() took and waits for
  shutdownDone,
  failures

runVars == <<stage, has>>
shutdownVars == <<shutDown, closing, shutdownDone>>
poolVars == <<created, status, idleWorkers, runVars, shutdownVars, failures>>

(* The statuses st of the workers so far, and k new ones. *)
CreateWorkers(k, st) ==
  /\ created' = created + k
  /\ status' = [w \in 1 .. created + k |-> IF w <= created THEN st[w] ELSE "starting"]

Missing_AfterShutdown(rest) == poolSize - Cardinality(rest)   \* mutant: fills a pool that is shut down
Missing(rest) == IF shutDown THEN 0 ELSE poolSize - Cardinality(rest)

FillIdleWorkers(rest, st) ==
  /\ CreateWorkers(Missing(rest), st)
  /\ idleWorkers' = rest \cup (created + 1 .. created + Missing(rest))

(* The constructor fills the pool. *)
PoolInit ==
  /\ created = poolSize
  /\ status = [w \in 1 .. poolSize |-> "starting"]
  /\ idleWorkers = 1 .. poolSize
  /\ stage = [r \in Run |-> "none"]
  /\ has = [r \in Run |-> 0]
  /\ shutDown = FALSE
  /\ closing = {}
  /\ shutdownDone = FALSE
  /\ failures = 0

-----------------------------------------------------------------------------
(* Runs *)

Oldest(w) == \A v \in idleWorkers : w <= v

RunAwaits(r, how, w) ==
  /\ stage' = [stage EXCEPT ![r] = how]
  /\ has' = [has EXCEPT ![r] = w]

AcquireWorker_NoShift(r) ==   \* mutant: the entry stays in the pool
  \/ \E w \in idleWorkers :
       /\ Oldest(w)
       /\ RunAwaits(r, "awaiting", w)
       /\ UNCHANGED <<created, status, idleWorkers>>
  \/ /\ idleWorkers = {}
     /\ RunAwaits(r, "cold", created + 1)
     /\ CreateWorkers(1, status)
     /\ UNCHANGED idleWorkers

(* The next entry of the pool, or a worker started for this run. *)
AcquireWorker(r) ==
  \/ \E w \in idleWorkers :
       /\ Oldest(w)
       /\ RunAwaits(r, "awaiting", w)
       /\ idleWorkers' = idleWorkers \ {w}
       /\ UNCHANGED <<created, status>>
  \/ /\ idleWorkers = {}
     /\ RunAwaits(r, "cold", created + 1)
     /\ CreateWorkers(1, status)
     /\ UNCHANGED idleWorkers

RunBegins(r) ==
  /\ stage[r] = "none"
  /\ AcquireWorker(r)
  /\ UNCHANGED <<shutdownVars, failures>>

(* The promise of the entry is rejected, or the entry is marked failed. *)
Rejected_OnlyFailed(w) == status[w] = "failed"   \* mutant: not by a shutdown
Rejected(w) == status[w] \in {"failed", "terminated"}

EntryDropped(r) ==
  /\ stage[r] = "awaiting"
  /\ Rejected(has[r])
  /\ AcquireWorker(r)
  /\ UNCHANGED <<shutdownVars, failures>>

(* The run has a worker that is ready: fill the pool again, send the code. *)
RunCode(r) ==
  /\ stage' = [stage EXCEPT ![r] = "coding"]
  /\ FillIdleWorkers(idleWorkers, [status EXCEPT ![has[r]] = "serving"])
  /\ UNCHANGED <<has, shutdownVars, failures>>

IdleWorkerAcquired(r) ==
  /\ stage[r] = "awaiting"
  /\ status[has[r]] = "idle"
  /\ RunCode(r)

ColdWorkerReady(r) ==
  /\ stage[r] = "cold"
  /\ RunCode(r)

CodeEnds_NotTerminated(r) ==   \* mutant: the worker is left as it is
  /\ stage[r] = "coding"
  /\ stage' = [stage EXCEPT ![r] = "done"]
  /\ UNCHANGED <<status, created, idleWorkers, has, shutdownVars, failures>>

(* A result, an error or the exit of the worker. *)
CodeEnds(r) ==
  /\ stage[r] = "coding"
  /\ stage' = [stage EXCEPT ![r] = "done"]
  /\ status' = [status EXCEPT ![has[r]] = "terminated"]
  /\ UNCHANGED <<created, idleWorkers, has, shutdownVars, failures>>

-----------------------------------------------------------------------------
(* Workers *)

StartedFor(w) == {r \in Run : stage[r] = "cold" /\ has[r] = w}

(* The callback of the entry's promise. *)
WorkerReady(w) ==
  /\ status[w] = "starting"
  /\ StartedFor(w) = {}
  /\ status' = [status EXCEPT ![w] = IF shutDown THEN "terminated" ELSE "idle"]
  /\ UNCHANGED <<created, idleWorkers, runVars, shutdownVars, failures>>

StartupFails_EntryKept(w) ==   \* mutant: nothing removes the entry
  /\ status[w] = "starting"
  /\ status' = [status EXCEPT ![w] = "failed"]
  /\ stage' = [r \in Run |-> IF r \in StartedFor(w) THEN "done" ELSE stage[r]]
  /\ UNCHANGED <<created, idleWorkers, has, shutdownVars, failures>>

(* An error or an exit before ready; no refill. *)
StartupFails(w) ==
  /\ status[w] = "starting"
  /\ status' = [status EXCEPT ![w] = "failed"]
  /\ idleWorkers' = idleWorkers \ {w}
  /\ stage' = [r \in Run |-> IF r \in StartedFor(w) THEN "done" ELSE stage[r]]
  /\ UNCHANGED <<created, has, shutdownVars, failures>>

(* An error or an exit of a worker that is not in use. *)
IdleWorkerFails(w) ==
  /\ failures < MaxFailures
  /\ status[w] = "idle"
  /\ \A r \in Run : stage[r] = "awaiting" => has[r] # w
  /\ failures' = failures + 1
  /\ \/ /\ w \in idleWorkers
        /\ FillIdleWorkers(idleWorkers \ {w}, [status EXCEPT ![w] = "failed"])
     \/ /\ w \notin idleWorkers
        /\ status' = [status EXCEPT ![w] = "failed"]
        /\ UNCHANGED <<created, idleWorkers>>
  /\ UNCHANGED <<runVars, shutdownVars>>

-----------------------------------------------------------------------------
(* shutdown() *)

Shutdown ==
  /\ ~ shutDown
  /\ shutDown' = TRUE
  /\ closing' = idleWorkers
  /\ idleWorkers' = {}
  /\ UNCHANGED <<created, status, runVars, shutdownDone, failures>>

(* Every promise that it took is settled. *)
ShutdownSettled ==
  /\ shutDown /\ ~ shutdownDone
  /\ \A w \in closing : status[w] # "starting"
  /\ status' = [w \in 1 .. created |->
                  IF w \in closing /\ status[w] = "idle" THEN "terminated" ELSE status[w]]
  /\ shutdownDone' = TRUE
  /\ UNCHANGED <<created, idleWorkers, runVars, shutDown, closing, failures>>

-----------------------------------------------------------------------------
RunStep(r) ==
  \/ RunBegins(r)
  \/ EntryDropped(r)
  \/ IdleWorkerAcquired(r)
  \/ ColdWorkerReady(r)
  \/ CodeEnds(r)

WorkerStep(w) ==
  \/ WorkerReady(w)
  \/ StartupFails(w)
  \/ IdleWorkerFails(w)

PoolNext ==
  \/ \E r \in Run : RunStep(r)
  \/ \E w \in 1 .. created : WorkerStep(w)
  \/ Shutdown
  \/ ShutdownSettled

PoolSpec == PoolInit /\ [][PoolNext]_poolVars

(* A thread that starts comes up or fails, and an await goes on.  Code may
   run for ever. *)
FairPoolSpec ==
  /\ PoolSpec
  /\ WF_poolVars(\E w \in 1 .. created : WorkerReady(w) \/ StartupFails(w))
  /\ \A r \in Run :
       WF_poolVars(EntryDropped(r) \/ IdleWorkerAcquired(r) \/ ColdWorkerReady(r))

-----------------------------------------------------------------------------
LivingWorkers == {w \in 1 .. created : status[w] \in Living}
Working == {r \in Run : stage[r] \in Active}
InUse == {has[r] : r \in Working}

(* Every variable has its type, and no more workers are idle than the size of
   the pool. *)
PoolTypeOK ==
  /\ created \in Nat
  /\ status \in [1 .. created -> Status]
  /\ idleWorkers \subseteq 1 .. created
  /\ Cardinality(idleWorkers) <= poolSize
  /\ stage \in [Run -> Stage]
  /\ has \in [Run -> 0 .. created]
  /\ {shutDown, shutdownDone} \subseteq BOOLEAN
  /\ closing \subseteq 1 .. created
  /\ failures \in 0 .. MaxFailures

(* A worker listens to one request only.  It is given to one run, and never
   returns to the pool. *)
OneRunPerWorker ==
  /\ \A r, s \in Run : has[r] = has[s] /\ has[r] # 0 => r = s
  /\ \A r \in Run : has[r] \notin idleWorkers

(* A worker that failed or was terminated is in nobody's reach: no run executes
   on it, and the pool does not offer it. *)
NoDeadWorkerIsUsed ==
  /\ \A w \in idleWorkers : status[w] \in {"starting", "idle"}
  /\ \A r \in Run : stage[r] = "coding" => status[has[r]] = "serving"

(* Every living thread has an owner that will terminate it: the pool, a run, or
   shutdown(); and once shutdown() is through, only runs have any. *)
WorkersHaveOwners ==
  /\ LivingWorkers \subseteq idleWorkers \cup InUse \cup closing
  /\ shutdownDone => LivingWorkers \subseteq InUse

(* Threads are bounded by the pool and the runs that are going on. *)
ThreadsAreBounded ==
  Cardinality(LivingWorkers) <= poolSize + Cardinality(Working)

(* A run gets to its code, or is told that no worker came up, whatever fails
   and whenever the pool is shut down. *)
EveryRunIsServed ==
  \A r \in Run : stage[r] \in {"awaiting", "cold"} ~> stage[r] \in {"coding", "done"}
=============================================================================
