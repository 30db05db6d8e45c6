--------------------------- MODULE Services_proofs ---------------------------
(***************************************************************************)
(* Proofs about the two services that hosts put beside the processor: the  *)
(* worker pool of the Code runner, for every number of runs, size of the   *)
(* pool and number of workers that fail, and the executor session of the   *)
(* app, for every set of targets, sockets and runs.  The two share no      *)
(* state; fairness plays no part in the proofs.                            *)
(***************************************************************************)
EXTENDS CodeWorkerPool, ExecutorSession, TLAPS, SequenceTheorems, FiniteSetTheorems

(***************************************************************************)
(* The worker pool                                                         *)
(***************************************************************************)

TypeInv ==
  /\ created \in Nat
  /\ status \in [1 .. created -> Status]
  /\ idleWorkers \subseteq 1 .. created
  /\ stage \in [Run -> Stage]
  /\ has \in [Run -> 0 .. created]
  /\ shutDown \in BOOLEAN /\ shutdownDone \in BOOLEAN
  /\ closing \subseteq 1 .. created
  /\ failures \in 0 .. MaxFailures

SizeInv == Cardinality(idleWorkers) <= poolSize /\ Cardinality(closing) <= poolSize

(* A worker has at most one owner. *)
OwnInv ==
  /\ \A r, s \in Run : has[r] = has[s] /\ has[r] # 0 => r = s
  /\ \A r \in Run : has[r] \notin idleWorkers /\ has[r] \notin closing
  /\ idleWorkers \cap closing = {}

(* What the status of a worker says of its owner, and the other way round. *)
RunOK(r) ==
  /\ stage[r] = "none" <=> has[r] = 0
  /\ stage[r] = "awaiting" => status[has[r]] # "serving"
  /\ stage[r] = "cold" => status[has[r]] = "starting"
  /\ stage[r] = "coding" => status[has[r]] = "serving"
WorkerOK(w) ==
  /\ w \in idleWorkers => status[w] \in {"starting", "idle"}
  /\ w \in closing => status[w] # "serving"
  /\ status[w] \in Living => \/ w \in idleWorkers \cup closing
                             \/ \E r \in Run : stage[r] \in Active /\ has[r] = w
UseInv ==
  /\ \A r \in Run : RunOK(r)
  /\ \A w \in 1 .. created : WorkerOK(w)

ShutInv ==
  /\ shutDown => idleWorkers = {}
  /\ ~ shutDown => closing = {}
  /\ shutdownDone => shutDown /\ \A w \in closing : status[w] \notin Living

PoolInv == TypeInv /\ SizeInv /\ OwnInv /\ UseInv /\ ShutInv

LEMMA PoolFinite ==
  ASSUME TypeInv
  PROVE  IsFiniteSet(idleWorkers) /\ IsFiniteSet(closing)
<1>1. IsFiniteSet(1 .. created)
  BY FS_Interval DEF TypeInv
<1>. QED BY <1>1, FS_Subset DEF TypeInv

LEMMA PoolInitInv == PoolInit => PoolInv
<1>. SUFFICES ASSUME PoolInit PROVE PoolInv
  OBVIOUS
<1>. USE PoolAssumption
<1>1. TypeInv
  <2>1. status \in [1 .. created -> Status] /\ stage \in [Run -> Stage]
    BY DEF PoolInit, Status, Stage
  <2>2. has \in [Run -> 0 .. created] /\ failures \in 0 .. MaxFailures
    BY DEF PoolInit
  <2>. QED BY <2>1, <2>2 DEF PoolInit, TypeInv
<1>2. Cardinality(1 .. poolSize) = poolSize /\ Cardinality({}) = 0
  BY FS_Interval, FS_EmptySet
<1>3. SizeInv
  BY <1>2 DEF PoolInit, SizeInv
<1>4. OwnInv /\ UseInv /\ ShutInv
  BY DEF PoolInit, OwnInv, UseInv, RunOK, WorkerOK, ShutInv
<1>. QED BY <1>1, <1>3, <1>4 DEF PoolInv

(* CreateWorkers keeps the workers there are, with the status they are given. *)
LEMMA Created ==
  ASSUME TypeInv, NEW k \in Nat, NEW st \in [1 .. created -> Status],
         CreateWorkers(k, st)
  PROVE  /\ created' \in Nat /\ created' = created + k
         /\ status' \in [1 .. created' -> Status]
         /\ \A w \in 1 .. created : w \in 1 .. created' /\ status'[w] = st[w]
         /\ \A w \in created + 1 .. created' : w \in 1 .. created' /\ status'[w] = "starting"
         /\ \A w \in 1 .. created' : w \in 1 .. created \/ w \in created + 1 .. created'
         /\ \A w \in created + 1 .. created' : w \notin 0 .. created
BY DEF CreateWorkers, TypeInv, Status

(* FillIdleWorkers makes what is missing, and nothing once shut down. *)
LEMMA Filled ==
  ASSUME TypeInv, SizeInv, ShutInv, NEW rest \in SUBSET idleWorkers,
         NEW st \in [1 .. created -> Status], FillIdleWorkers(rest, st)
  PROVE  /\ Missing(rest) \in Nat /\ CreateWorkers(Missing(rest), st)
         /\ idleWorkers' = rest \cup (created + 1 .. created')
         /\ shutDown => created' = created /\ idleWorkers' = {}
         /\ Cardinality(idleWorkers') <= poolSize
<1>. USE PoolAssumption
<1>1. /\ IsFiniteSet(rest) /\ Cardinality(rest) \in Nat
      /\ Cardinality(rest) <= Cardinality(idleWorkers) /\ Cardinality(idleWorkers) \in Nat
  BY PoolFinite, FS_Subset, FS_CardinalityType
<1>2. Missing(rest) \in Nat /\ (~ shutDown => Missing(rest) = poolSize - Cardinality(rest))
  BY <1>1 DEF Missing, SizeInv
<1>3. created' = created + Missing(rest)
  BY DEF FillIdleWorkers, CreateWorkers
<1>4. idleWorkers' = rest \cup (created + 1 .. created')
  BY <1>3 DEF FillIdleWorkers
<1>5. shutDown => created' = created /\ idleWorkers' = {}
  BY <1>3, <1>4 DEF Missing, ShutInv, TypeInv
<1>6. Cardinality(idleWorkers') <= poolSize
  <2>1. CASE shutDown
    BY <2>1, <1>5, FS_EmptySet
  <2>2. CASE ~ shutDown
    <3>1. /\ IsFiniteSet(created + 1 .. created')
          /\ Cardinality(created + 1 .. created') = Missing(rest)
      <4>1. created + 1 \in Int /\ created' \in Int /\ created' - (created + 1) + 1 = Missing(rest)
        BY <1>2, <1>3 DEF TypeInv
      <4>2. created + 1 > created' => Missing(rest) = 0
        BY <1>2, <1>3 DEF TypeInv
      <4>3. /\ IsFiniteSet(created + 1 .. created')
            /\ Cardinality(created + 1 .. created') =
                 IF created + 1 > created' THEN 0 ELSE created' - (created + 1) + 1
        BY <4>1, FS_Interval
      <4>. QED BY <4>1, <4>2, <4>3
    <3>2. rest \cap (created + 1 .. created') = {}
      BY DEF TypeInv
    <3>3. Cardinality(idleWorkers') = Cardinality(rest) + Missing(rest) - Cardinality({})
      <4>1. Cardinality(rest \cup (created + 1 .. created')) =
              Cardinality(rest) + Cardinality(created + 1 .. created')
                - Cardinality(rest \cap (created + 1 .. created'))
        BY <1>1, <3>1, FS_Union, Zenon
      <4>. QED BY <1>4, <3>1, <3>2, <4>1
    <3>. QED BY <1>1, <1>2, <2>2, <3>3, FS_EmptySet
  <2>. QED BY <2>1, <2>2
<1>. QED BY <1>2, <1>4, <1>5, <1>6 DEF FillIdleWorkers

(* A run takes the oldest entry, or a worker of its own. *)
LEMMA AcquireInv ==
  ASSUME PoolInv, NEW r \in Run, AcquireWorker(r), UNCHANGED <<shutdownVars, failures>>,
         stage[r] = "none" \/ (stage[r] = "awaiting" /\ status[has[r]] \notin Living)
  PROVE  PoolInv'
<1>. USE DEF PoolInv
<1>1. CASE \E o \in idleWorkers :
             /\ RunAwaits(r, "awaiting", o)
             /\ idleWorkers' = idleWorkers \ {o} /\ UNCHANGED <<created, status>>
  <2>1. PICK o \in idleWorkers :
          /\ RunAwaits(r, "awaiting", o)
          /\ idleWorkers' = idleWorkers \ {o} /\ UNCHANGED <<created, status>>
    BY <1>1
  <2>2. /\ o \in idleWorkers /\ o \in 1 .. created /\ o # 0
        /\ stage' = [stage EXCEPT ![r] = "awaiting"] /\ has' = [has EXCEPT ![r] = o]
        /\ idleWorkers' = idleWorkers \ {o}
        /\ UNCHANGED <<created, status, shutDown, closing, shutdownDone, failures>>
    BY <2>1 DEF RunAwaits, shutdownVars, TypeInv
  <2>3. TypeInv'
    BY <2>2 DEF TypeInv, Stage
  <2>4. SizeInv'
    <3>1. /\ Cardinality(idleWorkers \ {o}) <= Cardinality(idleWorkers)
          /\ Cardinality(idleWorkers \ {o}) \in Nat /\ Cardinality(idleWorkers) \in Nat
      BY PoolFinite, FS_Subset, FS_CardinalityType
    <3>. QED BY <2>2, <3>1, PoolAssumption DEF SizeInv
  <2>5. OwnInv' /\ ShutInv'
    BY <2>2 DEF OwnInv, ShutInv, TypeInv
  <2>6. \A s \in Run : RunOK(s)'
    BY <2>2 DEF UseInv, RunOK, WorkerOK, TypeInv
  <2>7. \A w \in 1 .. created : WorkerOK(w)'
    BY <2>2 DEF UseInv, RunOK, WorkerOK, TypeInv, Active
  <2>. QED BY <2>2, <2>3, <2>4, <2>5, <2>6, <2>7 DEF UseInv
<1>2. CASE /\ idleWorkers = {} /\ RunAwaits(r, "cold", created + 1)
           /\ CreateWorkers(1, status) /\ UNCHANGED idleWorkers
  <2>1. /\ created' = created + 1 /\ status' \in [1 .. created' -> Status]
        /\ created' \in Nat
        /\ \A w \in 1 .. created : w \in 1 .. created' /\ status'[w] = status[w]
        /\ status'[created'] = "starting"
        /\ \A w \in 1 .. created' : w \in 1 .. created \/ w = created'
        /\ created' \notin 0 .. created
    BY <1>2 DEF CreateWorkers, TypeInv, Status
  <2>2. /\ stage' = [stage EXCEPT ![r] = "cold"] /\ has' = [has EXCEPT ![r] = created']
        /\ idleWorkers' = idleWorkers /\ idleWorkers = {}
        /\ UNCHANGED <<shutDown, closing, shutdownDone, failures>>
    BY <1>2, <2>1 DEF RunAwaits, shutdownVars
  <2>3. TypeInv'
    BY <2>1, <2>2 DEF TypeInv, Stage
  <2>4. SizeInv'
    BY <2>2 DEF SizeInv
  <2>5. OwnInv' /\ ShutInv'
    BY <2>1, <2>2 DEF OwnInv, ShutInv, TypeInv
  <2>6. \A s \in Run : RunOK(s)'
    <3>. SUFFICES ASSUME NEW s \in Run PROVE RunOK(s)'
      OBVIOUS
    <3>1. CASE s = r
      BY <2>1, <2>2, <3>1 DEF RunOK, TypeInv
    <3>2. CASE s # r
      <4>1. stage'[s] = stage[s] /\ has'[s] = has[s] /\ has[s] \in 0 .. created
        BY <2>2, <3>2 DEF TypeInv
      <4>2. has[s] # 0 => status'[has[s]] = status[has[s]]
        BY <2>1, <4>1
      <4>. QED BY <4>1, <4>2 DEF RunOK, UseInv
    <3>. QED BY <3>1, <3>2
  <2>7. \A w \in 1 .. created' : WorkerOK(w)'
    <3>. SUFFICES ASSUME NEW w \in 1 .. created' PROVE WorkerOK(w)'
      OBVIOUS
    <3>1. CASE w = created'
      BY <2>1, <2>2, <3>1 DEF WorkerOK, TypeInv, Active
    <3>2. CASE w \in 1 .. created
      BY <2>1, <2>2, <3>2 DEF WorkerOK, UseInv, RunOK, TypeInv, Active
    <3>. QED BY <2>1, <3>1, <3>2
  <2>. QED BY <2>3, <2>4, <2>5, <2>6, <2>7 DEF UseInv
<1>. QED BY <1>1, <1>2 DEF AcquireWorker

(* A run takes a worker that is ready, and the pool is filled. *)
LEMMA RunCodeInv ==
  ASSUME PoolInv, NEW r \in Run, RunCode(r),
         \/ stage[r] = "awaiting" /\ status[has[r]] = "idle"
         \/ stage[r] = "cold"
  PROVE  PoolInv'
<1>. USE DEF PoolInv
<1>. DEFINE u == has[r]
            st == [status EXCEPT ![u] = "serving"]
<1>1. /\ u \in 1 .. created /\ u \notin idleWorkers /\ u \notin closing
      /\ status[u] \in {"idle", "starting"}
  BY DEF TypeInv, OwnInv, UseInv, RunOK
<1>2. st \in [1 .. created -> Status]
  BY DEF TypeInv, Status
<1>3. /\ stage' = [stage EXCEPT ![r] = "coding"] /\ FillIdleWorkers(idleWorkers, st)
      /\ UNCHANGED <<has, shutDown, closing, shutdownDone, failures>>
  BY DEF RunCode, shutdownVars
<1>4. /\ Missing(idleWorkers) \in Nat /\ CreateWorkers(Missing(idleWorkers), st)
      /\ idleWorkers' = idleWorkers \cup (created + 1 .. created')
      /\ shutDown => created' = created /\ idleWorkers' = {}
      /\ Cardinality(idleWorkers') <= poolSize
  BY <1>2, <1>3, Filled
<1>5. /\ created' \in Nat /\ created <= created'
      /\ status' \in [1 .. created' -> Status]
      /\ \A w \in 1 .. created : w \in 1 .. created' /\ status'[w] = st[w]
      /\ \A w \in created + 1 .. created' : w \in 1 .. created' /\ status'[w] = "starting"
      /\ \A w \in 1 .. created' : w \in 1 .. created \/ w \in created + 1 .. created'
      /\ \A w \in created + 1 .. created' : w \notin 0 .. created
  <2>1. created' = created + Missing(idleWorkers)
    BY <1>4 DEF CreateWorkers
  <2>2. created <= created'
    BY <1>4, <2>1 DEF TypeInv
  <2>3. created' \in Nat
    BY <1>2, <1>4, Created
  <2>4. CreateWorkers(Missing(idleWorkers), st) /\ Missing(idleWorkers) \in Nat
    BY <1>4
  <2>5. /\ status' \in [1 .. created' -> Status]
        /\ \A w \in 1 .. created : w \in 1 .. created' /\ status'[w] = st[w]
        /\ \A w \in created + 1 .. created' : w \in 1 .. created' /\ status'[w] = "starting"
        /\ \A w \in 1 .. created' : w \in 1 .. created \/ w \in created + 1 .. created'
        /\ \A w \in created + 1 .. created' : w \notin 0 .. created
    BY <1>2, <2>4, Created, Zenon
  <2>. QED BY <2>2, <2>3, <2>5
<1>6. /\ status'[u] = "serving"
      /\ \A w \in 1 .. created : w # u => status'[w] = status[w]
  BY <1>1, <1>5 DEF TypeInv
<1>. HIDE DEF st
<1>7. TypeInv'
  <2>1. has' \in [Run -> 0 .. created'] /\ closing' \subseteq 1 .. created'
    BY <1>3, <1>5 DEF TypeInv
  <2>2. stage' \in [Run -> Stage]
    BY <1>3 DEF TypeInv, Stage
  <2>3. idleWorkers' \subseteq 1 .. created'
    BY <1>4, <1>5 DEF TypeInv
  <2>. QED BY <1>3, <1>5, <2>1, <2>2, <2>3 DEF TypeInv
<1>8. SizeInv'
  BY <1>3, <1>4 DEF SizeInv
<1>9. OwnInv'
  BY <1>3, <1>4, <1>5 DEF OwnInv, TypeInv
<1>10. ShutInv'
  BY <1>1, <1>3, <1>4, <1>6 DEF ShutInv, TypeInv
<1>11. \A s \in Run : RunOK(s)'
  <2>. SUFFICES ASSUME NEW s \in Run PROVE RunOK(s)'
    OBVIOUS
  <2>1. CASE s = r
    BY <1>1, <1>3, <1>6, <2>1 DEF RunOK, TypeInv
  <2>2. CASE s # r
    <3>1. stage'[s] = stage[s] /\ has'[s] = has[s] /\ has[s] \in 0 .. created
      BY <1>3, <2>2 DEF TypeInv
    <3>2. has[s] # 0 => has[s] # u /\ status'[has[s]] = status[has[s]]
      BY <1>6, <2>2, <3>1 DEF OwnInv
    <3>. QED BY <3>1, <3>2 DEF RunOK, UseInv
  <2>. QED BY <2>1, <2>2
<1>12. \A w \in 1 .. created' : WorkerOK(w)'
  <2>. SUFFICES ASSUME NEW w \in 1 .. created' PROVE WorkerOK(w)'
    OBVIOUS
  <2>1. CASE w \in created + 1 .. created'
    <3>1. w \in idleWorkers' /\ status'[w] = "starting" /\ w \notin closing'
      BY <1>3, <1>4, <1>5, <2>1 DEF TypeInv
    <3>. QED BY <3>1 DEF WorkerOK
  <2>2. CASE w \in 1 .. created /\ w # u
    <3>1. status'[w] = status[w] /\ (w \in idleWorkers' <=> w \in idleWorkers) /\ closing' = closing
      BY <1>3, <1>4, <1>5, <1>6, <2>2 DEF TypeInv
    <3>2. \A s \in Run : stage[s] \in Active => stage'[s] \in Active /\ has'[s] = has[s]
      BY <1>3 DEF Active, TypeInv
    <3>. QED BY <2>2, <3>1, <3>2 DEF WorkerOK, UseInv
  <2>3. CASE w = u
    <3>1. stage'[r] \in Active /\ has'[r] = u /\ w \notin idleWorkers' /\ w \notin closing'
      BY <1>1, <1>3, <1>4, <1>5, <2>3 DEF Active, TypeInv
    <3>. QED BY <2>3, <3>1 DEF WorkerOK
  <2>. QED BY <1>5, <2>1, <2>2, <2>3
<1>. QED BY <1>7, <1>8, <1>9, <1>10, <1>11, <1>12 DEF UseInv

(* Code ends with its worker. *)
LEMMA CodeEndsInv == ASSUME PoolInv, NEW r \in Run, CodeEnds(r) PROVE PoolInv'
<1>. USE DEF PoolInv
<1>1. /\ stage[r] = "coding" /\ has[r] \in 1 .. created
      /\ stage' = [stage EXCEPT ![r] = "done"]
      /\ status' = [status EXCEPT ![has[r]] = "terminated"]
      /\ UNCHANGED <<created, idleWorkers, has, shutDown, closing, shutdownDone, failures>>
  BY DEF CodeEnds, shutdownVars, UseInv, RunOK, TypeInv
<1>2. TypeInv' /\ SizeInv' /\ OwnInv'
  BY <1>1 DEF TypeInv, Stage, Status, SizeInv, OwnInv
<1>3. ShutInv'
  BY <1>1 DEF ShutInv, TypeInv, Living
<1>4. \A s \in Run : RunOK(s)'
  BY <1>1 DEF UseInv, RunOK, TypeInv, OwnInv
<1>5. \A w \in 1 .. created : WorkerOK(w)'
  BY <1>1 DEF UseInv, WorkerOK, TypeInv, OwnInv, Living, Active
<1>. QED BY <1>1, <1>2, <1>3, <1>4, <1>5 DEF UseInv

(* What a worker that is not in use reports. *)
LEMMA WorkerReadyInv == ASSUME PoolInv, NEW w \in 1 .. created, WorkerReady(w) PROVE PoolInv'
<1>. USE DEF PoolInv
<1>1. PICK to \in {"idle", "terminated"} :
        /\ status[w] = "starting" /\ StartedFor(w) = {}
        /\ (shutDown <=> to = "terminated") /\ status' = [status EXCEPT ![w] = to]
        /\ UNCHANGED <<created, idleWorkers, stage, has, shutDown, closing, shutdownDone,
                       failures>>
  BY DEF WorkerReady, runVars, shutdownVars
<1>2. TypeInv' /\ SizeInv' /\ OwnInv'
  BY <1>1 DEF TypeInv, Status, SizeInv, OwnInv
<1>3. ShutInv'
  BY <1>1 DEF ShutInv, TypeInv, Living
<1>4. \A s \in Run : RunOK(s)'
  BY <1>1 DEF UseInv, RunOK, TypeInv, StartedFor
<1>5. \A v \in 1 .. created : WorkerOK(v)'
  BY <1>1 DEF UseInv, WorkerOK, TypeInv, Living, Active, ShutInv
<1>. QED BY <1>1, <1>2, <1>3, <1>4, <1>5 DEF UseInv

LEMMA StartupFailsInv == ASSUME PoolInv, NEW w \in 1 .. created, StartupFails(w) PROVE PoolInv'
<1>. USE DEF PoolInv
<1>1. /\ status[w] = "starting" /\ status' = [status EXCEPT ![w] = "failed"]
      /\ idleWorkers' = idleWorkers \ {w}
      /\ stage' = [r \in Run |-> IF stage[r] = "cold" /\ has[r] = w THEN "done" ELSE stage[r]]
      /\ UNCHANGED <<created, has, shutDown, closing, shutdownDone, failures>>
  BY DEF StartupFails, shutdownVars, StartedFor
<1>2. TypeInv' /\ OwnInv'
  BY <1>1 DEF TypeInv, Status, Stage, OwnInv
<1>3. SizeInv'
  <2>1. /\ Cardinality(idleWorkers \ {w}) <= Cardinality(idleWorkers)
        /\ Cardinality(idleWorkers \ {w}) \in Nat /\ Cardinality(idleWorkers) \in Nat
    BY PoolFinite, FS_Subset, FS_CardinalityType
  <2>. QED BY <1>1, <2>1, PoolAssumption DEF SizeInv
<1>4. ShutInv'
  BY <1>1 DEF ShutInv, TypeInv, Living
<1>5. \A s \in Run : RunOK(s)'
  BY <1>1 DEF UseInv, RunOK, TypeInv
<1>6. \A v \in 1 .. created : WorkerOK(v)'
  BY <1>1 DEF UseInv, WorkerOK, TypeInv, Living, Active
<1>. QED BY <1>1, <1>2, <1>3, <1>4, <1>5, <1>6 DEF UseInv

(* A worker fails that no run has: nothing depends on its status but the pool,
   which makes another, and shutdown(), which has nothing left to terminate. *)
LEMMA IdleWorkerFailsInv ==
  ASSUME PoolInv, NEW u \in 1 .. created, IdleWorkerFails(u)
  PROVE  PoolInv'
<1>. USE DEF PoolInv
<1>. DEFINE st == [status EXCEPT ![u] = "failed"]
<1>1. /\ failures < MaxFailures /\ failures' = failures + 1 /\ status[u] = "idle"
      /\ \A r \in Run : stage[r] = "awaiting" => has[r] # u
      /\ UNCHANGED <<stage, has, shutDown, closing, shutdownDone>>
  BY DEF IdleWorkerFails, runVars, shutdownVars
<1>2. st \in [1 .. created -> Status]
  BY DEF TypeInv, Status
<1>3. \A r \in Run : stage[r] \in Active => has[r] # u /\ has[r] \in 1 .. created
  BY <1>1 DEF UseInv, RunOK, TypeInv, Active
<1>4. failures' \in 0 .. MaxFailures
  BY <1>1, PoolAssumption DEF TypeInv
<1>5. CASE u \in idleWorkers /\ FillIdleWorkers(idleWorkers \ {u}, st)
  <2>. DEFINE rest == idleWorkers \ {u}
  <2>1. /\ Missing(rest) \in Nat /\ CreateWorkers(Missing(rest), st)
        /\ idleWorkers' = rest \cup (created + 1 .. created')
        /\ shutDown => created' = created /\ idleWorkers' = {}
        /\ Cardinality(idleWorkers') <= poolSize
    BY <1>2, <1>5, Filled
  <2>2. /\ created' \in Nat /\ created <= created'
        /\ status' \in [1 .. created' -> Status]
        /\ \A w \in 1 .. created : w \in 1 .. created' /\ status'[w] = st[w]
        /\ \A w \in created + 1 .. created' : w \in 1 .. created' /\ status'[w] = "starting"
        /\ \A w \in 1 .. created' : w \in 1 .. created \/ w \in created + 1 .. created'
        /\ \A w \in created + 1 .. created' : w \notin 0 .. created
    <3>1. created' = created + Missing(rest)
      BY <2>1 DEF CreateWorkers
    <3>2. created <= created'
      BY <2>1, <3>1 DEF TypeInv
    <3>. QED BY <1>2, <2>1, <3>2, Created
  <2>3. /\ status'[u] = "failed"
        /\ \A w \in 1 .. created : w # u => status'[w] = status[w]
    BY <2>2 DEF TypeInv
  <2>. HIDE DEF st
  <2>4. TypeInv'
    <3>1. has' \in [Run -> 0 .. created'] /\ closing' \subseteq 1 .. created'
      BY <1>1, <2>2 DEF TypeInv
    <3>2. idleWorkers' \subseteq 1 .. created'
      BY <2>1, <2>2 DEF TypeInv
    <3>. QED BY <1>1, <1>4, <2>2, <3>1, <3>2 DEF TypeInv
  <2>5. SizeInv'
    BY <1>1, <2>1 DEF SizeInv
  <2>6. OwnInv'
    BY <1>1, <2>1, <2>2 DEF OwnInv, TypeInv
  <2>7. ShutInv'
    BY <1>1, <1>5, <2>1, <2>3 DEF ShutInv, TypeInv
  <2>8. \A s \in Run : RunOK(s)'
    <3>. SUFFICES ASSUME NEW s \in Run PROVE RunOK(s)'
      OBVIOUS
    <3>1. CASE stage[s] \in Active
      BY <1>1, <1>3, <2>3, <3>1 DEF RunOK, UseInv
    <3>2. CASE stage[s] \notin Active
      BY <1>1, <3>2 DEF RunOK, UseInv, Active
    <3>. QED BY <3>1, <3>2
  <2>9. \A w \in 1 .. created' : WorkerOK(w)'
    <3>. SUFFICES ASSUME NEW w \in 1 .. created' PROVE WorkerOK(w)'
      OBVIOUS
    <3>1. CASE w \in created + 1 .. created'
      <4>1. w \in idleWorkers' /\ status'[w] = "starting" /\ w \notin closing'
        BY <1>1, <2>1, <2>2, <3>1 DEF TypeInv
      <4>. QED BY <4>1 DEF WorkerOK
    <3>2. CASE w \in 1 .. created /\ w # u
      <4>1. /\ status'[w] = status[w] /\ closing' = closing /\ stage' = stage /\ has' = has
            /\ w \in idleWorkers' <=> w \in idleWorkers
        BY <1>1, <2>1, <2>2, <2>3, <3>2 DEF TypeInv
      <4>. QED BY <3>2, <4>1 DEF WorkerOK, UseInv
    <3>3. CASE w = u
      <4>1. w \notin idleWorkers' /\ status'[w] = "failed"
        BY <2>1, <2>2, <2>3, <3>3 DEF TypeInv
      <4>. QED BY <4>1 DEF WorkerOK, Living
    <3>. QED BY <2>2, <3>1, <3>2, <3>3
  <2>. QED BY <2>4, <2>5, <2>6, <2>7, <2>8, <2>9 DEF UseInv
<1>6. CASE u \notin idleWorkers /\ status' = st /\ UNCHANGED <<created, idleWorkers>>
  <2>1. TypeInv' /\ SizeInv' /\ OwnInv'
    BY <1>1, <1>2, <1>4, <1>6 DEF TypeInv, SizeInv, OwnInv
  <2>2. ShutInv'
    BY <1>1, <1>6 DEF ShutInv, TypeInv, Living
  <2>3. \A s \in Run : RunOK(s)'
    BY <1>1, <1>3, <1>6 DEF UseInv, RunOK, TypeInv, Active
  <2>4. \A w \in 1 .. created : WorkerOK(w)'
    BY <1>1, <1>6 DEF UseInv, WorkerOK, TypeInv, Living
  <2>. QED BY <1>6, <2>1, <2>2, <2>3, <2>4 DEF UseInv
<1>. QED BY <1>5, <1>6 DEF IdleWorkerFails

LEMMA ShutdownInv == ASSUME PoolInv, Shutdown PROVE PoolInv'
<1>. USE DEF PoolInv
<1>1. /\ ~ shutDown /\ shutDown' = TRUE /\ closing' = idleWorkers /\ idleWorkers' = {}
      /\ closing = {} /\ ~ shutdownDone
      /\ UNCHANGED <<created, status, stage, has, shutdownDone, failures>>
  BY DEF Shutdown, runVars, ShutInv
<1>2. TypeInv' /\ OwnInv' /\ ShutInv'
  BY <1>1 DEF TypeInv, OwnInv, ShutInv
<1>3. SizeInv'
  BY <1>1, FS_EmptySet, PoolAssumption DEF SizeInv
<1>4. UseInv'
  BY <1>1 DEF UseInv, RunOK, WorkerOK
<1>. QED BY <1>2, <1>3, <1>4

LEMMA ShutdownSettledInv == ASSUME PoolInv, ShutdownSettled PROVE PoolInv'
<1>. USE DEF PoolInv
<1>1. /\ shutDown /\ shutdownDone' = TRUE
      /\ \A w \in closing : status[w] # "starting"
      /\ status' = [w \in 1 .. created |->
                      IF w \in closing /\ status[w] = "idle" THEN "terminated" ELSE status[w]]
      /\ UNCHANGED <<created, idleWorkers, stage, has, shutDown, closing, failures>>
  BY DEF ShutdownSettled, runVars
<1>2. TypeInv' /\ SizeInv' /\ OwnInv'
  BY <1>1 DEF TypeInv, Status, SizeInv, OwnInv
<1>3. \A w \in closing : status'[w] \notin Living
  BY <1>1 DEF UseInv, WorkerOK, TypeInv, Living
<1>4. ShutInv'
  BY <1>1, <1>3 DEF ShutInv
<1>5. \A r \in Run : has[r] # 0 => status'[has[r]] = status[has[r]]
  BY <1>1 DEF OwnInv, TypeInv
<1>6. \A r \in Run : RunOK(r)'
  BY <1>1, <1>5 DEF UseInv, RunOK
<1>7. \A w \in 1 .. created : WorkerOK(w)'
  <2>. SUFFICES ASSUME NEW w \in 1 .. created PROVE WorkerOK(w)'
    OBVIOUS
  <2>1. w \in idleWorkers => w \notin closing
    BY DEF OwnInv
  <2>2. /\ status'[w] = status[w] \/ (w \in closing /\ status'[w] = "terminated")
        /\ w \notin closing => status'[w] = status[w]
    BY <1>1
  <2>. QED BY <1>1, <2>1, <2>2 DEF UseInv, WorkerOK, Living
<1>. QED BY <1>1, <1>2, <1>4, <1>6, <1>7 DEF UseInv

LEMMA PoolStepInv == ASSUME PoolInv, [PoolNext]_poolVars PROVE PoolInv'
<1>1. CASE \E r \in Run : RunStep(r)
  <2>1. PICK r \in Run : RunStep(r)
    BY <1>1
  <2>2. CASE RunBegins(r)
    BY <2>2, AcquireInv DEF RunBegins
  <2>3. CASE EntryDropped(r)
    BY <2>3, AcquireInv DEF EntryDropped, Rejected, Living
  <2>4. CASE IdleWorkerAcquired(r) \/ ColdWorkerReady(r)
    BY <2>4, RunCodeInv DEF IdleWorkerAcquired, ColdWorkerReady
  <2>5. CASE CodeEnds(r)
    BY <2>5, CodeEndsInv
  <2>. QED BY <2>1, <2>2, <2>3, <2>4, <2>5 DEF RunStep
<1>2. CASE \E w \in 1 .. created : WorkerStep(w)
  BY <1>2, WorkerReadyInv, StartupFailsInv, IdleWorkerFailsInv DEF WorkerStep
<1>3. CASE Shutdown \/ ShutdownSettled
  BY <1>3, ShutdownInv, ShutdownSettledInv
<1>4. CASE UNCHANGED poolVars
  BY <1>4
  DEF poolVars, runVars, shutdownVars, PoolInv, TypeInv, SizeInv, OwnInv, UseInv, RunOK, WorkerOK,
      ShutInv
<1>. QED BY <1>1, <1>2, <1>3, <1>4 DEF PoolNext

LEMMA PoolInvariance == PoolSpec => []PoolInv
<1>1. PoolInv /\ [PoolNext]_poolVars => PoolInv'
  BY PoolStepInv
<1>. QED BY <1>1, PoolInitInv, PTL DEF PoolSpec

-----------------------------------------------------------------------------
(* Every variable keeps its type, and the pool never keeps more idle workers
   than its size, although runs and failures both fill it. *)
THEOREM PoolTypeCorrect == PoolSpec => []PoolTypeOK
<1>1. PoolInv => PoolTypeOK
  BY DEF PoolInv, TypeInv, SizeInv, PoolTypeOK
<1>. QED BY <1>1, PoolInvariance, PTL

(* A worker is given to one run and never returns to the pool, whatever
   the entry that a run took turns out to be. *)
THEOREM WorkerServesOneRun == PoolSpec => []OneRunPerWorker
<1>1. PoolInv => OneRunPerWorker
  BY DEF PoolInv, OwnInv, OneRunPerWorker
<1>. QED BY <1>1, PoolInvariance, PTL

(* acquireWorker hands out no worker that failed or was terminated, and the
   pool has none to offer. *)
THEOREM DeadWorkersAreNotUsed == PoolSpec => []NoDeadWorkerIsUsed
<1>1. PoolInv => NoDeadWorkerIsUsed
  BY DEF PoolInv, TypeInv, UseInv, RunOK, WorkerOK, NoDeadWorkerIsUsed
<1>. QED BY <1>1, PoolInvariance, PTL

LEMMA Owned == PoolInv => WorkersHaveOwners
BY DEF PoolInv, TypeInv, UseInv, WorkerOK, ShutInv, WorkersHaveOwners, LivingWorkers, InUse,
       Working

(* No thread is left without somebody who terminates it, and shutdown() leaves
   none but those that runs have. *)
THEOREM NoThreadIsLost == PoolSpec => []WorkersHaveOwners
BY PoolInvariance, Owned, PTL

LEMMA Bounded == PoolInv => ThreadsAreBounded
<1>. SUFFICES ASSUME PoolInv PROVE ThreadsAreBounded
  OBVIOUS
<1>. DEFINE kept == idleWorkers \cup closing
<1>1. IsFiniteSet(kept) /\ Cardinality(kept) <= poolSize /\ Cardinality(kept) \in Nat
  <2>1. kept = idleWorkers \/ kept = closing
    BY DEF PoolInv, TypeInv, ShutInv
  <2>. QED BY <2>1, PoolFinite, FS_CardinalityType DEF PoolInv, SizeInv
<1>2. IsFiniteSet(Working) /\ Cardinality(Working) \in Nat
  BY PoolAssumption, FS_Subset, FS_CardinalityType DEF Working
<1>3. IsFiniteSet(InUse) /\ Cardinality(InUse) <= Cardinality(Working) /\ Cardinality(InUse) \in Nat
  <2>. DEFINE f == [r \in Working |-> has[r]]
  <2>1. f \in Surjection(Working, InUse)
    BY DEF Surjection, InUse
  <2>. QED BY <1>2, <2>1, FS_Surjection, FS_CardinalityType
<1>4. LivingWorkers \subseteq kept \cup InUse
  BY Owned DEF WorkersHaveOwners
<1>5. /\ IsFiniteSet(kept \cup InUse)
      /\ Cardinality(kept \cup InUse) = Cardinality(kept) + Cardinality(InUse) - Cardinality(kept \cap InUse)
      /\ Cardinality(kept \cap InUse) \in Nat
  BY <1>1, <1>3, FS_Union, FS_Subset, FS_CardinalityType
<1>6. /\ Cardinality(LivingWorkers) <= Cardinality(kept \cup InUse)
      /\ Cardinality(LivingWorkers) \in Nat /\ Cardinality(kept \cup InUse) \in Nat
  BY <1>4, <1>5, FS_Subset, FS_CardinalityType
<1>7. Cardinality(LivingWorkers) <= poolSize + Cardinality(Working)
  <2>. HIDE DEF kept
  <2>. QED BY <1>1, <1>2, <1>3, <1>5, <1>6, PoolAssumption
<1>. QED BY <1>7 DEF ThreadsAreBounded

(* There are never more living threads than the pool may keep and runs go on. *)
THEOREM ThreadBound == PoolSpec => []ThreadsAreBounded
BY PoolInvariance, Bounded, PTL

-----------------------------------------------------------------------------
(***************************************************************************)
(* The executor session                                                    *)
(***************************************************************************)

Message == [kind : {"upload-allowed", "done", "error"}, run : Runs \cup {None}]

SocketRecord ==
  [state : {"closed", "connecting", "open", "closing"},
   target : Targets \cup {None}, asked : SUBSET Runs, has : 0..MaxVersion,
   inbox : Seq(Message)]

SessionRecord ==
  [current : Sockets \cup {None}, upload : BOOLEAN,
   status : {"idle", "connecting", "ready", "reconnecting"},
   target : Targets \cup {None}, timer : Targets \cup {None}]

RunRecord ==
  [phase : {"new", "settings", "sent", "done", "error", "failed"},
   target : Targets \cup {None}, project : 0..MaxVersion, result : Runs \cup {None}]

(* What may come from a server: only one that allows uploads says so, and
   only a debugger's host ends runs that nobody asked for. *)
ComesFrom(m, t) ==
  /\ m.kind = "upload-allowed" => t \in AllowUpload
  /\ m.kind # "upload-allowed" /\ m.run = None => t \notin Internal

MessagesOK(sockets) ==
  \A i \in Sockets : \A k \in DOMAIN sockets[i].inbox :
    ComesFrom(sockets[i].inbox[k], sockets[i].target)

MessageInv == MessagesOK(socket)

(* The run that the editor shows as its own has been sent. *)
ActiveInv == active # None => run[active].phase \notin {"new", "settings"}

IInv ==
  /\ TypeOK
  /\ SessionOwnsItsSocket
  /\ WaitersHaveTheirSession
  /\ UploadsAreOfThisSession
  /\ ResultsAreOwn
  /\ MessageInv
  /\ ActiveInv

(***************************************************************************)
(* Parts that the actions share.                                           *)
(***************************************************************************)

LEMMA Types ==
  /\ TypeOK <=>
       /\ socket \in [Sockets -> SocketRecord]
       /\ session \in SessionRecord
       /\ home \in {None, Home} /\ active \in EditorRuns \cup {None} /\ project \in 1..MaxVersion
       /\ run \in [Runs -> RunRecord]
       /\ cache \in [target : Targets \cup {None}, project : 0..MaxVersion]
  /\ None \notin Targets /\ None \notin Sockets /\ None \notin Runs
  /\ Home \in Targets /\ 0 \in 0..MaxVersion /\ MaxVersion \in Nat
  /\ 1..MaxVersion \subseteq 0..MaxVersion
<1>1. /\ None \notin Targets /\ None \notin Sockets /\ None \notin Runs
      /\ Home \in Targets /\ MaxVersion \in Nat /\ MaxVersion # 0
  BY ExecutorSessionAssumption
<1>2. 0 \in 0..MaxVersion /\ 1..MaxVersion \subseteq 0..MaxVersion
  BY <1>1
<1>. QED BY <1>1, <1>2 DEF TypeOK, SocketRecord, Message, SessionRecord, RunRecord

(* What an update of a socket is, whatever its fields range over. *)
LEMMA SocketEdits ==
  ASSUME NEW A, NEW B, NEW C, NEW D, NEW E,
         NEW rec \in [state : A, target : B, asked : C, has : D, inbox : E],
         NEW a \in A, NEW b \in B, NEW c \in C, NEW d \in D
  PROVE  /\ [rec EXCEPT !.state = a, !.target = b]
              \in [state : A, target : B, asked : C, has : D, inbox : E]
         /\ [rec EXCEPT !.state = a, !.asked = c, !.has = d]
              \in [state : A, target : B, asked : C, has : D, inbox : E]
<1>1. [rec EXCEPT !.state = a, !.target = b]
        \in [state : A, target : B, asked : C, has : D, inbox : E]
  BY Zenon
<1>2. [rec EXCEPT !.state = a, !.asked = c, !.has = d]
        \in [state : A, target : B, asked : C, has : D, inbox : E]
  BY Zenon
<1>. QED BY <1>1, <1>2

LEMMA SocketUpdates ==
  ASSUME NEW f \in [Sockets -> SocketRecord], NEW i \in Sockets
  PROVE  /\ \A a \in {"closed", "connecting", "open", "closing"} :
              [f EXCEPT ![i].state = a] \in [Sockets -> SocketRecord]
         /\ \A e \in Seq(Message) : [f EXCEPT ![i].inbox = e] \in [Sockets -> SocketRecord]
         /\ \A a \in {"closed", "connecting", "open", "closing"}, e \in Seq(Message) :
              [f EXCEPT ![i].state = a, ![i].inbox = e] \in [Sockets -> SocketRecord]
         /\ \A c \in SUBSET Runs, e \in Seq(Message) :
              [f EXCEPT ![i].asked = c, ![i].inbox = e] \in [Sockets -> SocketRecord]
         /\ \A c \in SUBSET Runs, d \in 0..MaxVersion :
              [f EXCEPT ![i].asked = c, ![i].has = d] \in [Sockets -> SocketRecord]
<1>. DEFINE A == {"closed", "connecting", "open", "closing"}
            B == Targets \cup {None}
            C == SUBSET Runs
            D == 0..MaxVersion
            E == Seq(Message)
<1>1. SocketRecord = [state : A, target : B, asked : C, has : D, inbox : E]
  BY DEF SocketRecord
<1>. HIDE DEF A, B, C, D, E
<1>2. \A a \in A : [f EXCEPT ![i].state = a] \in [Sockets -> SocketRecord]
  BY <1>1, Zenon
<1>3. \A e \in E : [f EXCEPT ![i].inbox = e] \in [Sockets -> SocketRecord]
  BY <1>1, Zenon
<1>4. \A a \in A, e \in E : [f EXCEPT ![i].state = a, ![i].inbox = e] \in [Sockets -> SocketRecord]
  BY <1>1, Zenon
<1>5. \A c \in C, e \in E : [f EXCEPT ![i].asked = c, ![i].inbox = e] \in [Sockets -> SocketRecord]
  BY <1>1, Zenon
<1>6. \A c \in C, d \in D : [f EXCEPT ![i].asked = c, ![i].has = d] \in [Sockets -> SocketRecord]
  BY <1>1, Zenon
<1>. QED BY <1>2, <1>3, <1>4, <1>5, <1>6 DEF A, B, C, D, E

LEMMA SocketFields ==
  ASSUME NEW rec \in SocketRecord
  PROVE  /\ rec.state \in {"closed", "connecting", "open", "closing"}
         /\ rec.target \in Targets \cup {None} /\ rec.asked \in SUBSET Runs
         /\ rec.has \in 0..MaxVersion /\ rec.inbox \in Seq(Message)
BY DEF SocketRecord

SocketsOK(sockets) == sockets \in [Sockets -> SocketRecord] /\ MessagesOK(sockets)

NoneLive(sockets) == \A i \in Sockets : sockets[i].state \notin {"connecting", "open"}

LEMMA ClosedOK ==
  Closed \in SocketRecord /\ Closed.inbox = <<>> /\ Closed.state = "closed"
BY Types DEF Closed, SocketRecord

(* When the session has let go of its socket, none is left that opens or is open. *)
LEMMA DroppedOK ==
  ASSUME IInv
  PROVE  SocketsOK(Dropped) /\ NoneLive(Dropped)
<1>1. /\ socket \in [Sockets -> SocketRecord]
      /\ session.current \in Sockets \cup {None}
      /\ \A i \in Sockets : socket[i].state \in {"connecting", "open"} => session.current = i
      /\ MessagesOK(socket)
  BY Types DEF IInv, SessionOwnsItsSocket, MessageInv, Live, SessionRecord
<1>2. CASE session.current = None
  BY <1>1, <1>2, Types DEF Dropped, SocketsOK, NoneLive
<1>3. CASE session.current # None
  <2>. PICK i : i = session.current
    OBVIOUS
  <2>1. i \in Sockets
    BY <1>1, <1>3
  <2>. DEFINE after == [socket[i] EXCEPT !.state = "closing", !.asked = {}, !.has = 0]
  <2>2. /\ after \in SocketRecord /\ after.state = "closing"
        /\ after.inbox = socket[i].inbox /\ after.target = socket[i].target
    <3>1. socket[i] \in SocketRecord /\ 0 \in 0..MaxVersion /\ {} \in SUBSET Runs
      BY <1>1, <2>1, Types
    <3>2. after \in SocketRecord
      BY <3>1, SocketEdits, Zenon DEF SocketRecord
    <3>3. after.state = "closing" /\ after.inbox = socket[i].inbox /\ after.target = socket[i].target
      BY <3>1, Zenon DEF SocketRecord
    <3>. QED BY <3>2, <3>3
  <2>3. Dropped = [socket EXCEPT ![i] = after]
    BY <1>1, <1>3, <2>1 DEF Dropped
  <2>. HIDE DEF after
  <2>4. /\ Dropped \in [Sockets -> SocketRecord] /\ Dropped[i] = after
        /\ \A j \in Sockets \ {i} : Dropped[j] = socket[j]
    BY <1>1, <2>1, <2>2, <2>3
  <2>5. NoneLive(Dropped)
    BY <1>1, <2>2, <2>4 DEF NoneLive
  <2>6. MessagesOK(Dropped)
    BY <1>1, <2>1, <2>2, <2>4 DEF MessagesOK
  <2>. QED BY <2>4, <2>5, <2>6 DEF SocketsOK
<1>. QED BY <1>2, <1>3

NewSession ==
  /\ session' \in SessionRecord
  /\ SessionOwnsItsSocket'
  /\ session'.upload = FALSE

LEMMA IdleOK ==
  Idle \in SessionRecord /\ Idle.current = None /\ Idle.status = "idle" /\ Idle.timer = None
BY Types DEF Idle, SessionRecord

(* A session without a socket, where none is open. *)
LEMMA NoSession ==
  ASSUME SocketsOK(socket'), NoneLive(socket'), session' \in SessionRecord,
         session'.current = None, session'.status \in {"idle", "reconnecting"},
         session'.upload = FALSE,
         session'.timer # None => /\ session'.status = "reconnecting"
                                  /\ session'.timer = session'.target /\ session'.timer \in Internal
  PROVE  NewSession
BY DEF NewSession, SessionOwnsItsSocket, NoneLive, Live

LEMMA OpenOK ==
  ASSUME NEW t \in Targets, NEW sockets, SocketsOK(sockets), NoneLive(sockets),
         OpenSocket(t, sockets)
  PROVE  SocketsOK(socket') /\ NewSession
<1>1. CASE t \in Unusable
  <2>1. session' = Idle /\ socket' = sockets
    BY <1>1 DEF OpenSocket
  <2>. QED BY <2>1, IdleOK, NoSession DEF Idle
<1>2. CASE t \notin Unusable
  <2>. DEFINE free == CHOOSE i \in Sockets : sockets[i].state = "closed"
  <2>1. /\ free \in Sockets
        /\ session' = [Idle EXCEPT !.current = free, !.status = "connecting", !.target = t]
        /\ socket' = [sockets EXCEPT ![free] = [Closed EXCEPT !.state = "connecting", !.target = t]]
    BY <1>2 DEF OpenSocket
  <2>. PICK i : i = free
    OBVIOUS
  <2>. DEFINE opened == [Closed EXCEPT !.state = "connecting", !.target = t]
  <2>2. /\ opened \in SocketRecord /\ opened.state = "connecting"
        /\ opened.inbox = <<>> /\ opened.target = t
    <3>1. Closed \in SocketRecord /\ Closed.inbox = <<>> /\ t \in Targets \cup {None}
      BY ClosedOK
    <3>2. opened \in SocketRecord
      BY <3>1, SocketEdits, Zenon DEF SocketRecord
    <3>3. opened.state = "connecting" /\ opened.inbox = Closed.inbox /\ opened.target = t
      BY <3>1, Zenon DEF SocketRecord
    <3>. QED BY <3>1, <3>2, <3>3
  <2>3. i \in Sockets /\ socket' = [sockets EXCEPT ![i] = opened]
    BY <2>1
  <2>4. /\ session' \in SessionRecord /\ session'.upload = FALSE
        /\ session'.current = i /\ session'.status = "connecting"
        /\ session'.target = t /\ session'.timer = None
    BY <2>1, Types DEF Idle, SessionRecord
  <2>. HIDE DEF opened, free
  <2>5. /\ socket' \in [Sockets -> SocketRecord] /\ socket'[i] = opened
        /\ \A j \in Sockets \ {i} : socket'[j] = sockets[j]
    BY <2>2, <2>3 DEF SocketsOK
  <2>6. MessagesOK(socket')
    <3>1. DOMAIN opened.inbox = {}
      BY <2>2
    <3>. QED BY <2>5, <3>1 DEF SocketsOK, MessagesOK
  <2>7. SessionOwnsItsSocket'
    <3>1. \A j \in Sockets : socket'[j].state \in {"connecting", "open"} => session'.current = j
      BY <2>4, <2>5 DEF NoneLive
    <3>2. session'.current # None /\ socket'[session'.current].target = session'.target
      BY <2>2, <2>3, <2>4, <2>5, Types
    <3>. QED BY <2>4, <3>1, <3>2 DEF SessionOwnsItsSocket, Live
  <2>. QED BY <2>4, <2>5, <2>6, <2>7 DEF SocketsOK, NewSession
<1>. QED BY <1>1, <1>2

(* A session that is gone or replaced takes all that belongs to it along. *)
LEMMA Replaced ==
  ASSUME IInv, SocketsOK(socket'), NewSession, RejectAll, ForgetSession,
         home' \in {None, Home}, UNCHANGED project
  PROVE  IInv'
<1>1. /\ active' = None /\ cache' = NoUpload
      /\ run' = [r \in Runs |-> IF run[r].phase = "sent" THEN Failed ELSE run[r]]
  BY DEF ForgetSession, RejectAll
<1>2. run \in [Runs -> RunRecord] /\ project \in 1..MaxVersion
  BY Types DEF IInv
<1>3. Failed \in RunRecord /\ Failed.phase = "failed"
  BY Types DEF Failed, RunRecord
<1>4. run' \in [Runs -> RunRecord]
  BY <1>1, <1>2, <1>3
<1>5. cache' \in [target : Targets \cup {None}, project : 0..MaxVersion]
  BY <1>1, Types DEF NoUpload
<1>6. TypeOK'
  BY <1>1, <1>2, <1>4, <1>5, Types DEF TypeOK, SocketsOK, NewSession, SocketRecord, Message, SessionRecord, RunRecord
<1>7. WaitersHaveTheirSession'
  <2>1. ASSUME NEW r \in Pending' \cup ({active'} \ {None}) PROVE FALSE
    <3>1. r \in TestRuns /\ run'[r].phase = "sent" /\ r \in Runs
      BY <1>1, <2>1 DEF Pending, Runs
    <3>. QED BY <3>1, <1>1, <1>3
  <2>. QED BY <2>1 DEF WaitersHaveTheirSession
<1>8. UploadsAreOfThisSession'
  BY <1>1 DEF UploadsAreOfThisSession, NewSession
<1>9. ResultsAreOwn'
  <2>. SUFFICES ASSUME NEW r \in Runs, run'[r].phase \in {"done", "error"}
                PROVE  run'[r].result = r \/ run'[r].target \notin Internal
    BY DEF ResultsAreOwn
  <2>1. run'[r] = run[r]
    BY <1>1, <1>3
  <2>. QED BY <2>1 DEF IInv, ResultsAreOwn
<1>10. ActiveInv'
  BY <1>1 DEF ActiveInv
<1>. QED BY <1>6, <1>7, <1>8, <1>9, <1>10 DEF IInv, NewSession, MessageInv, SocketsOK

LEMMA ConnectStep ==
  ASSUME IInv, NEW t \in Targets, Connect(t), UNCHANGED <<home, project>>
  PROVE  IInv'
<1>1. CASE MayReuse(t)
  <2>1. /\ session' = [session EXCEPT !.timer = None,
                        !.status = IF socket[session.current].state = "open" THEN "ready" ELSE "connecting"]
        /\ UNCHANGED <<socket, run, active, cache, home, project>>
    BY <1>1 DEF Connect
  <2>2. session.current # None
    BY <1>1 DEF MayReuse
  <2>3. /\ session' \in SessionRecord
        /\ session'.current = session.current /\ session'.target = session.target
        /\ session'.upload = session.upload /\ session'.timer = None
        /\ session'.status \in {"connecting", "ready"}
    BY <2>1, Types DEF IInv, SessionRecord
  <2>4. TypeOK'
    BY <2>1, <2>3 DEF IInv, TypeOK, SessionRecord
  <2>5. SessionOwnsItsSocket'
    BY <2>1, <2>2, <2>3 DEF IInv, SessionOwnsItsSocket, Live
  <2>6. WaitersHaveTheirSession' /\ UploadsAreOfThisSession'
    BY <2>1, <2>3 DEF IInv, WaitersHaveTheirSession, Pending, UploadsAreOfThisSession
  <2>7. ResultsAreOwn' /\ MessageInv' /\ ActiveInv'
    BY <2>1 DEF IInv, ResultsAreOwn, MessageInv, MessagesOK, ActiveInv
  <2>. QED BY <2>4, <2>5, <2>6, <2>7 DEF IInv
<1>2. CASE ~ MayReuse(t) /\ MustReplace(t)
  <2>1. RejectAll /\ ForgetSession /\ OpenSocket(t, Dropped)
    BY <1>2 DEF Connect
  <2>2. SocketsOK(socket') /\ NewSession
    BY <2>1, DroppedOK, OpenOK
  <2>3. home' \in {None, Home}
    BY DEF IInv, TypeOK
  <2>. QED BY <2>1, <2>2, <2>3, Replaced
<1>3. CASE ~ MayReuse(t) /\ ~ MustReplace(t)
  <2>1. OpenSocket(t, socket) /\ UNCHANGED <<run, active, cache, home, project>>
    BY <1>3 DEF Connect
  <2>2. session.current = None
    BY <1>3 DEF MustReplace, IInv, SessionOwnsItsSocket
  <2>3. SocketsOK(socket) /\ NoneLive(socket)
    BY <2>2, DroppedOK DEF Dropped
  <2>4. SocketsOK(socket') /\ NewSession
    BY <2>1, <2>3, OpenOK
  <2>5. cache = NoUpload /\ Pending = {} /\ active = None
    BY <2>2 DEF IInv, UploadsAreOfThisSession, WaitersHaveTheirSession
  <2>6. RejectAll \/ run' = run
    BY <2>1
  <2>7. TypeOK'
    BY <2>1, <2>4, Types DEF IInv, SocketsOK, NewSession, TypeOK, SocketRecord, Message, SessionRecord
  <2>8. Pending' = {} /\ active' = None /\ cache' = NoUpload
    BY <2>1, <2>5 DEF Pending
  <2>9. WaitersHaveTheirSession' /\ UploadsAreOfThisSession' /\ ActiveInv'
    BY <2>4, <2>8 DEF WaitersHaveTheirSession, UploadsAreOfThisSession, NewSession, ActiveInv
  <2>10. ResultsAreOwn'
    BY <2>1 DEF IInv, ResultsAreOwn
  <2>. QED BY <2>4, <2>7, <2>9, <2>10 DEF IInv, NewSession, MessageInv, SocketsOK
<1>. QED BY <1>1, <1>2, <1>3

LEMMA EndSessionStep ==
  ASSUME IInv, NEW sockets, SocketsOK(sockets), NoneLive(sockets),
         NEW next \in {None, Home}, EndSession(sockets, next),
         home' \in {None, Home}, UNCHANGED project
  PROVE  IInv'
<1>1. RejectAll /\ ForgetSession
  BY DEF EndSession
<1>2. CASE next = None
  <2>1. session' = Idle /\ socket' = sockets
    BY <1>2 DEF EndSession
  <2>2. SocketsOK(socket') /\ NewSession
    BY <2>1, IdleOK, NoSession DEF Idle
  <2>. QED BY <1>1, <2>2, Replaced
<1>3. CASE next # None
  <2>1. OpenSocket(next, sockets) /\ next \in Targets
    BY <1>3, Types DEF EndSession
  <2>. QED BY <1>1, <2>1, OpenOK, Replaced
<1>. QED BY <1>2, <1>3

(***************************************************************************)
(* The user and the timer.                                                 *)
(***************************************************************************)

LEMMA UserStep ==
  ASSUME IInv,
         \/ \E t \in Targets : UserConnects(t)
         \/ UserDisconnects \/ SelectExecutor \/ TimerFires
  PROVE  IInv'
<1>1. home \in {None, Home} /\ session \in SessionRecord
  BY Types DEF IInv
<1>2. ASSUME NEW t \in Targets, UserConnects(t) PROVE IInv'
  BY <1>2, ConnectStep DEF UserConnects
<1>3. CASE UserDisconnects
  <2>1. EndSession(Dropped, home) /\ UNCHANGED <<home, project>>
    BY <1>3 DEF UserDisconnects
  <2>. QED BY <2>1, <1>1, DroppedOK, EndSessionStep
<1>4. CASE SelectExecutor
  <2>1. home' \in {None, Home} /\ UNCHANGED project
    BY <1>4 DEF SelectExecutor
  <2>. PICK next : next = home'
    OBVIOUS
  <2>2. EndSession(Dropped, next) /\ next \in {None, Home}
    BY <1>4, <2>1 DEF SelectExecutor
  <2>. QED BY <2>1, <2>2, DroppedOK, EndSessionStep
<1>5. CASE TimerFires
  <2>1. session.timer \in Targets
    BY <1>1, <1>5 DEF TimerFires, SessionRecord
  <2>2. Connect(session.timer) /\ UNCHANGED <<home, project>>
    BY <1>5 DEF TimerFires
  <2>. PICK t : t = session.timer
    OBVIOUS
  <2>. QED BY <2>1, <2>2, ConnectStep
<1>. QED BY <1>2, <1>3, <1>4, <1>5

(***************************************************************************)
(* Events of sockets.                                                      *)
(***************************************************************************)

(* What happens to sockets alone matters to none but the session's own. *)
LEMMA SocketsOnly ==
  ASSUME IInv, SocketsOK(socket'),
         UNCHANGED <<session, home, run, active, cache, project>>,
         \A j \in Sockets :
           /\ socket'[j].state \in {"connecting", "open"} => socket[j].state \in {"connecting", "open"}
           /\ j = session.current => /\ socket'[j].target = socket[j].target
                                     /\ socket'[j].has = socket[j].has
  PROVE  IInv'
<1>1. session.current \in Sockets \cup {None}
  BY Types DEF IInv, SessionRecord
<1>2. TypeOK'
  BY Types DEF IInv, SocketsOK, TypeOK, SocketRecord, Message
<1>3. SessionOwnsItsSocket'
  BY <1>1 DEF IInv, SessionOwnsItsSocket, Live
<1>4. WaitersHaveTheirSession' /\ ResultsAreOwn' /\ ActiveInv'
  BY DEF IInv, WaitersHaveTheirSession, Pending, ResultsAreOwn, ActiveInv
<1>5. UploadsAreOfThisSession'
  BY <1>1 DEF IInv, UploadsAreOfThisSession
<1>. QED BY <1>2, <1>3, <1>4, <1>5 DEF IInv, SocketsOK, MessageInv

LEMMA Facts ==
  ASSUME IInv
  PROVE  /\ socket \in [Sockets -> SocketRecord] /\ MessagesOK(socket)
         /\ session \in SessionRecord /\ session.current \in Sockets \cup {None}
         /\ run \in [Runs -> RunRecord] /\ project \in 1..MaxVersion
         /\ home \in {None, Home} /\ active \in EditorRuns \cup {None}
         /\ cache \in [target : Targets \cup {None}, project : 0..MaxVersion]
         /\ \A i \in Sockets : socket[i].state \in {"connecting", "open"} => session.current = i
         /\ session.current # None => socket[session.current].target = session.target
BY Types DEF IInv, SessionOwnsItsSocket, MessageInv, Live, SessionRecord

LEMMA OpensStep ==
  ASSUME IInv, NEW i \in Sockets, Opens(i)
  PROVE  IInv'
<1>. DEFINE inbox == IF socket[i].target \in AllowUpload
                     THEN <<[kind |-> "upload-allowed", run |-> None]>> ELSE <<>>
<1>1. /\ socket' = [socket EXCEPT ![i].state = "open", ![i].inbox = inbox]
      /\ session' = [session EXCEPT !.status = "ready"]
      /\ cache' = NoUpload /\ session.current = i
      /\ UNCHANGED <<home, run, active, project>>
  BY Facts DEF Opens, IsStale
<1>2. socket \in [Sockets -> SocketRecord] /\ MessagesOK(socket)
  BY Facts
<1>3. inbox \in Seq(Message) /\ \A k \in DOMAIN inbox : ComesFrom(inbox[k], socket[i].target)
  <2>1. CASE socket[i].target \in AllowUpload
    <3>. DEFINE m == [kind |-> "upload-allowed", run |-> None]
    <3>1. m \in Message /\ ComesFrom(m, socket[i].target)
      BY <2>1 DEF Message, ComesFrom
    <3>2. inbox = <<m>>
      BY <2>1
    <3>. HIDE DEF m, inbox
    <3>. QED BY <3>1, <3>2
  <2>2. CASE socket[i].target \notin AllowUpload
    BY <2>2
  <2>. QED BY <2>1, <2>2
<1>. HIDE DEF inbox
<1>4. socket' \in [Sockets -> SocketRecord]
  <2>1. inbox \in Seq(Message) /\ "open" \in {"closed", "connecting", "open", "closing"}
    BY <1>3
  <2>2. \A a \in {"closed", "connecting", "open", "closing"}, e \in Seq(Message) :
          [socket EXCEPT ![i].state = a, ![i].inbox = e] \in [Sockets -> SocketRecord]
    BY <1>2, SocketUpdates, Zenon
  <2>. QED BY <1>1, <2>1, <2>2, Zenon
<1>5. /\ socket'[i].inbox = inbox /\ socket'[i].target = socket[i].target
      /\ \A j \in Sockets \ {i} : socket'[j] = socket[j]
  BY <1>1, <1>2, Zenon DEF SocketRecord
<1>6. MessagesOK(socket')
  <2>. SUFFICES ASSUME NEW j \in Sockets, NEW k \in DOMAIN socket'[j].inbox
                PROVE  ComesFrom(socket'[j].inbox[k], socket'[j].target)
    BY DEF MessagesOK
  <2>1. CASE j = i
    BY <2>1, <1>3, <1>5
  <2>2. CASE j # i
    BY <2>2, <1>2, <1>5 DEF MessagesOK
  <2>. QED BY <2>1, <2>2
<1>7. /\ session' \in SessionRecord
      /\ session'.current = i /\ session'.target = session.target
      /\ session'.upload = session.upload /\ session'.timer = session.timer
      /\ session'.status = "ready"
  BY <1>1, Facts DEF SessionRecord
<1>8. TypeOK'
  <2>1. cache' \in [target : Targets \cup {None}, project : 0..MaxVersion]
    BY <1>1, Types DEF NoUpload
  <2>2. /\ run' \in [Runs -> RunRecord] /\ project' \in 1..MaxVersion
        /\ home' \in {None, Home} /\ active' \in EditorRuns \cup {None}
    BY <1>1, Facts
  <2>. QED BY <1>4, <1>7, <2>1, <2>2 DEF TypeOK, SocketRecord, Message, SessionRecord, RunRecord
<1>9. SessionOwnsItsSocket'
  <2>1. session.timer = None
    BY <1>1, Facts, Types DEF IInv, SessionOwnsItsSocket
  <2>2. i # None
    BY Types
  <2>3. \A j \in Sockets : socket'[j].state \in {"connecting", "open"} => j = i
    BY <1>1, <1>5, Facts
  <2>4. socket'[i].target = session.target
    BY <1>1, <1>5, <2>2, Facts
  <2>. QED BY <1>7, <2>1, <2>2, <2>3, <2>4 DEF SessionOwnsItsSocket, Live
<1>10. WaitersHaveTheirSession' /\ ResultsAreOwn' /\ ActiveInv'
  BY <1>1, <1>7 DEF IInv, WaitersHaveTheirSession, Pending, ResultsAreOwn, ActiveInv
<1>11. UploadsAreOfThisSession'
  BY <1>1, <1>7 DEF IInv, UploadsAreOfThisSession
<1>. QED BY <1>6, <1>8, <1>9, <1>10, <1>11 DEF IInv, MessageInv

LEMMA BeginsToCloseStep ==
  ASSUME IInv, NEW i \in Sockets, BeginsToClose(i)
  PROVE  IInv'
<1>1. /\ socket' = [socket EXCEPT ![i].state = "closing"]
      /\ UNCHANGED <<session, home, run, active, cache, project>>
  BY DEF BeginsToClose
<1>2. socket \in [Sockets -> SocketRecord] /\ MessagesOK(socket)
  BY Facts
<1>3. socket' \in [Sockets -> SocketRecord]
  <2>1. "closing" \in {"closed", "connecting", "open", "closing"}
    OBVIOUS
  <2>. QED BY <1>1, <1>2, <2>1, SocketUpdates, Zenon
<1>4. /\ socket'[i].inbox = socket[i].inbox /\ socket'[i].target = socket[i].target
      /\ socket'[i].has = socket[i].has /\ socket'[i].state = "closing"
      /\ \A j \in Sockets \ {i} : socket'[j] = socket[j]
  BY <1>1, <1>2, Zenon DEF SocketRecord
<1>5. MessagesOK(socket')
  BY <1>2, <1>4 DEF MessagesOK
<1>. QED BY <1>1, <1>3, <1>4, <1>5, SocketsOnly DEF SocketsOK

LEMMA ClosesStep ==
  ASSUME IInv, NEW i \in Sockets, Closes(i)
  PROVE  IInv'
<1>. DEFINE after == [socket EXCEPT ![i] = Closed]
            t == socket[i].target
<1>1. socket \in [Sockets -> SocketRecord] /\ MessagesOK(socket) /\ home \in {None, Home}
  BY Facts
<1>2. /\ after \in [Sockets -> SocketRecord] /\ after[i] = Closed
      /\ \A j \in Sockets \ {i} : after[j] = socket[j]
  BY <1>1, ClosedOK
<1>3. UNCHANGED <<home, project>>
  BY DEF Closes
<1>4. \/ IsStale(i) /\ socket' = after /\ UNCHANGED <<session, run, active, cache>>
      \/ ~ IsStale(i) /\ EndSession(after, home)
      \/ /\ ~ IsStale(i) /\ t \in Internal
         /\ RejectAll /\ ForgetSession
         /\ socket' = after /\ session' = Reconnecting(t)
  BY DEF Closes
<1>5. t \in Internal => t \in Targets
  BY ExecutorSessionAssumption
<1>. HIDE DEF after, t
<1>6. SocketsOK(after)
  <2>1. MessagesOK(after)
    <3>. SUFFICES ASSUME NEW j \in Sockets, NEW k \in DOMAIN after[j].inbox
                  PROVE  ComesFrom(after[j].inbox[k], after[j].target)
      BY DEF MessagesOK
    <3>1. DOMAIN Closed.inbox = {}
      BY ClosedOK
    <3>2. j # i
      BY <1>2, <3>1
    <3>. QED BY <1>1, <1>2, <3>2 DEF MessagesOK
  <2>. QED BY <1>2, <2>1 DEF SocketsOK
<1>7. CASE IsStale(i) /\ socket' = after /\ UNCHANGED <<session, run, active, cache>>
  <2>1. session.current # i
    BY <1>7 DEF IsStale
  <2>2. \A j \in Sockets :
           /\ socket'[j].state \in {"connecting", "open"} => socket[j].state \in {"connecting", "open"}
           /\ j = session.current => /\ socket'[j].target = socket[j].target
                                     /\ socket'[j].has = socket[j].has
    BY <1>2, <1>7, <2>1, ClosedOK
  <2>. QED BY <1>3, <1>6, <1>7, <2>2, SocketsOnly
<1>8. ASSUME ~ IsStale(i) PROVE NoneLive(after)
  BY <1>2, <1>8, ClosedOK, Facts DEF NoneLive, IsStale
<1>9. CASE ~ IsStale(i) /\ EndSession(after, home)
  <2>. PICK next : next = home
    OBVIOUS
  <2>1. EndSession(after, next) /\ next \in {None, Home} /\ home' \in {None, Home} /\ UNCHANGED project
    BY <1>1, <1>3, <1>9
  <2>. QED BY <1>6, <1>8, <1>9, <2>1, EndSessionStep
<1>10. CASE /\ ~ IsStale(i) /\ t \in Internal
            /\ RejectAll /\ ForgetSession
            /\ socket' = after /\ session' = Reconnecting(t)
  <2>1. /\ session' \in SessionRecord
        /\ session'.current = None /\ session'.status = "reconnecting"
        /\ session'.upload = FALSE /\ session'.timer = t /\ session'.target = t
    BY <1>5, <1>10 DEF Reconnecting, Idle, SessionRecord
  <2>2. NewSession
    BY <1>6, <1>8, <1>10, <2>1, NoSession
  <2>3. home' \in {None, Home} /\ UNCHANGED project
    BY <1>1, <1>3
  <2>. QED BY <1>6, <1>10, <2>2, <2>3, Replaced
<1>. QED BY <1>4, <1>7, <1>9, <1>10

LEMMA AnswersStep ==
  ASSUME IInv, NEW i \in Sockets,
         \/ \E r \in Runs : Answers(i, r)
         \/ HostRunEnds(i)
  PROVE  IInv'
<1>1. socket \in [Sockets -> SocketRecord] /\ MessagesOK(socket)
  BY Facts
<1>2. UNCHANGED <<session, home, run, active, cache, project>>
  BY DEF Answers, HostRunEnds
<1>3. socket[i].inbox \in Seq(Message) /\ socket[i].asked \in SUBSET Runs
  BY <1>1, SocketFields
<1>4. \E asked \in SUBSET Runs, inbox \in Seq(Message) :
        /\ \A k \in DOMAIN inbox : ComesFrom(inbox[k], socket[i].target)
        /\ \/ socket' = [socket EXCEPT ![i].asked = asked, ![i].inbox = inbox]
           \/ socket' = [socket EXCEPT ![i].inbox = inbox]
  <2>1. ASSUME NEW r \in Runs, Answers(i, r)
        PROVE  \E asked \in SUBSET Runs, inbox \in Seq(Message) :
                 /\ \A k \in DOMAIN inbox : ComesFrom(inbox[k], socket[i].target)
                 /\ socket' = [socket EXCEPT ![i].asked = asked, ![i].inbox = inbox]
    <3>1. PICK kind \in {"done", "error"} :
            socket' = [socket EXCEPT ![i].asked = @ \ {r},
                         ![i].inbox = Append(@, [kind |-> kind, run |-> r])]
      BY <2>1 DEF Answers
    <3>. DEFINE m == [kind |-> kind, run |-> r]
                asked == socket[i].asked \ {r}
                inbox == Append(socket[i].inbox, m)
    <3>2. socket' = [socket EXCEPT ![i].asked = asked, ![i].inbox = inbox]
      BY <3>1, <1>1, Zenon DEF SocketRecord
    <3>3. m \in Message /\ ComesFrom(m, socket[i].target)
      BY Types DEF Message, ComesFrom
    <3>4. asked \in SUBSET Runs
      BY <1>3
    <3>. HIDE DEF m, asked
    <3>5. /\ inbox \in Seq(Message) /\ Len(inbox) = Len(socket[i].inbox) + 1
          /\ \A k \in 1 .. Len(socket[i].inbox) : inbox[k] = socket[i].inbox[k]
          /\ inbox[Len(socket[i].inbox) + 1] = m
      BY <1>3, <3>3, AppendProperties
    <3>6. /\ DOMAIN inbox = 1 .. Len(inbox) /\ Len(socket[i].inbox) \in Nat
          /\ DOMAIN socket[i].inbox = 1 .. Len(socket[i].inbox)
      BY <1>3, <3>5, LenProperties
    <3>. HIDE DEF inbox
    <3>7. ASSUME NEW k \in DOMAIN inbox PROVE ComesFrom(inbox[k], socket[i].target)
      <4>1. k \in DOMAIN socket[i].inbox \/ k = Len(socket[i].inbox) + 1
        BY <3>5, <3>6
      <4>2. CASE k \in DOMAIN socket[i].inbox
        BY <4>2, <3>5, <3>6, <1>1 DEF MessagesOK
      <4>3. CASE k = Len(socket[i].inbox) + 1
        BY <4>3, <3>3, <3>5
      <4>. QED BY <4>1, <4>2, <4>3
    <3>. QED BY <3>2, <3>4, <3>5, <3>7
  <2>2. ASSUME HostRunEnds(i)
        PROVE  \E inbox \in Seq(Message) :
                 /\ \A k \in DOMAIN inbox : ComesFrom(inbox[k], socket[i].target)
                 /\ socket' = [socket EXCEPT ![i].inbox = inbox]
    <3>. DEFINE m == [kind |-> "done", run |-> None]
    <3>1. socket' = [socket EXCEPT ![i].inbox = <<m>>] /\ socket[i].target \notin Internal
      BY <2>2 DEF HostRunEnds
    <3>2. m \in Message /\ ComesFrom(m, socket[i].target)
      BY <3>1 DEF Message, ComesFrom
    <3>. HIDE DEF m
    <3>3. <<m>> \in Seq(Message) /\ \A k \in DOMAIN <<m>> : ComesFrom(<<m>>[k], socket[i].target)
      BY <3>2
    <3>. QED BY <3>1, <3>3
  <2>3. {} \in SUBSET Runs
    OBVIOUS
  <2>. QED BY <2>1, <2>2, <2>3
<1>5. PICK asked \in SUBSET Runs, inbox \in Seq(Message) :
        /\ \A k \in DOMAIN inbox : ComesFrom(inbox[k], socket[i].target)
        /\ \/ socket' = [socket EXCEPT ![i].asked = asked, ![i].inbox = inbox]
           \/ socket' = [socket EXCEPT ![i].inbox = inbox]
  BY <1>4
<1>6. socket' \in [Sockets -> SocketRecord]
  <2>1. CASE socket' = [socket EXCEPT ![i].asked = asked, ![i].inbox = inbox]
    BY <1>1, <2>1, SocketUpdates, Zenon
  <2>2. CASE socket' = [socket EXCEPT ![i].inbox = inbox]
    BY <1>1, <2>2, SocketUpdates, Zenon
  <2>. QED BY <1>5, <2>1, <2>2
<1>7. /\ socket'[i].inbox = inbox /\ socket'[i].target = socket[i].target
      /\ socket'[i].has = socket[i].has /\ socket'[i].state = socket[i].state
      /\ \A j \in Sockets \ {i} : socket'[j] = socket[j]
  <2>1. CASE socket' = [socket EXCEPT ![i].asked = asked, ![i].inbox = inbox]
    BY <1>1, <2>1, Zenon DEF SocketRecord
  <2>2. CASE socket' = [socket EXCEPT ![i].inbox = inbox]
    BY <1>1, <2>2, Zenon DEF SocketRecord
  <2>. QED BY <1>5, <2>1, <2>2
<1>8. MessagesOK(socket')
  <2>. SUFFICES ASSUME NEW j \in Sockets, NEW k \in DOMAIN socket'[j].inbox
                PROVE  ComesFrom(socket'[j].inbox[k], socket'[j].target)
    BY DEF MessagesOK
  <2>1. CASE j = i
    BY <2>1, <1>5, <1>7
  <2>2. CASE j # i
    BY <2>2, <1>1, <1>7 DEF MessagesOK
  <2>. QED BY <2>1, <2>2
<1>. QED BY <1>2, <1>6, <1>7, <1>8, SocketsOnly DEF SocketsOK

(* A run's record with another phase and result. *)
LEMMA RunUpdates ==
  ASSUME NEW f \in [Runs -> RunRecord], NEW r \in Runs,
         NEW a \in {"new", "settings", "sent", "done", "error", "failed"}, NEW v \in Runs \cup {None}
  PROVE  [f EXCEPT ![r].phase = a, ![r].result = v] \in [Runs -> RunRecord]
<1>. DEFINE A == {"new", "settings", "sent", "done", "error", "failed"}
            B == Targets \cup {None}
            C == 0..MaxVersion
            D == Runs \cup {None}
<1>1. RunRecord = [phase : A, target : B, project : C, result : D] /\ a \in A /\ v \in D
  BY DEF RunRecord
<1>. HIDE DEF A, B, C, D
<1>. QED BY <1>1, Zenon

LEMMA RunFields ==
  ASSUME NEW rec \in RunRecord,
         NEW a \in {"new", "settings", "sent", "done", "error", "failed"},
         NEW b \in Targets \cup {None}, NEW c \in 0..MaxVersion
  PROVE  /\ rec.phase \in {"new", "settings", "sent", "done", "error", "failed"}
         /\ rec.target \in Targets \cup {None} /\ rec.project \in 0..MaxVersion
         /\ rec.result \in Runs \cup {None}
         /\ [rec EXCEPT !.phase = a, !.target = b, !.project = c] \in RunRecord
         /\ [rec EXCEPT !.phase = a, !.target = b, !.project = c].phase = a
         /\ [rec EXCEPT !.phase = a, !.target = b, !.project = c].target = b
         /\ [rec EXCEPT !.phase = a, !.target = b, !.project = c].project = c
<1>. DEFINE A == {"new", "settings", "sent", "done", "error", "failed"}
            B == Targets \cup {None}
            C == 0..MaxVersion
            D == Runs \cup {None}
<1>1. RunRecord = [phase : A, target : B, project : C, result : D] /\ a \in A /\ b \in B /\ c \in C
  BY DEF RunRecord
<1>. HIDE DEF A, B, C, D
<1>2. rec.phase \in A /\ rec.target \in B /\ rec.project \in C /\ rec.result \in D
  BY <1>1
<1>3. [rec EXCEPT !.phase = a, !.target = b, !.project = c] \in RunRecord
  BY <1>1, Zenon
<1>4. /\ [rec EXCEPT !.phase = a, !.target = b, !.project = c].phase = a
      /\ [rec EXCEPT !.phase = a, !.target = b, !.project = c].target = b
      /\ [rec EXCEPT !.phase = a, !.target = b, !.project = c].project = c
  BY <1>1, Zenon
<1>. QED BY <1>2, <1>3, <1>4 DEF A, B, C, D

(* A run's record with another phase, target and project. *)
RunPhase == {"new", "settings", "sent", "done", "error", "failed"}

Updated(rec, a, b, c) == [rec EXCEPT !.phase = a, !.target = b, !.project = c]

LEMMA RunUpdate ==
  ASSUME NEW rec \in RunRecord, NEW a \in RunPhase,
         NEW b \in Targets \cup {None}, NEW c \in 0..MaxVersion
  PROVE  /\ Updated(rec, a, b, c) \in RunRecord
         /\ Updated(rec, a, b, c).phase = a /\ Updated(rec, a, b, c).target = b
<1>. DEFINE B == Targets \cup {None}
            C == 0..MaxVersion
            D == Runs \cup {None}
<1>1. RunRecord = [phase : RunPhase, target : B, project : C, result : D] /\ b \in B /\ c \in C
  BY DEF RunRecord, RunPhase
<1>. HIDE DEF B, C, D
<1>2. Updated(rec, a, b, c) \in RunRecord
  BY <1>1, Zenon DEF Updated
<1>3. Updated(rec, a, b, c).phase = a /\ Updated(rec, a, b, c).target = b
  BY <1>1, Zenon DEF Updated
<1>. QED BY <1>2, <1>3

(* A message that is not stale ends what waits for it, and gives a run of an
   internal executor no result but its own. *)
LEMMA SettleStep ==
  ASSUME IInv, NEW i \in Sockets, NEW m \in Message, ComesFrom(m, socket[i].target),
         session.current = i, m.kind # "upload-allowed",
         Settle(m), SocketsOK(socket'), UNCHANGED <<session, home, cache, project>>,
         \A j \in Sockets : /\ socket'[j].state = socket[j].state
                            /\ socket'[j].target = socket[j].target
                            /\ socket'[j].has = socket[j].has
  PROVE  IInv'
<1>1. /\ run \in [Runs -> RunRecord] /\ active \in EditorRuns \cup {None}
      /\ session.current # None /\ session.target = socket[i].target
  BY Facts, Types
<1>2. PICK r : r = RequestOf(m)
  OBVIOUS
<1>3. /\ run' = IF r \in Pending \/ (r # None /\ r = active)
                THEN [run EXCEPT ![r].phase = m.kind, ![r].result = m.run] ELSE run
      /\ active' = IF m.run = active THEN None ELSE active
  BY <1>2 DEF Settle
<1>4. m.kind \in {"done", "error"} /\ m.run \in Runs \cup {None}
  BY DEF Message
<1>5. r = m.run \/ (m.run = None /\ r \in Pending)
  <2>1. CASE m.run # None \/ Cardinality(Pending) # 1
    BY <1>2, <2>1 DEF RequestOf
  <2>2. CASE m.run = None /\ Cardinality(Pending) = 1
    <3>1. Pending # {}
      <4>1. Pending = {} => Cardinality(Pending) = 0
        BY FS_EmptySet
      <4>. QED BY <4>1, <2>2
    <3>2. r = CHOOSE x \in Pending : TRUE
      BY <1>2, <2>2 DEF RequestOf
    <3>. QED BY <3>1, <3>2, <2>2
  <2>. QED BY <2>1, <2>2
<1>6. /\ run' \in [Runs -> RunRecord]
      /\ \A x \in Runs : x # r => run'[x] = run[x]
      /\ r \in Runs => run'[r].target = run[r].target
      /\ r \in Runs => run'[r] = run[r] \/ (run'[r].phase = m.kind /\ run'[r].result = m.run
                                              /\ (r \in Pending \/ r = active))
  <2>1. CASE r \in Pending \/ (r # None /\ r = active)
    <3>1. r \in Runs /\ run' = [run EXCEPT ![r].phase = m.kind, ![r].result = m.run]
      BY <1>1, <1>3, <2>1 DEF Pending, Runs
    <3>2. run' \in [Runs -> RunRecord]
      <4>1. m.kind \in {"new", "settings", "sent", "done", "error", "failed"}
        BY <1>4
      <4>. QED BY <1>1, <1>4, <3>1, <4>1, RunUpdates
    <3>3. /\ \A x \in Runs : x # r => run'[x] = run[x]
          /\ run'[r].target = run[r].target /\ run'[r].phase = m.kind /\ run'[r].result = m.run
      BY <1>1, <3>1, Zenon DEF RunRecord
    <3>. QED BY <2>1, <3>1, <3>2, <3>3
  <2>2. CASE ~ (r \in Pending \/ (r # None /\ r = active))
    BY <1>1, <1>3, <2>2
  <2>. QED BY <2>1, <2>2
<1>7. \A x \in Runs : run'[x].target = run[x].target
  BY <1>6
<1>8. Pending' \subseteq Pending
  BY <1>4, <1>6 DEF Pending, Runs
<1>9. TypeOK'
  BY <1>1, <1>3, <1>6, Types DEF IInv, SocketsOK, TypeOK, SocketRecord, Message, RunRecord
<1>10. SessionOwnsItsSocket'
  BY <1>1 DEF IInv, SessionOwnsItsSocket, Live
<1>11. WaitersHaveTheirSession'
  <2>1. ASSUME NEW x \in Pending' \cup ({active'} \ {None})
        PROVE  session.current # None /\ run'[x].target = session.target
    <3>1. x \in Pending \cup ({active} \ {None}) /\ x \in Runs
      BY <1>1, <1>3, <1>8, <2>1 DEF Pending, Runs
    <3>. QED BY <3>1, <1>7 DEF IInv, WaitersHaveTheirSession
  <2>. QED BY <2>1 DEF WaitersHaveTheirSession
<1>12. UploadsAreOfThisSession'
  BY <1>1 DEF IInv, UploadsAreOfThisSession
<1>13. ResultsAreOwn'
  <2>. SUFFICES ASSUME NEW x \in Runs, run'[x].phase \in {"done", "error"}
                PROVE  run'[x].result = x \/ run'[x].target \notin Internal
    BY DEF ResultsAreOwn
  <2>1. CASE run'[x] = run[x]
    BY <2>1 DEF IInv, ResultsAreOwn
  <2>2. CASE run'[x] # run[x]
    <3>1. x = r /\ run'[x].result = m.run
      BY <1>6, <2>2
    <3>2. CASE r = m.run
      BY <3>1, <3>2
    <3>3. CASE m.run = None /\ r \in Pending
      <4>1. socket[i].target \notin Internal
        BY <3>3 DEF ComesFrom
      <4>2. run[r].target = session.target
        BY <3>3 DEF IInv, WaitersHaveTheirSession
      <4>. QED BY <3>1, <4>1, <4>2, <1>1, <1>7
    <3>. QED BY <3>2, <3>3, <1>5
  <2>. QED BY <2>1, <2>2
<1>14. ActiveInv'
  <2>. SUFFICES ASSUME active' # None PROVE run'[active'].phase \notin {"new", "settings"}
    BY DEF ActiveInv
  <2>1. active' = active /\ active \in Runs
    BY <1>1, <1>3 DEF Runs
  <2>2. run[active].phase \notin {"new", "settings"}
    BY <2>1 DEF IInv, ActiveInv
  <2>. QED BY <2>1, <2>2, <1>4, <1>6
<1>. QED BY <1>9, <1>10, <1>11, <1>12, <1>13, <1>14 DEF IInv, SocketsOK, MessageInv

LEMMA ReceivesStep ==
  ASSUME IInv, NEW i \in Sockets, Receives(i)
  PROVE  IInv'
<1>. DEFINE m == Head(socket[i].inbox)
            rest == Tail(socket[i].inbox)
<1>1. /\ socket[i].inbox # <<>>
      /\ socket' = [socket EXCEPT ![i].inbox = Tail(@)]
      /\ UNCHANGED <<home, cache, project>>
      /\ \/ IsStale(i) /\ UNCHANGED <<session, run, active>>
         \/ /\ ~IsStale(i) /\ m.kind = "upload-allowed"
            /\ session' = [session EXCEPT !.upload = TRUE]
            /\ UNCHANGED <<run, active>>
         \/ ~IsStale(i) /\ m.kind # "upload-allowed" /\ Settle(m) /\ UNCHANGED session
  BY DEF Receives
<1>2. socket \in [Sockets -> SocketRecord] /\ MessagesOK(socket)
  BY Facts
<1>3. socket[i].inbox \in Seq(Message)
  BY <1>2, SocketFields
<1>4. /\ rest \in Seq(Message) /\ Len(rest) = Len(socket[i].inbox) - 1
      /\ \A k \in 1 .. Len(rest) : rest[k] = socket[i].inbox[k + 1]
      /\ m \in Message /\ m = socket[i].inbox[1]
  BY <1>1, <1>3, HeadTailProperties
<1>5. /\ DOMAIN rest = 1 .. Len(rest) /\ Len(rest) \in Nat
      /\ DOMAIN socket[i].inbox = 1 .. Len(rest) + 1
  BY <1>3, <1>4, LenProperties
<1>6. /\ ComesFrom(m, socket[i].target)
      /\ \A k \in DOMAIN rest : ComesFrom(rest[k], socket[i].target)
  <2>1. 1 \in DOMAIN socket[i].inbox /\ \A k \in DOMAIN rest : k + 1 \in DOMAIN socket[i].inbox
    BY <1>5
  <2>. QED BY <2>1, <1>2, <1>4, <1>5 DEF MessagesOK
<1>7. socket' = [socket EXCEPT ![i].inbox = rest]
  BY <1>1
<1>. PICK message \in Message : message = m
  BY <1>4
<1>. HIDE DEF rest, m
<1>8. /\ socket' \in [Sockets -> SocketRecord]
      /\ socket'[i].inbox = rest /\ socket'[i].target = socket[i].target
      /\ socket'[i].has = socket[i].has /\ socket'[i].state = socket[i].state
      /\ \A j \in Sockets \ {i} : socket'[j] = socket[j]
  <2>1. socket' \in [Sockets -> SocketRecord]
    BY <1>2, <1>4, <1>7, SocketUpdates, Zenon
  <2>2. /\ socket'[i].inbox = rest /\ socket'[i].target = socket[i].target
        /\ socket'[i].has = socket[i].has /\ socket'[i].state = socket[i].state
        /\ \A j \in Sockets \ {i} : socket'[j] = socket[j]
    BY <1>2, <1>7, Zenon DEF SocketRecord
  <2>. QED BY <2>1, <2>2
<1>9. SocketsOK(socket')
  <2>. SUFFICES ASSUME NEW j \in Sockets, NEW k \in DOMAIN socket'[j].inbox
                PROVE  ComesFrom(socket'[j].inbox[k], socket'[j].target)
    BY <1>8 DEF SocketsOK, MessagesOK
  <2>1. CASE j = i
    BY <2>1, <1>6, <1>8
  <2>2. CASE j # i
    BY <2>2, <1>2, <1>8 DEF MessagesOK
  <2>. QED BY <2>1, <2>2
<1>10. \A j \in Sockets : /\ socket'[j].state = socket[j].state
                          /\ socket'[j].target = socket[j].target
                          /\ socket'[j].has = socket[j].has
  BY <1>8
<1>11. CASE IsStale(i) /\ UNCHANGED <<session, run, active>>
  BY <1>1, <1>9, <1>10, <1>11, SocketsOnly
<1>12. CASE /\ ~IsStale(i) /\ m.kind = "upload-allowed"
            /\ session' = [session EXCEPT !.upload = TRUE]
            /\ UNCHANGED <<run, active>>
  <2>1. session.current = i
    BY <1>12 DEF IsStale
  <2>2. /\ session' \in SessionRecord
        /\ session'.current = i /\ session'.target = session.target
        /\ session'.status = session.status /\ session'.timer = session.timer
    BY <1>12, <2>1, Facts DEF SessionRecord
  <2>3. session.target \in AllowUpload
    BY <1>6, <1>12, <2>1, Facts, Types DEF ComesFrom
  <2>4. /\ run' \in [Runs -> RunRecord] /\ project' \in 1..MaxVersion
        /\ home' \in {None, Home} /\ active' \in EditorRuns \cup {None}
        /\ cache' \in [target : Targets \cup {None}, project : 0..MaxVersion]
    BY <1>1, <1>12, Facts
  <2>5. TypeOK'
    BY <1>8, <2>2, <2>4 DEF TypeOK, SocketRecord, Message, SessionRecord, RunRecord
  <2>6. SessionOwnsItsSocket'
    BY <1>10, <2>1, <2>2, Types DEF IInv, SessionOwnsItsSocket, Live
  <2>7. UploadsAreOfThisSession'
    BY <1>1, <1>10, <2>1, <2>2, <2>3 DEF IInv, UploadsAreOfThisSession
  <2>8. WaitersHaveTheirSession' /\ ResultsAreOwn' /\ ActiveInv'
    BY <1>12, <2>1, <2>2 DEF IInv, WaitersHaveTheirSession, Pending, ResultsAreOwn, ActiveInv
  <2>. QED BY <1>9, <2>5, <2>6, <2>7, <2>8 DEF IInv, SocketsOK, MessageInv
<1>13. CASE ~IsStale(i) /\ m.kind # "upload-allowed" /\ Settle(m) /\ UNCHANGED session
  <2>1. /\ session.current = i /\ message.kind # "upload-allowed" /\ Settle(message)
        /\ ComesFrom(message, socket[i].target)
    BY <1>6, <1>13 DEF IsStale
  <2>. QED BY <1>1, <1>9, <1>10, <1>13, <2>1, SettleStep
<1>. QED BY <1>1, <1>11, <1>12, <1>13

(***************************************************************************)
(* Runs.                                                                   *)
(***************************************************************************)

(* Sending a run asks the server of the session's socket, which then has the
   project that came along. *)
LEMMA SendOK ==
  ASSUME IInv, CanSend, NEW r \in Runs, NEW got \in 0..MaxVersion, Send(r, got)
  PROVE  /\ SocketsOK(socket')
         /\ \A j \in Sockets : /\ socket'[j].state = socket[j].state
                               /\ socket'[j].target = socket[j].target
         /\ session.current # None /\ socket'[session.current].has = got
         /\ run' \in [Runs -> RunRecord]
         /\ run'[r].phase = "sent" /\ run'[r].target = session.target
         /\ \A x \in Runs : x # r => run'[x] = run[x]
         /\ active' = IF r \in EditorRuns THEN r ELSE active
<1>1. PICK i \in Sockets : i = session.current
  BY Facts DEF CanSend
<1>2. session.current # None
  BY DEF CanSend
<1>3. /\ socket \in [Sockets -> SocketRecord] /\ MessagesOK(socket)
      /\ run \in [Runs -> RunRecord] /\ session \in SessionRecord
  BY Facts
<1>4. /\ socket' = [socket EXCEPT ![i].asked = @ \cup {r}, ![i].has = got]
      /\ run' = [run EXCEPT ![r] = [@ EXCEPT !.phase = "sent", !.target = session.target, !.project = 0]]
      /\ active' = IF r \in EditorRuns THEN r ELSE active
  BY <1>1 DEF Send
<1>5. PICK asked \in SUBSET Runs : asked = socket[i].asked \cup {r}
  <2>1. socket[i].asked \in SUBSET Runs
    BY <1>3, SocketFields
  <2>. QED BY <2>1
<1>6. socket' = [socket EXCEPT ![i].asked = asked, ![i].has = got]
  BY <1>4, <1>5
<1>7. socket' \in [Sockets -> SocketRecord]
  BY <1>3, <1>6, SocketUpdates, Zenon
<1>8. /\ socket'[i].inbox = socket[i].inbox /\ socket'[i].target = socket[i].target
      /\ socket'[i].state = socket[i].state /\ socket'[i].has = got
      /\ \A j \in Sockets \ {i} : socket'[j] = socket[j]
  BY <1>3, <1>6, Zenon DEF SocketRecord
<1>9. MessagesOK(socket')
  BY <1>3, <1>8 DEF MessagesOK
<1>10. PICK t \in Targets \cup {None} : t = session.target
  BY <1>3 DEF SessionRecord
<1>11. PICK sent : sent = Updated(run[r], "sent", t, 0)
  OBVIOUS
<1>12. sent \in RunRecord /\ sent.phase = "sent" /\ sent.target = t
  <2>1. run[r] \in RunRecord /\ "sent" \in RunPhase /\ 0 \in 0..MaxVersion
    BY <1>3, Types DEF RunPhase
  <2>2. /\ Updated(run[r], "sent", t, 0) \in RunRecord
        /\ Updated(run[r], "sent", t, 0).phase = "sent"
        /\ Updated(run[r], "sent", t, 0).target = t
    BY <2>1, RunUpdate
  <2>. QED BY <1>11, <2>2
<1>13. run' = [run EXCEPT ![r] = sent]
  BY <1>4, <1>10, <1>11, Zenon DEF Updated
<1>14. SocketsOK(socket')
  BY <1>7, <1>9 DEF SocketsOK
<1>15. \A j \in Sockets : socket'[j].state = socket[j].state /\ socket'[j].target = socket[j].target
  BY <1>8
<1>16. /\ run' \in [Runs -> RunRecord]
       /\ run'[r].phase = "sent" /\ run'[r].target = session.target
       /\ \A x \in Runs : x # r => run'[x] = run[x]
  BY <1>3, <1>10, <1>12, <1>13
<1>17. socket'[session.current].has = got
  BY <1>1, <1>8
<1>18. active' = IF r \in EditorRuns THEN r ELSE active
  BY <1>4
<1>. QED BY <1>2, <1>14, <1>15, <1>16, <1>17, <1>18

LEMMA SentStep ==
  ASSUME IInv, CanSend, NEW r \in Runs, NEW got \in 0..MaxVersion, Send(r, got),
         UNCHANGED <<session, home, project>>,
         cache' \in [target : Targets \cup {None}, project : 0..MaxVersion],
         cache' # NoUpload /\ cache'.target = session.target => got = cache'.project
  PROVE  IInv'
<1>1. /\ SocketsOK(socket')
      /\ \A j \in Sockets : /\ socket'[j].state = socket[j].state
                            /\ socket'[j].target = socket[j].target
      /\ session.current # None /\ socket'[session.current].has = got
      /\ run' \in [Runs -> RunRecord]
      /\ run'[r].phase = "sent" /\ run'[r].target = session.target
      /\ \A x \in Runs : x # r => run'[x] = run[x]
      /\ active' = IF r \in EditorRuns THEN r ELSE active
  BY SendOK
<1>2. /\ home' \in {None, Home} /\ project' \in 1..MaxVersion /\ session' \in SessionRecord
      /\ active \in EditorRuns \cup {None} /\ session.current \in Sockets
  BY <1>1, Facts
<1>3. active' \in EditorRuns \cup {None}
  BY <1>1, <1>2
<1>4. TypeOK'
  BY <1>1, <1>2, <1>3 DEF SocketsOK, TypeOK, SocketRecord, Message, SessionRecord, RunRecord
<1>5. SessionOwnsItsSocket'
  BY <1>1, <1>2 DEF IInv, SessionOwnsItsSocket, Live
<1>6. WaitersHaveTheirSession'
  <2>1. ASSUME NEW x \in Pending' \cup ({active'} \ {None})
        PROVE  session.current # None /\ run'[x].target = session.target
    <3>1. x \in Runs
      BY <1>3, <2>1 DEF Pending, Runs
    <3>2. CASE x = r
      BY <3>2, <1>1
    <3>3. CASE x # r
      <4>1. x \in Pending \cup ({active} \ {None})
        BY <3>1, <3>3, <2>1, <1>1 DEF Pending
      <4>. QED BY <4>1, <3>1, <3>3, <1>1 DEF IInv, WaitersHaveTheirSession
    <3>. QED BY <3>2, <3>3
  <2>. QED BY <2>1 DEF WaitersHaveTheirSession
<1>7. UploadsAreOfThisSession'
  BY <1>1 DEF IInv, UploadsAreOfThisSession
<1>8. ResultsAreOwn'
  BY <1>1 DEF IInv, ResultsAreOwn
<1>9. ActiveInv'
  <2>. SUFFICES ASSUME active' # None PROVE run'[active'].phase \notin {"new", "settings"}
    BY DEF ActiveInv
  <2>1. active' \in Runs
    BY <1>3 DEF Runs
  <2>2. CASE active' = r
    BY <2>2, <1>1
  <2>3. CASE active' # r
    <3>1. active' = active /\ run'[active'] = run[active]
      BY <2>1, <2>3, <1>1
    <3>. QED BY <3>1 DEF IInv, ActiveInv
  <2>. QED BY <2>2, <2>3
<1>. QED BY <1>1, <1>4, <1>5, <1>6, <1>7, <1>8, <1>9 DEF IInv, SocketsOK, MessageInv

(* A step of a run that is sent nowhere. *)
LEMMA RunOnly ==
  ASSUME IInv, NEW r \in Runs, run[r].phase \in {"new", "settings"}, NEW other \in RunRecord,
         other.phase \in {"settings", "failed"},
         run' = [run EXCEPT ![r] = other],
         active' \in {active, None}, UNCHANGED <<socket, session, home, cache, project>>
  PROVE  IInv'
<1>1. run \in [Runs -> RunRecord] /\ active \in EditorRuns \cup {None}
  BY Facts
<1>2. /\ run' \in [Runs -> RunRecord] /\ run'[r] = other
      /\ \A x \in Runs : x # r => run'[x] = run[x]
  BY <1>1
<1>3. active' \in EditorRuns \cup {None}
  BY <1>1
<1>4. TypeOK'
  BY <1>2, <1>3, Types DEF IInv, TypeOK, RunRecord
<1>5. SessionOwnsItsSocket' /\ UploadsAreOfThisSession' /\ MessageInv'
  BY DEF IInv, SessionOwnsItsSocket, Live, UploadsAreOfThisSession, MessageInv, MessagesOK
<1>6. active # r
  BY Types DEF IInv, ActiveInv, Runs
<1>7. WaitersHaveTheirSession'
  <2>1. ASSUME NEW x \in Pending' \cup ({active'} \ {None})
        PROVE  session.current # None /\ run'[x].target = session.target
    <3>1. x \in Runs /\ x # r /\ x \in Pending \cup ({active} \ {None})
      BY <1>1, <1>2, <1>6, <2>1, Types DEF Pending, Runs
    <3>. QED BY <3>1, <1>2 DEF IInv, WaitersHaveTheirSession
  <2>. QED BY <2>1 DEF WaitersHaveTheirSession
<1>8. ResultsAreOwn'
  BY <1>2 DEF IInv, ResultsAreOwn
<1>9. ActiveInv'
  <2>. SUFFICES ASSUME active' # None PROVE run'[active'].phase \notin {"new", "settings"}
    BY DEF ActiveInv
  <2>1. active' = active /\ active \in Runs
    BY <1>1 DEF Runs
  <2>. QED BY <2>1, <1>2, <1>6 DEF IInv, ActiveInv
<1>. QED BY <1>4, <1>5, <1>7, <1>8, <1>9 DEF IInv

LEMMA StartRunStep ==
  ASSUME IInv, NEW r \in Runs, StartRun(r)
  PROVE  IInv'
<1>1. /\ run[r].phase = "new" /\ CanSend
      /\ UNCHANGED <<session, home, cache, project>>
      /\ \/ /\ run' = [run EXCEPT ![r] = [@ EXCEPT !.phase = "settings", !.target = session.target,
                                                 !.project = project]]
            /\ UNCHANGED <<socket, active>>
         \/ Send(r, socket[session.current].has)
  BY DEF StartRun, CanSendRun
<1>2. CASE /\ run' = [run EXCEPT ![r] = [@ EXCEPT !.phase = "settings", !.target = session.target,
                                                 !.project = project]]
           /\ UNCHANGED <<socket, active>>
  <2>1. /\ session.target \in Targets \cup {None} /\ project \in 0..MaxVersion
        /\ run \in [Runs -> RunRecord] /\ run[r] \in RunRecord
        /\ "settings" \in RunPhase
    BY Facts, Types DEF SessionRecord, RunPhase
  <2>2. PICK t \in Targets \cup {None}, p \in 0..MaxVersion : t = session.target /\ p = project
    BY <2>1
  <2>3. PICK other \in RunRecord :
          /\ other = Updated(run[r], "settings", t, p)
          /\ other.phase = "settings"
    <3>1. t \in Targets \cup {None} /\ p \in 0..MaxVersion /\ run[r] \in RunRecord
      BY <2>1, <2>2
    <3>2. /\ Updated(run[r], "settings", t, p) \in RunRecord
          /\ Updated(run[r], "settings", t, p).phase = "settings"
      BY <2>1, <3>1, RunUpdate
    <3>. QED BY <3>2
  <2>4. run' = [run EXCEPT ![r] = other]
    BY <1>2, <2>2, <2>3, Zenon DEF Updated
  <2>. QED BY <1>1, <1>2, <2>3, <2>4, RunOnly
<1>3. CASE Send(r, socket[session.current].has)
  <2>1. PICK got \in 0..MaxVersion : got = socket[session.current].has
    <3>1. session.current \in Sockets /\ socket \in [Sockets -> SocketRecord]
      BY <1>1, Facts DEF CanSend
    <3>. QED BY <3>1, SocketFields
  <2>2. /\ cache' \in [target : Targets \cup {None}, project : 0..MaxVersion]
        /\ cache' # NoUpload /\ cache'.target = session.target => got = cache'.project
    BY <1>1, <2>1, Facts DEF IInv, UploadsAreOfThisSession
  <2>. QED BY <1>1, <1>3, <2>1, <2>2, SentStep
<1>. QED BY <1>1, <1>2, <1>3

LEMMA SettingsArriveStep ==
  ASSUME IInv, NEW r \in Runs, SettingsArrive(r)
  PROVE  IInv'
<1>. DEFINE upload == [target |-> SessionKey(r), project |-> run[r].project]
<1>1. /\ run[r].phase = "settings" /\ UNCHANGED <<session, home, project>>
      /\ \/ /\ CanSend
            /\ Send(r, IF cache = upload THEN socket[session.current].has ELSE run[r].project)
            /\ cache' = upload
         \/ /\ run' = [run EXCEPT ![r] = Failed]
            /\ active' = IF cache = upload /\ r \in EditorRuns THEN None ELSE active
            /\ UNCHANGED <<socket, cache>>
  BY DEF SettingsArrive
<1>2. /\ run[r] \in RunRecord /\ session \in SessionRecord
      /\ run[r].target \in Targets \cup {None} /\ run[r].project \in 0..MaxVersion
  <2>1. run[r] \in RunRecord /\ session \in SessionRecord
    BY Facts
  <2>. QED BY <2>1 DEF RunRecord
<1>3. upload \in [target : Targets \cup {None}, project : 0..MaxVersion]
  <2>1. SessionKey(r) \in Targets \cup {None}
    BY <1>2 DEF SessionKey, SessionRecord
  <2>. QED BY <1>2, <2>1
<1>4. CASE /\ CanSend
           /\ Send(r, IF cache = upload THEN socket[session.current].has ELSE run[r].project)
           /\ cache' = upload
  <2>1. session.current \in Sockets /\ session.current # None /\ socket \in [Sockets -> SocketRecord]
    BY <1>4, Facts DEF CanSend
  <2>2. socket[session.current].has \in 0..MaxVersion
    BY <2>1, SocketFields
  <2>3. PICK got \in 0..MaxVersion :
          got = IF cache = upload THEN socket[session.current].has ELSE run[r].project
    BY <1>2, <2>2
  <2>4. ASSUME cache' # NoUpload, cache'.target = session.target PROVE got = cache'.project
    <3>1. CASE cache = upload
      BY <1>4, <2>3, <2>4, <3>1 DEF IInv, UploadsAreOfThisSession
    <3>2. CASE cache # upload
      BY <1>4, <2>3, <3>2
    <3>. QED BY <3>1, <3>2
  <2>5. cache' \in [target : Targets \cup {None}, project : 0..MaxVersion]
    BY <1>3, <1>4
  <2>6. CanSend /\ Send(r, got)
    BY <1>4, <2>3
  <2>. HIDE DEF upload
  <2>. QED BY <1>1, <2>4, <2>5, <2>6, SentStep
<1>5. CASE /\ run' = [run EXCEPT ![r] = Failed]
           /\ active' = IF cache = upload /\ r \in EditorRuns THEN None ELSE active
           /\ UNCHANGED <<socket, cache>>
  <2>1. Failed \in RunRecord /\ Failed.phase = "failed"
    BY Types DEF Failed, RunRecord
  <2>2. active' \in {active, None}
    BY <1>5
  <2>. QED BY <1>1, <1>5, <2>1, <2>2, RunOnly
<1>. QED BY <1>1, <1>4, <1>5

LEMMA EditStep ==
  ASSUME IInv, Edit
  PROVE  IInv'
<1>1. project' \in 1..MaxVersion /\ UNCHANGED <<socket, session, home, run, active, cache>>
  BY Facts, Types DEF Edit
<1>2. TypeOK'
  BY <1>1 DEF IInv, TypeOK
<1>. QED BY <1>1, <1>2
     DEF IInv, SessionOwnsItsSocket, Live, WaitersHaveTheirSession, Pending,
         UploadsAreOfThisSession, ResultsAreOwn, MessageInv, MessagesOK, ActiveInv

LEMMA StutterStep ==
  ASSUME IInv, UNCHANGED vars
  PROVE  IInv'
<1>1. UNCHANGED <<socket, session, home, run, active, cache, project>>
  BY DEF vars
<1>2. TypeOK'
  BY <1>1 DEF IInv, TypeOK
<1>. QED BY <1>1, <1>2
     DEF IInv, SessionOwnsItsSocket, Live, WaitersHaveTheirSession, Pending,
         UploadsAreOfThisSession, ResultsAreOwn, MessageInv, MessagesOK, ActiveInv

LEMMA InitIInv ==
  ASSUME Init
  PROVE  IInv
<1>1. /\ socket = [i \in Sockets |-> Closed] /\ session = Idle /\ home = None
      /\ run = [r \in Runs |-> [phase |-> "new", target |-> None, project |-> 0, result |-> None]]
      /\ active = None /\ cache = NoUpload /\ project = 1
  BY DEF Init
<1>2. Closed \in SocketRecord /\ Closed.inbox = <<>> /\ Closed.state = "closed"
  BY ClosedOK
<1>3. socket \in [Sockets -> SocketRecord] /\ run \in [Runs -> RunRecord]
  BY <1>1, <1>2, Types DEF RunRecord
<1>4. cache \in [target : Targets \cup {None}, project : 0..MaxVersion] /\ project \in 1..MaxVersion
  BY <1>1, Types, ExecutorSessionAssumption DEF NoUpload
<1>5. TypeOK
  BY <1>1, <1>3, <1>4, IdleOK, Types
<1>6. SessionOwnsItsSocket
  BY <1>1, <1>2, IdleOK DEF SessionOwnsItsSocket, Live
<1>7. WaitersHaveTheirSession
  <2>1. Pending = {} /\ {active} \ {None} = {}
    BY <1>1 DEF Pending, Runs
  <2>. QED BY <2>1 DEF WaitersHaveTheirSession
<1>8. UploadsAreOfThisSession
  BY <1>1 DEF UploadsAreOfThisSession, Idle
<1>9. ResultsAreOwn /\ ActiveInv
  BY <1>1 DEF ResultsAreOwn, ActiveInv
<1>10. MessageInv
  <2>1. DOMAIN Closed.inbox = {}
    BY <1>2
  <2>. QED BY <1>1, <2>1 DEF MessageInv, MessagesOK
<1>. QED BY <1>5, <1>6, <1>7, <1>8, <1>9, <1>10 DEF IInv

(***************************************************************************)
(* Theorems.                                                               *)
(***************************************************************************)

(* Every step of the user, the timer, a socket, a server or a run keeps the
   invariant. *)
THEOREM SessionInvariant == Spec => []IInv
<1>1. Init => IInv
  BY InitIInv
<1>2. ASSUME IInv, [Next]_vars PROVE IInv'
  <2>1. CASE \/ \E t \in Targets : UserConnects(t)
             \/ UserDisconnects \/ SelectExecutor \/ TimerFires
    BY <1>2, <2>1, UserStep
  <2>2. ASSUME NEW i \in Sockets,
               Opens(i) \/ BeginsToClose(i) \/ Closes(i) \/ Receives(i) \/ HostRunEnds(i)
        PROVE  IInv'
    BY <1>2, <2>2, OpensStep, BeginsToCloseStep, ClosesStep, ReceivesStep, AnswersStep
  <2>3. ASSUME NEW i \in Sockets, NEW r \in Runs, Answers(i, r) PROVE IInv'
    BY <1>2, <2>3, AnswersStep
  <2>4. ASSUME NEW r \in Runs, StartRun(r) \/ SettingsArrive(r) PROVE IInv'
    BY <1>2, <2>4, StartRunStep, SettingsArriveStep
  <2>5. CASE Edit
    BY <1>2, <2>5, EditStep
  <2>6. CASE UNCHANGED vars
    BY <1>2, <2>6, StutterStep
  <2>. QED BY <1>2, <2>1, <2>2, <2>3, <2>4, <2>5, <2>6 DEF Next
<1>. QED BY <1>1, <1>2, PTL DEF Spec

(* However often a session is replaced, lost and taken up again, it has one
   socket, whose events alone it heeds, and whoever waits for the result of a
   run waits on the session the run was sent over. *)
THEOREM OneSessionOneSocket == Spec => []SessionIsWhole
<1>1. IInv => SessionIsWhole
  BY DEF IInv, SessionIsWhole
<1>. QED BY <1>1, SessionInvariant, PTL

(* What the upload cache takes for uploaded is on the server of the connection
   there is, for every number of edits, runs and reconnections. *)
THEOREM UploadsStayCurrent == Spec => []UploadsAreOfThisSession
<1>1. IInv => UploadsAreOfThisSession
  BY DEF IInv
<1>. QED BY <1>1, SessionInvariant, PTL

(* Whatever messages arrive late or without an id, a run of an internal
   executor ends with its own result. *)
THEOREM RunsGetTheirResults == Spec => []ResultsAreOwn
<1>1. IInv => ResultsAreOwn
  BY DEF IInv
<1>. QED BY <1>1, SessionInvariant, PTL
=============================================================================
