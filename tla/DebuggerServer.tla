--------------------------- MODULE DebuggerServer ---------------------------
(***************************************************************************)
(* The debugger server of the Node executor: editors connect over sockets, *)
(* upload a project and ask for runs; each run gets a processor that is    *)
(* attached to the server, which sends its events to every socket and      *)
(* hands pause, resume and abort to every attached processor.  A heartbeat *)
(* per socket finds the peers that are gone.                               *)
(*                                                                         *)
(* What a processor does between its start and its end is the business of  *)
(* GraphProcessor; here it sends events, may ask an editor for a dataset,  *)
(* and runs dry.  A client stands for one connection.                      *)
(***************************************************************************)
EXTENDS Naturals, Sequences, SequencesExt

CONSTANTS
  Client,        \* the connections, in any order
  Unsteady,      \* those that may fail, and need a heartbeat: a bound
  Request,       \* the run requests: a request and its processor
  WithDataset,   \* those whose graph reads a dataset
  AbortMessage,  \* the abort messages that arrive
  None           \* no client, no message

ASSUME ServerAssumption == None \notin Client \cup AbortMessage

VARIABLES
  socket,              \* readyState of each connection
  reachable,           \* the clients that still hear and answer
  awaitingPong,        \* heartbeats that wait for an answer
  timeouts,            \* pending timers of a heartbeat: its last ping's, or an older one's
  unflushed,           \* sockets with a send whose callback is still to come
  onrequest,           \* where the dataset provider sends its requests
  uploaded,            \* currentDebuggerState has a project
  client,              \* who asked for a run
  run,                 \* how far it is
  asked,               \* to whom its request for a dataset went
  answered,            \* requests whose client was sent done, error or abort
  attachedProcessors,  \* in the order they were attached
  isPaused,            \* the paused processors
  abortedBy,           \* the message that aborted a processor
  abortLoop            \* the processors an abort message has still to abort

socketVars == <<socket, reachable, awaitingPong, timeouts, unflushed>>
serverRunVars == <<client, run, asked, answered, attachedProcessors>>
controlVars == <<isPaused, abortedBy, abortLoop>>
serverVars == <<socketVars, onrequest, uploaded, serverRunVars, controlVars>>

Open == {c \in Client : socket[c] = "open"}
Attached == ToSet(attachedProcessors)

ServerInit ==
  /\ socket = [c \in Client |-> "none"]
  /\ reachable = Client
  /\ awaitingPong = {}
  /\ timeouts = [c \in Client |-> {}]
  /\ unflushed = {}
  /\ onrequest = None
  /\ uploaded = FALSE
  /\ client = [r \in Request |-> None]
  /\ run = [r \in Request |-> "none"]
  /\ asked = [r \in Request |-> None]
  /\ answered = {}
  /\ attachedProcessors = <<>>
  /\ isPaused = {}
  /\ abortedBy = [r \in Request |-> None]
  /\ abortLoop = [m \in AbortMessage |-> <<>>]

-----------------------------------------------------------------------------
(***************************************************************************)
(* Sockets.  A message that arrives and one that was sent count as signs   *)
(* of life, the latter once more when its callback comes.  A send to a     *)
(* peer that is gone may seem to succeed; one that fails, at once or in    *)
(* its callback, ends that socket only.                                    *)
(***************************************************************************)
MarkAlive_TimerOnly(S) ==   \* mutant: the heartbeat goes on waiting
  /\ UNCHANGED awaitingPong
  /\ timeouts' = [c \in Client |-> IF c \in S THEN {} ELSE timeouts[c]]

MarkAlive(S) ==
  /\ awaitingPong' = awaitingPong \ S
  /\ timeouts' = [c \in Client |-> IF c \in S THEN {} ELSE timeouts[c]]

(* terminate() or close, and the heartbeat's cleanup. *)
Closed(c) ==
  /\ socket' = [socket EXCEPT ![c] = "closed"]
  /\ MarkAlive({c})
  /\ unflushed' = unflushed \ {c}

SendTo(S) ==
  /\ MarkAlive(S \cap Open)
  /\ unflushed' = unflushed \cup (S \cap Open \cap Unsteady)
  /\ UNCHANGED <<socket, reachable>>

Broadcast == SendTo(Open)

(* The callback of a send. *)
Flushed(c) ==
  /\ c \in unflushed
  /\ \/ /\ MarkAlive({c})
        /\ unflushed' = unflushed \ {c}
        /\ UNCHANGED socket
     \/ c \notin reachable /\ Closed(c)
  /\ UNCHANGED <<reachable, onrequest, uploaded, serverRunVars, controlVars>>

(* A message from c arrives. *)
Hears(c) ==
  /\ c \in Open \cap reachable
  /\ MarkAlive({c})
  /\ UNCHANGED <<socket, reachable, unflushed>>

(* The newest connection gets the dataset requests of every run. *)
Connect(c) ==
  /\ socket[c] = "none"
  /\ socket' = [socket EXCEPT ![c] = "open"]
  /\ onrequest' = c
  /\ UNCHANGED <<reachable, awaitingPong, timeouts, unflushed, uploaded, serverRunVars,
                 controlVars>>

Disconnect(c) ==
  /\ c \in Open \cap Unsteady
  /\ Closed(c)
  /\ UNCHANGED <<reachable, onrequest, uploaded, serverRunVars, controlVars>>

PeerVanishes(c) ==
  /\ c \in Open \cap reachable \cap Unsteady
  /\ reachable' = reachable \ {c}
  /\ UNCHANGED <<socket, awaitingPong, timeouts, unflushed, onrequest, uploaded,
                 serverRunVars, controlVars>>

SendPing(c) ==
  /\ c \in (Open \cap Unsteady) \ awaitingPong
  /\ \/ /\ awaitingPong' = awaitingPong \cup {c}
        /\ timeouts' = [timeouts EXCEPT ![c] = {"last"} \cup (IF @ = {} THEN {} ELSE {"older"})]
        /\ UNCHANGED <<socket, unflushed>>
     \/ c \notin reachable /\ Closed(c)
  /\ UNCHANGED <<reachable, onrequest, uploaded, serverRunVars, controlVars>>

Pong(c) ==
  /\ c \in awaitingPong
  /\ Hears(c)
  /\ UNCHANGED <<onrequest, uploaded, serverRunVars, controlVars>>

TimerFires(c) ==
  /\ \E t \in timeouts[c] :
       IF c \in awaitingPong
       THEN Closed(c)
       ELSE /\ timeouts' = [timeouts EXCEPT ![c] = @ \ {t}]
            /\ UNCHANGED <<socket, awaitingPong, unflushed>>
  /\ UNCHANGED <<reachable, onrequest, uploaded, serverRunVars, controlVars>>

-----------------------------------------------------------------------------
(***************************************************************************)
(* Uploads and runs.                                                       *)
(***************************************************************************)
Upload(c) ==
  /\ Hears(c)
  /\ uploaded' = TRUE
  /\ UNCHANGED <<onrequest, serverRunVars, controlVars>>

(* A terminal message of r is sent to r's client. *)
Answer(r) == answered' = answered \cup {q \in {r} : client'[q] \in Open}

RunRequested(c, r) ==
  /\ run[r] = "none"
  /\ Hears(c)
  /\ client' = [client EXCEPT ![r] = c]
  /\ IF uploaded
     THEN run' = [run EXCEPT ![r] = "assembling"] /\ UNCHANGED answered
     ELSE run' = [run EXCEPT ![r] = "over"] /\ Answer(r)
  /\ UNCHANGED <<onrequest, uploaded, asked, attachedProcessors, controlVars>>

(* The plugins are there: make the processor, attach it and run it. *)
Assembled(r) ==
  /\ run[r] = "assembling"
  /\ UNCHANGED client
  /\ \/ /\ run' = [run EXCEPT ![r] = "running"]
        /\ attachedProcessors' = Append(attachedProcessors, r)
        /\ UNCHANGED answered
     \/ /\ run' = [run EXCEPT ![r] = "over"]
        /\ Answer(r)
        /\ UNCHANGED attachedProcessors
  /\ UNCHANGED <<socketVars, onrequest, uploaded, asked, controlVars>>

(* An event of the run. *)
Progress(r) ==
  /\ run[r] = "running"
  /\ Broadcast
  /\ UNCHANGED <<onrequest, uploaded, serverRunVars, controlVars>>

(* A node asks for a dataset, once in a run, and waits without a timeout. *)
AsksForDataset(r) ==
  /\ r \in WithDataset
  /\ run[r] = "running"
  /\ asked[r] = None
  /\ run' = [run EXCEPT ![r] = "waiting"]
  /\ asked' = [asked EXCEPT ![r] = onrequest]
  /\ SendTo({onrequest})
  /\ UNCHANGED <<onrequest, uploaded, client, answered, attachedProcessors, controlVars>>

DatasetAnswered(r) ==
  /\ run[r] = "waiting"
  /\ Hears(asked[r])
  /\ run' = [run EXCEPT ![r] = "running"]
  /\ UNCHANGED <<onrequest, uploaded, client, asked, answered, attachedProcessors, controlVars>>

(* The processing queue is idle. *)
Drains(r) ==
  /\ run[r] = "running"
  /\ r \notin isPaused \/ abortedBy[r] # None
  /\ run' = [run EXCEPT ![r] = "drained"]
  /\ UNCHANGED <<socketVars, onrequest, uploaded, client, asked, answered,
                 attachedProcessors, controlVars>>

(* detach(), and the processor is gone. *)
Forget(r) ==
  /\ attachedProcessors' = RemoveFirst(attachedProcessors, r)
  /\ isPaused' = isPaused \ {r}
  /\ asked' = [asked EXCEPT ![r] = None]

RunEnds_DetachedFirst(r) ==   \* mutant: detach before the terminal event is sent
  /\ run[r] = "drained"
  /\ run' = [run EXCEPT ![r] = "over"]
  /\ Forget(r)
  /\ UNCHANGED <<socketVars, onrequest, uploaded, client, answered, abortedBy, abortLoop>>

(* done or error is sent under the request's id, then finish detaches. *)
RunEnds(r) ==
  /\ run[r] = "drained"
  /\ run' = [run EXCEPT ![r] = "over"]
  /\ UNCHANGED client
  /\ Broadcast
  /\ Answer(r)
  /\ Forget(r)
  /\ UNCHANGED <<onrequest, uploaded, abortedBy, abortLoop>>

-----------------------------------------------------------------------------
(***************************************************************************)
(* Control messages go to all attached processors, whoever sends them.     *)
(***************************************************************************)
Pause(c) ==
  /\ c \in Open \cap reachable
  /\ isPaused' = isPaused \cup Attached
  /\ IF Attached \subseteq isPaused THEN Hears(c) ELSE Broadcast
  /\ UNCHANGED <<onrequest, uploaded, serverRunVars, abortedBy, abortLoop>>

Resume(c) ==
  /\ c \in Open \cap reachable
  /\ isPaused' = isPaused \ Attached
  /\ IF Attached \cap isPaused = {} THEN Hears(c) ELSE Broadcast
  /\ UNCHANGED <<onrequest, uploaded, serverRunVars, abortedBy, abortLoop>>

(* The loop goes over the processors that are attached now.  The name of a
   message that aborted nothing may stand for a later one. *)
AbortArrives(m, c) ==
  /\ abortLoop[m] = <<>>
  /\ \A r \in Request : abortedBy[r] # m
  /\ Hears(c)
  /\ abortLoop' = [abortLoop EXCEPT ![m] = attachedProcessors]
  /\ UNCHANGED <<onrequest, uploaded, serverRunVars, isPaused, abortedBy>>

(* abort() of a processor: it returns at once when there is nothing to
   abort, and otherwise when the processor's queue is idle. *)
AbortCalled(m) ==
  LET p == Head(abortLoop[m]) IN
    /\ abortLoop[m] # <<>>
    /\ run[p] # "over"
    /\ abortedBy[p] = None
    /\ abortedBy' = [abortedBy EXCEPT ![p] = m]
    /\ Broadcast
    /\ UNCHANGED <<onrequest, uploaded, serverRunVars, isPaused, abortLoop>>

AbortReturned(m) ==
  LET p == Head(abortLoop[m]) IN
    /\ abortLoop[m] # <<>>
    /\ \/ run[p] \in {"drained", "over"} /\ (run[p] = "over" \/ abortedBy[p] = m)
       \/ abortedBy[p] \notin {None, m}

AbortNext_LiveList(m) ==   \* mutant: the loop runs over the list itself, not a copy
  /\ AbortReturned(m)
  /\ abortLoop' = [abortLoop EXCEPT ![m] = IF attachedProcessors = <<>> THEN <<>>
                                           ELSE Tail(attachedProcessors)]
  /\ UNCHANGED <<socketVars, onrequest, uploaded, serverRunVars, isPaused, abortedBy>>

AbortNext(m) ==
  /\ AbortReturned(m)
  /\ abortLoop' = [abortLoop EXCEPT ![m] = Tail(@)]
  /\ UNCHANGED <<socketVars, onrequest, uploaded, serverRunVars, isPaused, abortedBy>>

-----------------------------------------------------------------------------
RunStep(r) ==
  \/ Assembled(r)
  \/ DatasetAnswered(r)
  \/ Drains(r)
  \/ RunEnds(r)

ServerNext ==
  \/ \E c \in Client :
       \/ Connect(c) \/ Disconnect(c) \/ PeerVanishes(c)
       \/ Flushed(c) \/ SendPing(c) \/ Pong(c) \/ TimerFires(c)
       \/ Upload(c) \/ Pause(c) \/ Resume(c)
       \/ \E r \in Request : RunRequested(c, r)
       \/ \E m \in AbortMessage : AbortArrives(m, c)
  \/ \E r \in Request : RunStep(r) \/ Progress(r) \/ AsksForDataset(r)
  \/ \E m \in AbortMessage : AbortCalled(m) \/ AbortNext(m)

(* Timers fire, plugins load, handlers go on, editors that hear a dataset
   request answer it, and a run that nobody holds back runs dry. *)
Fairness ==
  /\ \A c \in Client : /\ WF_serverVars(Flushed(c)) /\ WF_serverVars(SendPing(c))
                        /\ WF_serverVars(TimerFires(c))
  /\ \A r \in Request : WF_serverVars(RunStep(r))
  /\ \A m \in AbortMessage : WF_serverVars(AbortCalled(m) \/ AbortNext(m))

ServerSpec == ServerInit /\ [][ServerNext]_serverVars /\ Fairness

-----------------------------------------------------------------------------
(* A run that waits for a dataset from an editor that no longer hears. *)
Hung(r) == run[r] = "waiting" /\ asked[r] \notin Open \cap reachable

(* Every request is answered under its own id: with done or error, also when
   no project was uploaded or the processor could not be made.  Only a run that
   hangs, is left paused, or whose client went away is not. *)
RequestsAreAnswered ==
  \A r \in Request :
    <>[](r \notin isPaused) =>
      (client[r] # None ~> \/ r \in answered
                           \/ client[r] \notin Open \cap reachable
                           \/ Hung(r))

(* An abort reaches every run that was attached when it came, one after the
   other, although they detach themselves meanwhile.  Only a run that hangs
   keeps it from those behind. *)
AbortsReachAll ==
  \A m \in AbortMessage, r \in Request :
    r \in ToSet(abortLoop[m]) ~>
      \/ abortedBy[r] # None
      \/ run[r] = "over"
      \/ abortLoop[m] # <<>> /\ Hung(Head(abortLoop[m]))

(* A socket has a timer while a pong is awaited, of the ping that awaits it. *)
TimerIsOfTheLastPing(c) == timeouts[c] = IF c \in awaitingPong THEN {"last"} ELSE {}

Traffic == \/ \E r \in Request : Progress(r)
           \/ \E c \in Client : Pause(c) \/ Resume(c)

(* The heartbeat drops a peer that is gone, unless traffic to its socket goes
   on for ever, and no timer outlives the wait for the ping it was set for, so
   that none ends a socket for an older silence. *)
HeartbeatIsFair ==
  /\ [](\A c \in Client : TimerIsOfTheLastPing(c))
  /\ \A c \in Client :
       (c \in Open \ reachable ~> socket[c] = "closed") \/ []<><<Traffic>>_serverVars
=============================================================================
