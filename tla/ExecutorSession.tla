---------------------------- MODULE ExecutorSession ----------------------------
(***************************************************************************)
(* The app's session with an executor: one web socket to the internal Node *)
(* executor or to an external debugger, its replacement, loss and timed    *)
(* reconnection, and the runs that are sent over it and wait for a result. *)
(* The coordinator that restores the internal session, the upload cache of *)
(* useRemoteExecutor and the pending promises act in the same steps as the *)
(* session, as they do in the app: its callbacks are synchronous.          *)
(*                                                                         *)
(* Sockets and servers are external.  The generation of a socket changes   *)
(* with session.current and only there, so the two guards of its handlers  *)
(* are one here.                                                           *)
(***************************************************************************)
EXTENDS Naturals, Sequences, FiniteSets

CONSTANTS
  Targets,      \* what a session may be with (type and URL)
  Internal,     \* those that are internal executors
  Home,         \* the internal executor that Node mode connects to
  Unusable,     \* targets whose URL the WebSocket constructor refuses
  AllowUpload,  \* targets whose server allows uploads of the project
  Sockets,      \* BOUND: sockets that are not closed at a time
  EditorRuns,   \* runs of the graph in the editor
  TestRuns,     \* runs of tests, each with a pending promise
  MaxVersion,   \* BOUND: projects that edits and settings make
  None

Runs == EditorRuns \cup TestRuns

ASSUME ExecutorSessionAssumption ==
  /\ Internal \subseteq Targets /\ Unusable \subseteq Targets /\ AllowUpload \subseteq Targets
  /\ Home \in Internal \ Unusable
  /\ EditorRuns \cap TestRuns = {}
  /\ None \notin Targets \cup Sockets \cup Runs
  /\ MaxVersion \in Nat \ {0}

VARIABLES
  socket,   \* each socket and what its server has been sent in this connection
  session,  \* the closure variables of createExecutorSessionRuntime
  home,     \* Home in Node mode, None in browser mode
  run,      \* each run: its phase, the target it was planned for or sent to, its project, its result
  active,   \* activeGraphRequestIdRef
  cache,    \* uploadCacheRef
  project   \* the project as the editor shows it

vars == <<socket, session, home, run, active, cache, project>>

Closed == [state |-> "closed", target |-> None, inbox |-> <<>>, asked |-> {}, has |-> 0]
Idle == [current |-> None, status |-> "idle", target |-> None, upload |-> FALSE, timer |-> None]
NoUpload == [target |-> None, project |-> 0]

Init ==
  /\ socket = [i \in Sockets |-> Closed]
  /\ session = Idle
  /\ home = None
  /\ run = [r \in Runs |-> [phase |-> "new", target |-> None, project |-> 0, result |-> None]]
  /\ active = None
  /\ cache = NoUpload
  /\ project = 1

-----------------------------------------------------------------------------

Live(i) == socket[i].state \in {"connecting", "open"}

CanSend == session.current # None /\ socket[session.current].state = "open"

CanSendRun == session.status = "ready" /\ CanSend

Dropped_LeftOpen == socket   \* mutant: the old socket is not closed

(* The sockets once the session has let go of its own: what its server was asked *)
(* or has does not matter any more, what it sent before may still arrive.        *)
Dropped ==
  IF session.current = None THEN socket
  ELSE [socket EXCEPT ![session.current] =
          [@ EXCEPT !.state = "closing", !.asked = {}, !.has = 0]]

(* connectToTarget from the point where nothing is left to reuse. *)
OpenSocket(t, sockets) ==
  \/ /\ t \in Unusable
     /\ session' = Idle
     /\ socket' = sockets
  \/ /\ t \notin Unusable
     /\ \E i \in Sockets : sockets[i].state = "closed"
     /\ LET i == CHOOSE i \in Sockets : sockets[i].state = "closed"
        IN  /\ session' = [Idle EXCEPT !.current = i, !.status = "connecting", !.target = t]
            /\ socket' = [sockets EXCEPT ![i] = [Closed EXCEPT !.state = "connecting", !.target = t]]

Failed == [phase |-> "failed", target |-> None, project |-> 0, result |-> None]

RejectAll ==
  run' = [r \in Runs |-> IF run[r].phase = "sent" THEN Failed ELSE run[r]]

(* What the subscribers of a disconnect do, but for the coordinator. *)
ForgetSession_KeepsUpload == active' = None /\ cache' = cache
ForgetSession == active' = None /\ cache' = NoUpload

MayReuse(t) == session.target = t /\ session.current # None /\ Live(session.current)

MustReplace(t) ==
  IF session.target = t THEN session.current # None ELSE session.status # "idle"

Connect(t) ==
  \/ /\ MayReuse(t)
     /\ session' = [session EXCEPT !.timer = None,
                      !.status = IF socket[session.current].state = "open" THEN "ready" ELSE "connecting"]
     /\ UNCHANGED <<socket, run, active, cache>>
  \/ /\ ~MayReuse(t) /\ MustReplace(t)
     /\ RejectAll /\ ForgetSession
     /\ OpenSocket(t, Dropped)
  \/ /\ ~MayReuse(t) /\ ~MustReplace(t)
     /\ OpenSocket(t, socket)
     /\ UNCHANGED <<run, active, cache>>

(* The end of a session, restored by the coordinator when it was with a debugger. *)
EndSession(sockets, next) ==
  /\ RejectAll /\ ForgetSession
  /\ IF next = None THEN session' = Idle /\ socket' = sockets
                    ELSE OpenSocket(next, sockets)

UserConnects(t) ==
  /\ t \notin Internal
  /\ Connect(t)
  /\ UNCHANGED <<home, project>>

UserDisconnects ==
  /\ session.target # None /\ session.target \notin Internal
  /\ EndSession(Dropped, home)
  /\ UNCHANGED <<home, project>>

SelectExecutor ==
  /\ home' = IF home = None THEN Home ELSE None
  /\ EndSession(Dropped, home')
  /\ UNCHANGED project

TimerFires ==
  /\ session.timer # None
  /\ Connect(session.timer)
  /\ UNCHANGED <<home, project>>

-----------------------------------------------------------------------------
(* Events of a socket. *)

IsStale_Never(i) == FALSE
IsStale(i) == session.current # i

Opens(i) ==
  /\ socket[i].state = "connecting"
  /\ socket' = [socket EXCEPT ![i].state = "open",
                  ![i].inbox = IF socket[i].target \in AllowUpload
                               THEN <<[kind |-> "upload-allowed", run |-> None]>> ELSE <<>>]
  /\ \/ IsStale(i) /\ UNCHANGED <<session, cache>>
     \/ /\ ~IsStale(i)
        /\ session' = [session EXCEPT !.status = "ready"]
        /\ cache' = NoUpload
  /\ UNCHANGED <<home, run, active, project>>

(* The server or the network begins to close it: nobody hears of it yet. *)
BeginsToClose(i) ==
  /\ Live(i)
  /\ socket' = [socket EXCEPT ![i].state = "closing"]
  /\ UNCHANGED <<session, home, run, active, cache, project>>

Reconnecting_NoTimer(t) == [Idle EXCEPT !.status = "reconnecting", !.target = t]
Reconnecting(t) == [Idle EXCEPT !.status = "reconnecting", !.target = t, !.timer = t]

Closes(i) ==
  /\ socket[i].state # "closed"
  /\ LET after == [socket EXCEPT ![i] = Closed]
         t == socket[i].target
     IN \/ /\ IsStale(i)
           /\ socket' = after
           /\ UNCHANGED <<session, run, active, cache>>
        \/ /\ ~IsStale(i) /\ t \notin Internal
           /\ EndSession(after, home)
        \/ /\ ~IsStale(i) /\ t \in Internal
           /\ RejectAll /\ ForgetSession
           /\ socket' = after
           /\ session' = Reconnecting(t)
  /\ UNCHANGED <<home, project>>

Pending == {r \in TestRuns : run[r].phase = "sent"}

(* The pending request a terminal event is for; an event may come without an id. *)
RequestOf(m) ==
  IF m.run # None \/ Cardinality(Pending) # 1 THEN m.run ELSE CHOOSE r \in Pending : TRUE

Settle_IgnoresErrors(m) ==
  LET r == RequestOf(m)
  IN  /\ run' = IF m.kind = "done" /\ r \in Runs THEN [run EXCEPT ![r].phase = m.kind, ![r].result = m.run]
                ELSE run
      /\ active' = IF m.run = active THEN None ELSE active

Settle(m) ==
  LET r == RequestOf(m)
  IN  /\ run' = IF r \in Pending \/ (r # None /\ r = active)
                THEN [run EXCEPT ![r].phase = m.kind, ![r].result = m.run] ELSE run
      /\ active' = IF m.run = active THEN None ELSE active

Receives(i) ==
  /\ socket[i].state # "closed" /\ socket[i].inbox # <<>>
  /\ socket' = [socket EXCEPT ![i].inbox = Tail(@)]
  /\ LET m == Head(socket[i].inbox)
     IN \/ IsStale(i) /\ UNCHANGED <<session, run, active>>
        \/ /\ ~IsStale(i) /\ m.kind = "upload-allowed"
           /\ session' = [session EXCEPT !.upload = TRUE]
           /\ UNCHANGED <<run, active>>
        \/ ~IsStale(i) /\ m.kind # "upload-allowed" /\ Settle(m) /\ UNCHANGED session
  /\ UNCHANGED <<home, cache, project>>

(* The server ends a run it was asked for. *)
Answers(i, r) ==
  /\ socket[i].state = "open" /\ r \in socket[i].asked
  /\ \E kind \in {"done", "error"} :
       socket' = [socket EXCEPT ![i].asked = @ \ {r},
                    ![i].inbox = Append(@, [kind |-> kind, run |-> r])]
  /\ UNCHANGED <<session, home, run, active, cache, project>>

(* A program under the external debugger ends a run of its own, which has no request id. *)
HostRunEnds(i) ==
  /\ socket[i].state = "open" /\ socket[i].target \notin Internal /\ socket[i].inbox = <<>>
  /\ socket' = [socket EXCEPT ![i].inbox = <<[kind |-> "done", run |-> None]>>]
  /\ UNCHANGED <<session, home, run, active, cache, project>>

-----------------------------------------------------------------------------
(* Runs: tryRunGraph of the editor, runGraph of the tests. *)

Send(r, has) ==
  /\ socket' = [socket EXCEPT ![session.current].asked = @ \cup {r}, ![session.current].has = has]
  /\ run' = [run EXCEPT ![r] = [@ EXCEPT !.phase = "sent", !.target = session.target, !.project = 0]]
  /\ active' = IF r \in EditorRuns THEN r ELSE active

(* A run without an upload is sent at once; one with an upload awaits the settings first. *)
StartRun(r) ==
  /\ run[r].phase = "new" /\ CanSendRun
  /\ r \in EditorRuns => session.target \in Internal
  /\ \/ /\ session.upload
        /\ run' = [run EXCEPT ![r] = [@ EXCEPT !.phase = "settings", !.target = session.target,
                                                 !.project = project]]
        /\ UNCHANGED <<socket, active>>
     \/ /\ ~session.upload
        /\ Send(r, socket[session.current].has)
  /\ UNCHANGED <<session, home, cache, project>>

(* The session the upload is booked to: a test books it to the one before the await. *)
SessionKey(r) == IF r \in EditorRuns THEN session.target ELSE run[r].target

SettingsArrive(r) ==
  /\ run[r].phase = "settings"
  /\ LET upload == [target |-> SessionKey(r), project |-> run[r].project]
     IN \/ /\ CanSend
           /\ Send(r, IF cache = upload THEN socket[session.current].has ELSE run[r].project)
           /\ cache' = upload
        \/ /\ ~CanSend
           /\ run' = [run EXCEPT ![r] = Failed]
           /\ active' = IF cache = upload /\ r \in EditorRuns THEN None ELSE active
           /\ UNCHANGED <<socket, cache>>
  /\ UNCHANGED <<session, home, project>>

Edit ==
  /\ project < MaxVersion /\ project' = project + 1
  /\ UNCHANGED <<socket, session, home, run, active, cache>>

-----------------------------------------------------------------------------

Next ==
  \/ \E t \in Targets : UserConnects(t)
  \/ UserDisconnects \/ SelectExecutor \/ TimerFires \/ Edit
  \/ \E i \in Sockets : Opens(i) \/ BeginsToClose(i) \/ Closes(i) \/ Receives(i) \/ HostRunEnds(i)
  \/ \E i \in Sockets, r \in Runs : Answers(i, r)
  \/ \E r \in Runs : StartRun(r) \/ SettingsArrive(r)

(* A socket that closes is closed in the end, timers fire, messages arrive, the   *)
(* settings are read, and a server answers what it was asked on an open socket.   *)
(* Nothing makes a user act or a connection succeed.                              *)
Fairness ==
  /\ WF_vars(TimerFires)
  /\ \A i \in Sockets :
       /\ WF_vars(socket[i].state = "closing" /\ Closes(i))
       /\ WF_vars(Receives(i))
       /\ \A r \in Runs : WF_vars(Answers(i, r))
  /\ \A r \in Runs : WF_vars(SettingsArrive(r))

Spec == Init /\ [][Next]_vars /\ Fairness

-----------------------------------------------------------------------------

TypeOK ==
  /\ socket \in [Sockets -> [state : {"closed", "connecting", "open", "closing"},
                              target : Targets \cup {None}, asked : SUBSET Runs,
                              has : 0..MaxVersion,
                              inbox : Seq([kind : {"upload-allowed", "done", "error"},
                                           run : Runs \cup {None}])]]
  /\ session \in [current : Sockets \cup {None}, upload : BOOLEAN,
                   status : {"idle", "connecting", "ready", "reconnecting"},
                   target : Targets \cup {None}, timer : Targets \cup {None}]
  /\ home \in {None, Home} /\ active \in EditorRuns \cup {None} /\ project \in 1..MaxVersion
  /\ run \in [Runs -> [phase : {"new", "settings", "sent", "done", "error", "failed"},
                        target : Targets \cup {None}, project : 0..MaxVersion,
                        result : Runs \cup {None}]]
  /\ cache \in [target : Targets \cup {None}, project : 0..MaxVersion]

(* No socket but the session's own is opening or open, the status tells     *)
(* whether there is one, and a timer waits only for an internal executor     *)
(* that was lost: no replaced, closed or late socket leaves a second         *)
(* connection or a reconnection behind.                                      *)
SessionOwnsItsSocket ==
  /\ \A i \in Sockets : Live(i) => session.current = i
  /\ session.current # None <=> session.status \in {"connecting", "ready"}
  /\ session.current # None => socket[session.current].target = session.target
  /\ session.timer # None => /\ session.status = "reconnecting"
                             /\ session.timer = session.target /\ session.timer \in Internal

(* What the upload cache takes for uploaded is on the server of this very    *)
(* connection, and the permission to upload came from it: a run is never     *)
(* sent without its project because an earlier connection had it.            *)
UploadsAreOfThisSession ==
  /\ cache # NoUpload => session.current # None
  /\ cache # NoUpload /\ cache.target = session.target => socket[session.current].has = cache.project
  /\ session.upload => session.target \in AllowUpload

(* Whoever waits for the result of a run waits on the session it was sent    *)
(* over: with the session gone or replaced, nobody is left waiting.          *)
WaitersHaveTheirSession ==
  \A r \in Pending \cup ({active} \ {None}) :
    session.current # None /\ run[r].target = session.target

(* One session, one socket, and everybody who waits waits for that one. *)
SessionIsWhole == TypeOK /\ SessionOwnsItsSocket /\ WaitersHaveTheirSession

(* A test gets the result of its own run.  Only a debugger, whose host's     *)
(* runs have no request id, can give it another.                             *)
ResultsAreOwn ==
  \A r \in Runs : run[r].phase \in {"done", "error"} =>
    run[r].result = r \/ run[r].target \notin Internal

(* A run that was begun comes to an end for who began it, whatever becomes   *)
(* of the connection.                                                        *)
RunsSettle ==
  \A r \in Runs :
    run[r].phase \in {"settings", "sent"} ~> run[r].phase \in {"done", "error", "failed"}

(* A lost internal executor is tried again, or the user went on without it.  *)
ReconnectEnds == session.status = "reconnecting" ~> session.status # "reconnecting"

(* In Node mode there is always a session, with the internal executor or     *)
(* with a debugger that replaces it for a while.                             *)
NodeModeKeepsSession == home # None => session.status # "idle"

=============================================================================
