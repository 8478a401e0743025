--------------------------------- MODULE Daemon ---------------------------------
(*****************************************************************************)
(* The daemon around the engine: binding the API endpoint and starting, the  *)
(* HTTP connections and WebSockets it serves, and the staged stop.           *)
(*                                                                           *)
(* Sources: rsbtd/src/lib.rs, rsbtd/src/main.rs, rsbtd/src/api/mod.rs,       *)
(* rsbtd/src/api/listener.rs, rsbtd/src/api/auth.rs.                         *)
(*                                                                           *)
(* A client slot c moves through                                             *)
(*   none     no connection                                                  *)
(*   open     accepted, no request in flight                                 *)
(*   handling a /graphql handler runs                                        *)
(*   upgrade  101 answered, the on_upgrade callback has not run yet          *)
(*   pending  upgraded, connection_init not received; holds a permit         *)
(*   serving  connection_init accepted, subscriptions run                    *)
(*   stalled  serving, blocked sending to a peer that does not read          *)
(*   refused  connection_init rejected, the error is being sent              *)
(*   sending  serve() is over, the close frame is being sent                 *)
(*   closing  close frame sent, waiting for the client's reply               *)
(*                                                                           *)
(* Deadlines fire at any moment: the model has no clock, so it also covers   *)
(* both stop profiles (normal and fast differ in their durations only).      *)
(* The engine's own start and shutdown are one step each here; modules       *)
(* Restore and Engine have their detail.                                     *)
(*****************************************************************************)
EXTENDS Naturals, FiniteSets

CONSTANTS
    Conns,      \* client slots
    MaxPending, \* MAX_PENDING_WS
    MaxRuns,    \* bound on the number of processes started one after another
    Env         \* what may go wrong: "crash", "engineFails", "bindFails",
                \* "badConfig"

ASSUME DaemonAssumption == MaxPending \in Nat \ {0} /\ MaxRuns \in Nat
ASSUME ConnsAssumption == IsFiniteSet(Conns)

VARIABLES
    phase,      \* where run() is
    signal,     \* SIGINT or SIGTERM was received
    stop,       \* the watch channel every socket and the server observe
    reqKill,    \* Daemon::req_kill
    wsKill,     \* Daemon::ws_kill
    server,     \* the spawned serve() task
    closed,     \* ws_tasks.close() was called
    conn,       \* client slot -> its state
    permits,    \* free permits of WsState::pending
    file,       \* at the unix socket's path: "none", "live" (this daemon's),
                \* "stale", or "foreign": another process's, no socket,
                \* or one whose owner cannot be told
    refusedBy,  \* what made the last start fail
    runs        \* processes started so far

vars == <<phase, signal, stop, reqKill, wsKill, server, closed, conn, permits,
          file, refusedBy, runs>>

tokens == <<stop, reqKill, wsKill, closed>>
process == <<phase, signal, tokens, server, file, refusedBy, runs>>

Phases == {"starting", "bound", "serving", "http", "reqKill", "ws", "wsKill",
           "engine", "stopped", "failed"}
Ended == {"stopped", "failed"}

\* Sockets whose future ws_tasks tracks.
Tracked == {"pending", "serving", "stalled", "refused", "sending", "closing"}
\* States that hold a permit of the pending semaphore.
HoldsPermit == {"upgrade", "pending"}

TypeOK ==
    /\ phase \in Phases
    /\ signal \in BOOLEAN /\ stop \in BOOLEAN /\ reqKill \in BOOLEAN
    /\ wsKill \in BOOLEAN /\ closed \in BOOLEAN
    /\ server \in {"none", "running", "ended", "aborted"}
    /\ conn \in [Conns -> {"none", "open", "handling", "upgrade"} \cup Tracked]
    /\ permits \in 0..MaxPending
    /\ file \in {"none", "live", "stale", "foreign"}
    /\ refusedBy \in {"none", "config", "endpoint", "system", "engine"}
    /\ runs \in 0..MaxRuns

Init ==
    /\ phase = "starting" /\ signal = FALSE
    /\ stop = FALSE /\ reqKill = FALSE /\ wsKill = FALSE /\ closed = FALSE
    /\ server = "none"
    /\ conn = [c \in Conns |-> "none"] /\ permits = MaxPending
    /\ file \in {"none", "foreign"} /\ refusedBy = "none" /\ runs = 0

-------------------------------------------------------------------------------
(* Start. *)

\* The signal handlers are installed before startup, so a signal counts from
\* the first moment on.
Signal ==
    /\ ~signal /\ phase \notin Ended
    /\ signal' = TRUE
    /\ UNCHANGED <<phase, tokens, server, file, refusedBy, runs, conn, permits>>

Fail(why) ==
    /\ phase' = "failed" /\ refusedBy' = why
    /\ UNCHANGED <<signal, tokens, server, runs, conn, permits>>

\* A serve_root that is no directory, checked before anything is bound.
BadServeRoot ==
    /\ phase = "starting" /\ "badConfig" \in Env
    /\ Fail("config") /\ UNCHANGED file

\* What bind_unix makes of the file it finds: a socket that answers belongs to
\* another process, one that refuses is stale and is replaced; anything else
\* is left alone.
BindKeepsStale(f) == f = "none"
Bindable(f) == f \in {"none", "stale"}

Bind ==
    /\ phase = "starting" /\ Bindable(file)
    /\ file' = "live" /\ phase' = "bound"
    /\ UNCHANGED <<signal, tokens, server, refusedBy, runs, conn, permits>>

BindRefused ==
    /\ phase = "starting" /\ ~Bindable(file)
    /\ Fail("endpoint") /\ UNCHANGED file

\* The operating system refuses: the stale socket cannot be removed, or there
\* is none (any more) and bind() or set_permissions fails.  The listener is
\* dropped, the socket file it may have made stays.
BindFails ==
    /\ phase = "starting" /\ Bindable(file) /\ "bindFails" \in Env
    /\ Fail("system") /\ file' \in {"none", "stale"}

\* Engine::start succeeded: the router is built and the server task spawned.
EngineStarted ==
    /\ phase = "bound"
    /\ phase' = "serving" /\ server' = "running"
    /\ UNCHANGED <<signal, tokens, file, refusedBy, runs, conn, permits>>

\* Engine::start failed: bound.close() removes the socket file.
EngineRefused ==
    /\ phase = "bound" /\ "engineFails" \in Env
    /\ Fail("engine") /\ file' = "none"

-------------------------------------------------------------------------------
(* HTTP connections. *)

Become(c, s) == conn' = [conn EXCEPT ![c] = s]

\* The permit goes with the state that holds it.
BecomeFreeing(c, s) ==
    /\ Become(c, s)
    /\ permits' = IF conn[c] \in HoldsPermit THEN permits + 1 ELSE permits

\* The server accepts until the graceful shutdown begins.
Accept(c) ==
    /\ server = "running" /\ ~stop /\ conn[c] = "none"
    /\ Become(c, "open")
    /\ UNCHANGED <<process, permits>>

\* After a response the connection waits for the next request, or closes when
\* the server is shutting down.
AfterResponse == IF stop THEN "none" ELSE "open"

\* The outermost layer of /graphql: with req_kill cancelled the answer is 503
\* and the inner service is never polled (biased).
Admits == ~reqKill

\* A request reaches an open connection, also one that graceful shutdown or an
\* abort of the serve() task left behind. Unauthorized and malformed requests
\* are answered without any effect (require_bearer, 401; 400).
Request(c) ==
    /\ conn[c] = "open"
    /\ \/ Admits /\ Become(c, "handling")
       \/ Become(c, AfterResponse)
    /\ UNCHANGED <<process, permits>>

\* The handler finishes.
Respond(c) ==
    /\ conn[c] = "handling"
    /\ Become(c, AfterResponse)
    /\ UNCHANGED <<process, permits>>

\* req_kill drops the handler's future at its next poll.
Cancelled(c) ==
    /\ conn[c] = "handling" /\ reqKill
    /\ Become(c, "none")
    /\ UNCHANGED <<process, permits>>

\* Hyper closes an accepted connection that has no request when the graceful
\* shutdown begins, unless part of one was read.
CloseUnused(c) ==
    /\ conn[c] = "open" /\ stop
    /\ Become(c, "none")
    /\ UNCHANGED <<process, permits>>

\* The peer goes away: a dropped request future, a failed upgrade, a failed
\* read or send.
Disconnect(c) ==
    /\ conn[c] # "none"
    /\ BecomeFreeing(c, "none")
    /\ UNCHANGED process

-------------------------------------------------------------------------------
(* WebSockets: graphql_ws. *)

\* A GET upgrade, passed by require_bearer: takes a permit or is answered 503.
Upgrade(c) ==
    /\ conn[c] = "open" /\ Admits
    /\ \/ permits > 0 /\ Become(c, "upgrade") /\ permits' = permits - 1
       \/ permits = 0 /\ Become(c, AfterResponse) /\ UNCHANGED permits
    /\ UNCHANGED process

\* The on_upgrade callback: only now is the future tracked by ws_tasks.
OnUpgrade(c) ==
    /\ conn[c] = "upgrade"
    /\ Become(c, "pending")
    /\ UNCHANGED <<process, permits>>

\* take_until(stop): once the daemon stops no message is read any more.
ReadsAlways == TRUE
Reads == ~stop

\* connection_init: the permit is dropped first, then the token is checked.
ConnectionInit(c) ==
    /\ conn[c] = "pending" /\ Reads
    /\ \E s \in {"serving", "refused"} : BecomeFreeing(c, s)
    /\ UNCHANGED process

\* The block that scopes serve() ends at the deadline, dropping the closure
\* that owns the permit before the close frame is sent.
DeadlineHolds(c) == Become(c, "sending") /\ UNCHANGED permits
Deadline(c) == BecomeFreeing(c, "sending")

\* CONNECTION_INIT_DEADLINE passed.
InitTimedOut(c) ==
    /\ conn[c] = "pending"
    /\ Deadline(c)
    /\ UNCHANGED process

\* The inbound stream ends at stop, serve() winds down and AWAY is sent.
ServeEnds(c) ==
    /\ conn[c] \in {"pending", "serving"} /\ stop
    /\ BecomeFreeing(c, "sending")
    /\ UNCHANGED process

\* The peer stops reading while serve() has something to send, or reads again.
Stall(c) ==
    /\ \/ conn[c] = "serving" /\ Become(c, "stalled")
       \/ conn[c] = "stalled" /\ Become(c, "serving")
    /\ UNCHANGED <<process, permits>>

\* The rejection reached the peer: serve() ends; a close frame of the daemon's
\* own follows only when it is stopping.
RefusalSent(c) ==
    /\ conn[c] = "refused"
    /\ Become(c, IF stop THEN "sending" ELSE "none")
    /\ UNCHANGED <<process, permits>>

\* sink.send of the close frame returned: needs a peer that reads.
CloseSent(c) ==
    /\ conn[c] = "sending"
    /\ Become(c, "closing")
    /\ UNCHANGED <<process, permits>>

\* The client's close reply, or WS_CLOSE_GRACE.
CloseDone(c) ==
    /\ conn[c] = "closing"
    /\ Become(c, "none")
    /\ UNCHANGED <<process, permits>>

\* The kill token ends a tracked future wherever it is blocked.
Killed(c) ==
    /\ conn[c] \in Tracked /\ wsKill
    /\ BecomeFreeing(c, "none")
    /\ UNCHANGED process

-------------------------------------------------------------------------------
(* Stop: stop_with. *)

StopBegins ==
    /\ phase = "serving" /\ signal
    /\ stop' = TRUE /\ phase' = "http"
    /\ UNCHANGED <<signal, reqKill, wsKill, closed, server, file, refusedBy,
                   runs, conn, permits>>

\* Graceful shutdown: serve() ends when no HTTP connection is left and removes
\* the socket file.
ServerEnds ==
    /\ server = "running" /\ stop
    /\ \A c \in Conns : conn[c] \notin {"open", "handling"}
    /\ server' = "ended" /\ file' = "none"
    /\ UNCHANGED <<phase, signal, tokens, refusedBy, runs, conn, permits>>

\* Entering the WebSocket stage closes the tracker.
NotClosed == UNCHANGED closed
CloseTracker == closed' = TRUE

ServerJoined ==
    /\ phase \in {"http", "reqKill"} /\ server = "ended"
    /\ phase' = "ws" /\ CloseTracker
    /\ UNCHANGED <<signal, stop, reqKill, wsKill, server, file, refusedBy,
                   runs, conn, permits>>

\* http_grace is over: cancel the requests.
HttpGraceOver ==
    /\ phase = "http" /\ server = "running"
    /\ reqKill' = TRUE /\ phase' = "reqKill"
    /\ UNCHANGED <<signal, stop, wsKill, closed, server, file, refusedBy,
                   runs, conn, permits>>

\* req_kill_grace is over: abort serve(). Its connections are detached and
\* stay, and so does the socket file, which nobody accepts on.
ReqKillGraceOver ==
    /\ phase = "reqKill" /\ server = "running"
    /\ server' = "aborted" /\ file' = "stale"
    /\ phase' = "ws" /\ CloseTracker
    /\ UNCHANGED <<signal, stop, reqKill, wsKill, refusedBy, runs, conn,
                   permits>>

\* TaskTracker::wait: closed and empty.
Waited == closed /\ \A c \in Conns : conn[c] \notin Tracked

WsGone ==
    /\ phase \in {"ws", "wsKill"} /\ Waited
    /\ phase' = "engine"
    /\ UNCHANGED <<signal, tokens, server, file, refusedBy, runs, conn,
                   permits>>

\* ws_grace is over: cancel the sockets and wait on.
WsGraceOver ==
    /\ phase = "ws" /\ ~Waited
    /\ wsKill' = TRUE /\ phase' = "wsKill"
    /\ UNCHANGED <<signal, stop, reqKill, closed, server, file, refusedBy,
                   runs, conn, permits>>

\* engine.shutdown() returned; main returns.
EngineStopped ==
    /\ phase = "engine"
    /\ phase' = "stopped"
    /\ UNCHANGED <<signal, tokens, server, file, refusedBy, runs, conn,
                   permits>>

-------------------------------------------------------------------------------
(* Processes. *)

NewProcess ==
    /\ phase' = "starting" /\ signal' = FALSE
    /\ stop' = FALSE /\ reqKill' = FALSE /\ wsKill' = FALSE /\ closed' = FALSE
    /\ server' = "none" /\ refusedBy' = "none"
    /\ conn' = [c \in Conns |-> "none"] /\ permits' = MaxPending
    /\ runs' = runs + 1

Restart ==
    /\ phase \in Ended /\ runs < MaxRuns
    /\ NewProcess /\ UNCHANGED file

\* The process dies and is started again: its socket file stays behind.
Crash ==
    /\ "crash" \in Env /\ phase \notin Ended /\ runs < MaxRuns
    /\ NewProcess
    /\ file' = IF file = "live" THEN "stale" ELSE file

Client(c) ==
    Accept(c) \/ Request(c) \/ Respond(c) \/ Disconnect(c) \/ Upgrade(c)
      \/ ConnectionInit(c) \/ Stall(c) \/ RefusalSent(c) \/ CloseSent(c)
      \/ CloseUnused(c)

\* Steps of the runtime's tasks and timers on a connection.
Task(c) ==
    Cancelled(c) \/ OnUpgrade(c) \/ InitTimedOut(c) \/ ServeEnds(c)
      \/ CloseDone(c) \/ Killed(c)

Main ==
    \/ BadServeRoot \/ Bind \/ BindRefused \/ BindFails \/ EngineStarted \/ EngineRefused
    \/ StopBegins \/ ServerEnds \/ ServerJoined \/ HttpGraceOver
    \/ ReqKillGraceOver \/ WsGone \/ WsGraceOver \/ EngineStopped

Next == Main \/ Signal \/ Restart \/ Crash \/ \E c \in Conns : Client(c) \/ Task(c)

Spec == Init /\ [][Next]_vars

\* run() and the tasks of the runtime take their steps and deadlines pass;
\* nothing is assumed of the clients.
FairSpec ==
    /\ Spec /\ WF_vars(Main)
    /\ \A c \in Conns : WF_vars(Task(c))

-------------------------------------------------------------------------------
(* Properties. *)

\* When the engine shuts down nobody works on it: every socket that ran
\* subscriptions is gone, also behind a peer that stopped reading, and a
\* request handler that is still there has been cancelled. Connections that an
\* aborted serve() left behind, and sockets upgraded too late to be tracked,
\* never get that far (lib.rs, "Await them so nothing retains the engine").
EngineLeftAlone ==
    phase \in {"engine", "stopped"} =>
        \A c \in Conns :
            /\ conn[c] \notin {"serving", "stalled", "refused"}
            /\ conn[c] = "handling" => reqKill

\* A process never refuses to start because of the socket file an earlier one
\* left behind: a crash or an aborted serve() leaves it stale, and bind_unix
\* replaces it.
LeftoversNeverBlock == refusedBy = "endpoint" => file = "foreign"

\* Whatever the clients do - never finish a request, never send
\* connection_init, never read - a daemon told to stop stops, also when the
\* signal came during startup.
StopEnds == signal ~> phase \in Ended \/ ~signal

\* No client keeps one of the MAX_PENDING_WS permits for ever: a socket that
\* never sends connection_init gives it back at the deadline, even when the
\* close frame cannot be sent.
PermitReturned ==
    (phase = "serving" /\ permits = 0)
        ~> (permits > 0 \/ phase # "serving")

===============================================================================
