------------------------------ MODULE DaemonProofs ------------------------------
(*****************************************************************************)
(* The stop of the daemon, for any number of clients and permits: the engine *)
(* is left alone when it shuts down, a socket file never keeps a process     *)
(* from starting, and the permits of pending sockets are all accounted for.  *)
(*****************************************************************************)
EXTENDS Daemon, FiniteSetTheorems, TLAPS

(*****************************************************************************)
(* The inductive invariant.                                                  *)
(*****************************************************************************)
\* The order of the stages: what has happened by the time run() is in each.
StageInv ==
    /\ phase \in {"starting", "bound", "failed"} => ~stop /\ server = "none"
    /\ phase = "serving" => ~stop /\ server = "running"
    /\ phase \in {"http", "reqKill"} => stop /\ server \in {"running", "ended"}
    /\ phase \in {"ws", "wsKill", "engine", "stopped"} =>
         stop /\ closed /\ server \in {"ended", "aborted"}
    /\ phase = "reqKill" => reqKill

\* A server that ended left no connection behind, an aborted one has had its
\* requests cancelled.
ServerInv ==
    /\ server = "ended" =>
         stop /\ \A c \in Conns : conn[c] \notin {"open", "handling"}
    /\ server = "aborted" => reqKill

\* Once the tracker was found empty nothing runs subscriptions again.
QuietInv ==
    phase \in {"engine", "stopped"} =>
        \A c \in Conns : conn[c] \notin {"serving", "stalled", "refused"}

\* The socket file is live exactly while this process accepts on it.
FileInv ==
    /\ file = "live" <=> phase = "bound" \/ server = "running"
    /\ refusedBy = "endpoint" => phase = "failed" /\ file = "foreign"

\* Every permit is free or belongs to a socket that has not initialised yet.
Holders == {c \in Conns : conn[c] \in HoldsPermit}
PermitInv == permits + Cardinality(Holders) = MaxPending

StopInv == StageInv /\ ServerInv /\ QuietInv /\ FileInv
DaemonInv == TypeOK /\ PermitInv /\ StopInv

(*****************************************************************************)
(* Permits.                                                                  *)
(*****************************************************************************)
\* A connection changes its state; those that hold a permit are the others,
\* and this one if its new state does.
LEMMA HoldersAfter ==
    ASSUME TypeOK, NEW c \in Conns, NEW s, Become(c, s)
    PROVE  Holders' = IF s \in HoldsPermit THEN Holders \cup {c} ELSE Holders \ {c}
  BY DEF TypeOK, Become, Holders

LEMMA HoldersFinite == IsFiniteSet(Holders) /\ Cardinality(Holders) \in Nat
<1>1. IsFiniteSet(Holders)
  BY ConnsAssumption, FS_Subset DEF Holders
<1> QED
  BY <1>1, FS_CardinalityType

\* A connection that neither had a permit nor gets one, or that keeps it.
LEMMA PermitKept ==
    ASSUME TypeOK, PermitInv, NEW c \in Conns, NEW s, Become(c, s),
           conn[c] \in HoldsPermit <=> s \in HoldsPermit, UNCHANGED permits
    PROVE  permits' \in 0..MaxPending /\ PermitInv'
<1>1. Holders' = Holders
  BY HoldersAfter DEF Holders
<1> QED
  BY <1>1 DEF PermitInv, TypeOK

\* BecomeFreeing: the permit goes with the state that held it.
LEMMA PermitFreed ==
    ASSUME TypeOK, PermitInv, NEW c \in Conns, NEW s, s \notin HoldsPermit,
           BecomeFreeing(c, s)
    PROVE  permits' \in 0..MaxPending /\ PermitInv'
<1>1. CASE conn[c] \in HoldsPermit
  <2>1. c \in Holders /\ Holders' = Holders \ {c} /\ permits' = permits + 1
    BY <1>1, HoldersAfter DEF BecomeFreeing, Holders
  <2>2. Cardinality(Holders') = Cardinality(Holders) - 1
    BY <2>1, HoldersFinite, FS_RemoveElement
  <2>3. Cardinality(Holders) # 0
    BY <2>1, HoldersFinite, FS_EmptySet
  <2> QED
    BY <2>1, <2>2, <2>3, HoldersFinite, DaemonAssumption DEF PermitInv, TypeOK
<1>2. CASE conn[c] \notin HoldsPermit
  <2>1. Become(c, s) /\ UNCHANGED permits
    BY <1>2 DEF BecomeFreeing
  <2> QED
    BY <1>2, <2>1, PermitKept
<1> QED
  BY <1>1, <1>2

\* An upgrade takes a free permit.
LEMMA PermitTaken ==
    ASSUME TypeOK, PermitInv, NEW c \in Conns, conn[c] \notin HoldsPermit,
           Become(c, "upgrade"), permits > 0, permits' = permits - 1
    PROVE  permits' \in 0..MaxPending /\ PermitInv'
<1>1. Holders' = Holders \cup {c} /\ c \notin Holders
  BY HoldersAfter DEF Holders, HoldsPermit
<1>2. Cardinality(Holders') = Cardinality(Holders) + 1
  BY <1>1, HoldersFinite, FS_AddElement
<1> QED
  BY <1>1, <1>2, HoldersFinite, DaemonAssumption DEF PermitInv, TypeOK

(*****************************************************************************)
(* One step of a connection: the types, and which permits it moves.          *)
(*****************************************************************************)
LEMMA ConnectionTypes ==
    ASSUME TypeOK, PermitInv, NEW c \in Conns, Client(c) \/ Task(c)
    PROVE  TypeOK' /\ PermitInv'
<1> USE DEF HoldsPermit, Tracked
<1>0. UNCHANGED process
  BY DEF Client, Task, Accept, Request, Respond, Cancelled, CloseUnused,
         Disconnect, Upgrade, OnUpgrade, ConnectionInit, InitTimedOut,
         ServeEnds, Stall, RefusalSent, CloseSent, CloseDone, Killed
<1>1. CASE \/ Accept(c) \/ Request(c) \/ Respond(c) \/ Cancelled(c)
           \/ CloseUnused(c) \/ OnUpgrade(c) \/ Stall(c) \/ RefusalSent(c)
           \/ CloseSent(c) \/ CloseDone(c)
  <2>1. PICK s \in {"none", "open", "handling", "upgrade"} \cup Tracked :
           /\ Become(c, s) /\ UNCHANGED permits
           /\ conn[c] \in HoldsPermit <=> s \in HoldsPermit
    BY <1>1 DEF Accept, Request, Respond, Cancelled, CloseUnused, OnUpgrade,
                Stall, RefusalSent, CloseSent, CloseDone, AfterResponse
  <2>2. conn' \in [Conns -> {"none", "open", "handling", "upgrade"} \cup Tracked]
    BY <2>1 DEF Become, TypeOK
  <2>3. permits' \in 0..MaxPending /\ PermitInv'
    BY <2>1, PermitKept
  <2> QED
    BY <1>0, <2>2, <2>3 DEF TypeOK, process, tokens
<1>2. CASE \/ Disconnect(c) \/ ConnectionInit(c) \/ InitTimedOut(c)
           \/ ServeEnds(c) \/ Killed(c)
  <2>1. PICK s \in {"none", "serving", "refused", "sending"} : BecomeFreeing(c, s)
    BY <1>2 DEF Disconnect, ConnectionInit, InitTimedOut, Deadline, ServeEnds,
                Killed
  <2>2. conn' \in [Conns -> {"none", "open", "handling", "upgrade"} \cup Tracked]
    BY <2>1 DEF BecomeFreeing, Become, TypeOK
  <2>3. permits' \in 0..MaxPending /\ PermitInv'
    BY <2>1, PermitFreed
  <2> QED
    BY <1>0, <2>2, <2>3 DEF TypeOK, process, tokens
<1>3. CASE Upgrade(c)
  <2>1. CASE permits > 0 /\ Become(c, "upgrade") /\ permits' = permits - 1
    <3>1. conn' \in [Conns -> {"none", "open", "handling", "upgrade"} \cup Tracked]
      BY <2>1 DEF Become, TypeOK
    <3>2. permits' \in 0..MaxPending /\ PermitInv'
      BY <1>3, <2>1, PermitTaken DEF Upgrade
    <3> QED
      BY <1>0, <3>1, <3>2 DEF TypeOK, process, tokens
  <2>2. CASE permits = 0 /\ Become(c, AfterResponse) /\ UNCHANGED permits
    <3>1. conn' \in [Conns -> {"none", "open", "handling", "upgrade"} \cup Tracked]
      BY <2>2 DEF Become, TypeOK, AfterResponse
    <3>2. conn[c] \notin HoldsPermit /\ AfterResponse \notin HoldsPermit
      BY <1>3 DEF Upgrade, AfterResponse
    <3>3. permits' \in 0..MaxPending /\ PermitInv'
      BY <2>2, <3>2, PermitKept
    <3> QED
      BY <1>0, <3>1, <3>3 DEF TypeOK, process, tokens
  <2> QED
    BY <1>3, <2>1, <2>2 DEF Upgrade
<1> QED
  BY <1>1, <1>2, <1>3 DEF Client, Task

(*****************************************************************************)
(* One step of run(), a signal, or the next process: no connection changes,  *)
(* or all of them are gone.                                                  *)
(*****************************************************************************)
LEMMA MainTypes ==
    ASSUME TypeOK, PermitInv, Main \/ Signal
    PROVE  TypeOK' /\ PermitInv'
<1>1. UNCHANGED <<conn, permits, runs>>
  BY DEF Main, Signal, BadServeRoot, Bind, BindRefused, BindFails, EngineStarted,
         EngineRefused, Fail, StopBegins, ServerEnds, ServerJoined,
         HttpGraceOver, ReqKillGraceOver, WsGone, WsGraceOver, EngineStopped
<1>2. /\ phase' \in Phases
      /\ signal' \in BOOLEAN /\ stop' \in BOOLEAN /\ reqKill' \in BOOLEAN
      /\ wsKill' \in BOOLEAN /\ closed' \in BOOLEAN
      /\ server' \in {"none", "running", "ended", "aborted"}
      /\ file' \in {"none", "live", "stale", "foreign"}
      /\ refusedBy' \in {"none", "config", "endpoint", "system", "engine"}
  <2> USE DEF TypeOK, Phases, tokens
  <2>1. CASE Signal
    BY <2>1 DEF Signal
  <2>2. CASE BadServeRoot \/ Bind \/ BindRefused \/ BindFails \/ EngineStarted
             \/ EngineRefused
    BY <2>2 DEF BadServeRoot, Bind, BindRefused, BindFails, EngineStarted, EngineRefused,
                Fail
  <2>3. CASE StopBegins \/ ServerEnds \/ ServerJoined
    BY <2>3 DEF StopBegins, ServerEnds, ServerJoined, CloseTracker
  <2>4. CASE HttpGraceOver \/ ReqKillGraceOver
    BY <2>4 DEF HttpGraceOver, ReqKillGraceOver, CloseTracker
  <2>5. CASE WsGone
    BY <2>5 DEF WsGone
  <2>6. CASE WsGraceOver
    BY <2>6 DEF WsGraceOver
  <2>7. CASE EngineStopped
    BY <2>7 DEF EngineStopped
  <2> HIDE DEF TypeOK, Phases, tokens
  <2> QED
    BY <2>1, <2>2, <2>3, <2>4, <2>5, <2>6, <2>7 DEF Main
<1>3. Holders' = Holders
  BY <1>1 DEF Holders
<1> QED
  BY <1>1, <1>2, <1>3 DEF TypeOK, PermitInv

LEMMA ProcessTypes ==
    ASSUME TypeOK, PermitInv, Restart \/ Crash
    PROVE  TypeOK' /\ PermitInv'
<1>1. /\ NewProcess /\ runs < MaxRuns
      /\ file' \in {"none", "live", "stale", "foreign"}
  BY DEF Restart, Crash, TypeOK
<1>2. conn' = [c \in Conns |-> "none"] /\ permits' = MaxPending
  BY <1>1 DEF NewProcess
<1>3. Holders' = {}
  BY <1>2 DEF Holders, HoldsPermit
<1>4. Cardinality(Holders') = 0
  BY <1>3, FS_EmptySet
<1>5. permits' \in 0..MaxPending /\ PermitInv'
  BY <1>2, <1>4, DaemonAssumption DEF PermitInv
<1>6. runs' \in 0..MaxRuns
  BY <1>1, DaemonAssumption DEF NewProcess, TypeOK
<1> QED
  BY <1>1, <1>2, <1>5, <1>6 DEF NewProcess, TypeOK, Phases

(*****************************************************************************)
(* The stages of the stop.                                                   *)
(*****************************************************************************)
\* The state a connection can reach in one step, as far as the stop is
\* concerned: after it, nobody starts subscriptions or is accepted.
LEMMA ConnectionStops ==
    ASSUME TypeOK, StopInv, NEW c \in Conns, Client(c) \/ Task(c)
    PROVE  StopInv'
<1>1. UNCHANGED process
  BY DEF Client, Task, Accept, Request, Respond, Cancelled, CloseUnused,
         Disconnect, Upgrade, OnUpgrade, ConnectionInit, InitTimedOut,
         ServeEnds, Stall, RefusalSent, CloseSent, CloseDone, Killed
<1>2. PICK s : conn' = [conn EXCEPT ![c] = s]
               /\ (s \in {"open", "handling"} =>
                     conn[c] \in {"open", "handling"} \/ server = "running")
               /\ (s \in {"serving", "stalled", "refused"} =>
                     conn[c] \in {"serving", "stalled"} \/ ~stop)
  BY DEF Client, Task, Accept, Request, Respond, Cancelled, CloseUnused,
         Disconnect, Upgrade, OnUpgrade, ConnectionInit, InitTimedOut, Deadline,
         ServeEnds, Stall, RefusalSent, CloseSent, CloseDone, Killed, Become,
         BecomeFreeing, AfterResponse, Reads, Admits
<1>3. ServerInv'
  BY <1>1, <1>2 DEF StopInv, ServerInv, process, tokens, TypeOK
<1>4. QuietInv'
  BY <1>1, <1>2 DEF StopInv, StageInv, QuietInv, process, tokens, TypeOK
<1> QED
  BY <1>1, <1>3, <1>4 DEF StopInv, StageInv, FileInv, process, tokens

LEMMA MainStops ==
    ASSUME TypeOK, StopInv, Main \/ Signal
    PROVE  StopInv'
<1> USE DEF StopInv, StageInv, ServerInv, QuietInv, FileInv, tokens
<1>1. CASE Signal
  BY <1>1 DEF Signal
<1>2. CASE BadServeRoot
  BY <1>2 DEF BadServeRoot, Fail
<1>3. CASE Bind
  BY <1>3 DEF Bind
<1>4. CASE BindRefused
  BY <1>4 DEF BindRefused, Fail, Bindable, TypeOK
<1>5. CASE EngineStarted
  BY <1>5 DEF EngineStarted
<1>6. CASE EngineRefused
  BY <1>6 DEF EngineRefused, Fail
<1>7. CASE StopBegins
  BY <1>7 DEF StopBegins
<1>8. CASE ServerEnds
  BY <1>8 DEF ServerEnds, TypeOK, Phases
<1>9. CASE ServerJoined
  BY <1>9 DEF ServerJoined, CloseTracker
<1>10. CASE HttpGraceOver
  BY <1>10 DEF HttpGraceOver
<1>11. CASE ReqKillGraceOver
  BY <1>11 DEF ReqKillGraceOver, CloseTracker
<1>12. CASE WsGone
  BY <1>12 DEF WsGone, Waited, Tracked
<1>13. CASE WsGraceOver
  BY <1>13 DEF WsGraceOver
<1>14. CASE EngineStopped
  BY <1>14 DEF EngineStopped
<1>15. CASE BindFails
  BY <1>15 DEF BindFails, Fail
<1> HIDE DEF StopInv, StageInv, ServerInv, QuietInv, FileInv, tokens
<1> QED
  BY <1>1, <1>2, <1>3, <1>4, <1>5, <1>6, <1>7, <1>8, <1>9, <1>10, <1>11,
     <1>12, <1>13, <1>14, <1>15 DEF Main

LEMMA ProcessStops ==
    ASSUME TypeOK, StopInv, Restart \/ Crash
    PROVE  StopInv'
<1> USE DEF StopInv, StageInv, ServerInv, QuietInv, FileInv
<1>1. CASE Restart
  BY <1>1 DEF Restart, NewProcess, Ended
<1>2. CASE Crash
  BY <1>2 DEF Crash, NewProcess
<1> QED
  BY <1>1, <1>2

(*****************************************************************************)
(* The theorems.                                                             *)
(*****************************************************************************)
\* The stages of stop_with, the socket file and the permits, in every state
\* of every run of the daemon.
THEOREM DaemonInvariant == Spec => []DaemonInv
<1>1. Init => DaemonInv
  <2> SUFFICES ASSUME Init PROVE DaemonInv
    OBVIOUS
  <2>1. Holders = {}
    BY DEF Init, Holders, HoldsPermit
  <2>2. permits \in 0..MaxPending /\ PermitInv
    BY <2>1, FS_EmptySet, DaemonAssumption DEF Init, PermitInv
  <2>3. conn \in [Conns -> {"none", "open", "handling", "upgrade"} \cup Tracked]
    BY DEF Init
  <2>4. TypeOK
    <3>1. /\ signal \in BOOLEAN /\ stop \in BOOLEAN /\ reqKill \in BOOLEAN
          /\ wsKill \in BOOLEAN /\ closed \in BOOLEAN
      BY DEF Init
    <3>2. /\ phase \in Phases /\ server \in {"none", "running", "ended", "aborted"}
          /\ file \in {"none", "live", "stale", "foreign"}
          /\ refusedBy \in {"none", "config", "endpoint", "system", "engine"}
      BY DEF Init, Phases
    <3>3. runs \in 0..MaxRuns
      BY DaemonAssumption DEF Init
    <3> QED
      BY <2>2, <2>3, <3>1, <3>2, <3>3 DEF TypeOK
  <2>5. StopInv
    BY DEF Init, StopInv, StageInv, ServerInv, QuietInv, FileInv
  <2> QED
    BY <2>2, <2>4, <2>5 DEF DaemonInv
<1>2. DaemonInv /\ [Next]_vars => DaemonInv'
  <2> SUFFICES ASSUME DaemonInv, [Next]_vars PROVE DaemonInv'
    OBVIOUS
  <2>1. CASE Main \/ Signal
    BY <2>1, MainTypes, MainStops DEF DaemonInv
  <2>2. CASE Restart \/ Crash
    BY <2>2, ProcessTypes, ProcessStops DEF DaemonInv
  <2>3. CASE \E c \in Conns : Client(c) \/ Task(c)
    BY <2>3, ConnectionTypes, ConnectionStops DEF DaemonInv
  <2>4. CASE UNCHANGED vars
    BY <2>4 DEF DaemonInv, TypeOK, PermitInv, Holders, StopInv, StageInv,
                ServerInv, QuietInv, FileInv, vars, tokens
  <2> QED
    BY <2>1, <2>2, <2>3, <2>4 DEF Next
<1> QED
  BY <1>1, <1>2, PTL DEF Spec

\* Types; in particular the permits never exceed MAX_PENDING_WS and are never
\* given out twice.
THEOREM TypeCorrect == Spec => []TypeOK
<1>1. DaemonInv => TypeOK
  BY DEF DaemonInv
<1> QED
  BY <1>1, DaemonInvariant, PTL

\* No permit of WsState::pending is lost or returned twice, whichever way a
\* socket ends: initialised, refused, timed out, killed or disconnected.
THEOREM PermitsExact == Spec => []PermitInv
<1>1. DaemonInv => PermitInv
  BY DEF DaemonInv
<1> QED
  BY <1>1, DaemonInvariant, PTL

\* stop_with shuts the engine down when no socket runs subscriptions on it
\* and every request that is still there has been cancelled.
THEOREM EngineIsLeftAlone == Spec => []EngineLeftAlone
<1>1. DaemonInv => EngineLeftAlone
  BY DEF DaemonInv, StopInv, StageInv, ServerInv, QuietInv, EngineLeftAlone
<1> QED
  BY <1>1, DaemonInvariant, PTL

\* bind_unix refuses to start only at what another process owns.
THEOREM LeftoversDoNotBlock == Spec => []LeftoversNeverBlock
<1>1. DaemonInv => LeftoversNeverBlock
  BY DEF DaemonInv, StopInv, FileInv, LeftoversNeverBlock
<1> QED
  BY <1>1, DaemonInvariant, PTL
===============================================================================
