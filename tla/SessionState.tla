----------------------------- MODULE SessionState -----------------------------
(***************************************************************************)
(* The session state of rsbtd: the settings, the IP filter and the DHT     *)
(* state of the libtorrent session, and session.state, the file that keeps *)
(* them over restarts and crashes (rsbtd/src/engine/mod.rs, persist.rs).   *)
(*                                                                         *)
(* Writers of the file are the API calls that change the settings or the   *)
(* filter, a checkpoint of the running engine (session end on Windows) and *)
(* the final checkpoint of the shutdown.  They serialize on                *)
(* session_state_lock, hand a snapshot to the persister through the        *)
(* bounded persist queue and wait for its answer; a call whose write       *)
(* failed rolls the session back.  A call ends at any of its awaits when   *)
(* its client disconnects, a checkpoint at any of its awaits when its      *)
(* deadline passes.                                                        *)
(*                                                                         *)
(* A value is the stamp of the change that produced it, counted by clock;  *)
(* stamp 0 is the value a session starts with.                             *)
(***************************************************************************)
EXTENDS Integers, Sequences, FiniteSets

CONSTANTS
    Calls,      \* apply_settings and set_ip_filter calls, one use each
    Live,       \* the checkpoint of a running engine
    Final,      \* the checkpoint of the shutdown
    Nobody,     \* the holder of a free lock
    Names,      \* the names of the settings
    Filter,     \* the IP filter
    Dht,        \* the DHT state
    QueueCap,   \* PERSIST_QUEUE_CAPACITY
    MaxClock,   \* bound: libtorrent changes the DHT state only below it
    MaxStarts   \* bound: starts of the engine

Checkpoints == {Live, Final}
Writers == Calls \cup Checkpoints
Parts == Names \cup {Filter, Dht}

ASSUME WritersAssumption ==
    Nobody \notin Writers /\ Live # Final /\ Calls \cap Checkpoints = {}
ASSUME PartsAssumption == Filter \notin Names /\ Dht \notin Names /\ Filter # Dht
ASSUME BoundsAssumption == QueueCap \in Nat \ {0} /\ MaxClock \in Nat /\ MaxStarts \in Nat

VARIABLES
    session,    \* the state of the libtorrent session
    disk,       \* session.state
    sd,         \* the shutdown: "off" when no engine runs
    queue,      \* the persist queue
    lock,       \* the holder of session_state_lock
    wpc,        \* where each writer is
    target,     \* the part a call changes
    held,       \* what the holder of the lock keeps in its locals
    starts,
    clock,
    \* history, which no action of the code reads
    stamp,      \* the stamp a call gave its change, 0 before
    acked,      \* the newest stamp of each part a call returned Ok for
    unrolled,   \* calls whose rollback failed
    final       \* what the final checkpoint was answered Ok for

engineVars == <<sd, queue, lock, starts>>
callVars == <<target, stamp>>
history == <<acked, unrolled, final>>
vars == <<session, disk, engineVars, wpc, callVars, held, clock, history>>

Masks == {"pinned", "other"}
State == [val : [Parts -> Nat], mask : Masks]
Fresh == [val |-> [p \in Parts |-> 0], mask |-> "pinned"]

\* previous: the session before a call changed it; snap: what save_state wrote.
NoLocals == [previous |-> Fresh, snap |-> Fresh]

Absent == [kind |-> "absent", st |-> Fresh]
Corrupt == [kind |-> "corrupt", st |-> Fresh]
File(st) == [kind |-> "valid", st |-> st]

ResumeOp == [kind |-> "resume", by |-> Nobody, st |-> Fresh]
StateOp(w) == [kind |-> "state", by |-> w, st |-> held.snap]
Ops == {ResumeOp} \cup [kind : {"state"}, by : Writers, st : State]

Holding == {"saved", "sending", "acking", "acked", "nacked", "failed"}
Active == Holding \cup {"lock"}
Ended == {"ok", "err", "dropped", "lost"}
Phases == {"off", "run", "final", "taken", "closed"}

\* The stamps a restart would find.
Stored == disk.st.val

TypeOK ==
    /\ session \in State
    /\ disk \in [kind : {"absent", "corrupt", "valid"}, st : State]
    /\ sd \in Phases
    /\ queue \in Seq(Ops) /\ Len(queue) <= QueueCap
    /\ lock \in Writers \cup {Nobody}
    /\ wpc \in [Writers -> {"idle"} \cup Active \cup Ended]
    /\ target \in [Calls -> Parts \ {Dht}]
    /\ held \in [previous : State, snap : State]
    /\ starts \in Nat /\ clock \in Nat
    /\ stamp \in [Calls -> Nat]
    /\ acked \in [Parts -> Nat]
    /\ unrolled \subseteq Calls
    /\ final \in [Parts -> Nat]

(***************************************************************************)
(* The file may be missing, unreadable as a state, or written by another   *)
(* release with another alert mask.                                        *)
(***************************************************************************)
Init ==
    /\ session = Fresh
    /\ disk \in {Absent, Corrupt, File(Fresh), File([Fresh EXCEPT !.mask = "other"])}
    /\ sd = "off" /\ queue = <<>> /\ lock = Nobody /\ starts = 0
    /\ wpc = [w \in Writers |-> "idle"]
    /\ target = [c \in Calls |-> Filter]
    /\ held = NoLocals
    /\ clock = 0
    /\ stamp = [c \in Calls |-> 0]
    /\ acked = [p \in Parts |-> 0]
    /\ unrolled = {}
    /\ final = [p \in Parts |-> 0]

-------------------------------------------------------------------------------
(***************************************************************************)
(* Engine::start.  A state that does not load is quarantined and the       *)
(* session starts fresh; the rename may fail, and the file stays.  The     *)
(* loaded settings replace the defaults wholesale, so the alert settings   *)
(* are pinned again.  A read error other than NotFound ends the start      *)
(* before it changed anything.                                             *)
(***************************************************************************)
Quarantined == IF disk.kind = "corrupt" THEN {Absent, disk} ELSE {disk}

Repinned(st) == [st EXCEPT !.mask = "pinned"]

Start ==
    /\ sd = "off" /\ starts < MaxStarts
    /\ \A w \in Writers : wpc[w] \notin Active
    /\ session' = Repinned(disk.st)
    /\ disk' \in Quarantined
    /\ sd' = "run" /\ queue' = <<>> /\ lock' = Nobody /\ starts' = starts + 1
    /\ held' = NoLocals
    /\ final' = [p \in Parts |-> 0]
    /\ wpc' = [w \in Writers |-> IF w \in Checkpoints THEN "idle" ELSE wpc[w]]
    /\ UNCHANGED <<callVars, clock, acked, unrolled>>

\* libtorrent learns DHT nodes while the session exists.
DhtLearns ==
    /\ sd # "off" /\ clock < MaxClock
    /\ session' = [session EXCEPT !.val = [@ EXCEPT ![Dht] = clock + 1]]
    /\ clock' = clock + 1
    /\ UNCHANGED <<disk, engineVars, wpc, callVars, held, history>>

\* A client's call arrives, and waits for the lock.
Request(c, p) ==
    /\ sd # "off" /\ wpc[c] = "idle"
    /\ wpc' = [wpc EXCEPT ![c] = "lock"]
    /\ target' = [target EXCEPT ![c] = p]
    /\ UNCHANGED <<session, disk, engineVars, stamp, held, clock, history>>

\* A pack that touches the alert settings is overridden.
PackMask(touched) == IF touched THEN "pinned" ELSE session.mask

Changed(c, touched) ==
    [session EXCEPT !.val = [@ EXCEPT ![target[c]] = clock + 1],
                    !.mask = IF target[c] = Filter THEN @ ELSE PackMask(touched)]

\* What the rollback restores: the whole settings pack, or the filter.
RestoredNames(c) == [p \in Parts |-> IF p \in Names THEN held.previous.val[p]
                                                   ELSE session.val[p]]
RestoredNothing(c) == session
Restored(c) ==
    IF target[c] = Filter
    THEN [session EXCEPT !.val = [@ EXCEPT ![Filter] = held.previous.val[Filter]]]
    ELSE [val |-> RestoredNames(c), mask |-> held.previous.mask]

SessionTaken == sd \in {"off", "taken", "closed"}

(***************************************************************************)
(* The call got the lock: it fails when the session is gone or libtorrent  *)
(* refuses the pack; otherwise it changes the session and serializes it,   *)
(* with no await and under the lock.                                       *)
(***************************************************************************)
LockIgnored == TRUE
LockFree == lock = Nobody

Refused(c) ==
    /\ wpc[c] = "lock" /\ LockFree
    /\ wpc' = [wpc EXCEPT ![c] = "err"]
    /\ UNCHANGED <<session, disk, engineVars, callVars, held, clock, history>>

\* save_state gives the bytes, or fails.
Serialized(w) == {[wpc EXCEPT ![w] = r] : r \in {"saved", "failed"}}

Apply(c) ==
    /\ wpc[c] = "lock" /\ LockFree /\ ~SessionTaken
    /\ lock' = c
    /\ \E touched \in BOOLEAN : session' = Changed(c, touched)
    /\ stamp' = [stamp EXCEPT ![c] = clock + 1]
    /\ clock' = clock + 1
    /\ held' = [previous |-> session, snap |-> session']
    /\ wpc' \in Serialized(c)
    /\ UNCHANGED <<disk, sd, queue, starts, target, history>>

\* A checkpoint, once the resume data is flushed or its deadline passed.
StartCheckpoint ==
    /\ sd = "run" /\ wpc[Live] = "idle"
    /\ wpc' = [wpc EXCEPT ![Live] = "lock"]
    /\ UNCHANGED <<session, disk, engineVars, callVars, held, clock, history>>

Snapshot(w) ==
    /\ wpc[w] = "lock" /\ LockFree
    /\ lock' = w
    /\ held' = [previous |-> session, snap |-> session]
    /\ wpc' \in Serialized(w)
    /\ UNCHANGED <<session, disk, sd, queue, starts, callVars, clock, history>>

-------------------------------------------------------------------------------
(***************************************************************************)
(* persist_session_state: take the sender, wait for room, wait for the     *)
(* answer.                                                                 *)
(***************************************************************************)
GetSender(w) ==
    /\ wpc[w] = "saved"
    /\ wpc' = [wpc EXCEPT ![w] = IF sd \in {"closed", "off"} THEN "failed" ELSE "sending"]
    /\ UNCHANGED <<session, disk, engineVars, callVars, held, clock, history>>

Send(w) ==
    /\ wpc[w] = "sending" /\ Len(queue) < QueueCap
    /\ queue' = Append(queue, StateOp(w))
    /\ wpc' = [wpc EXCEPT ![w] = "acking"]
    /\ UNCHANGED <<session, disk, sd, lock, starts, callVars, held, clock, history>>

\* The pump queues resume writes until it is stopped.
PumpSends ==
    /\ sd \in {"run", "final", "taken"} /\ Len(queue) < QueueCap
    /\ queue' = Append(queue, ResumeOp)
    /\ UNCHANGED <<session, disk, sd, lock, starts, wpc, callVars, held, clock, history>>

AnswerOk(w, result) ==
    IF w \in Writers /\ wpc[w] = "acking" THEN [wpc EXCEPT ![w] = "acked"] ELSE wpc

Answer(w, result) ==
    IF w \in Writers /\ wpc[w] = "acking" THEN [wpc EXCEPT ![w] = result] ELSE wpc

(***************************************************************************)
(* The persister: one operation at a time, in order.  write_atomic fails   *)
(* before its rename or not at all.                                        *)
(***************************************************************************)
PersistResume ==
    /\ queue # <<>> /\ Head(queue).kind = "resume"
    /\ queue' = Tail(queue)
    /\ UNCHANGED <<session, disk, sd, lock, starts, wpc, callVars, held, clock, history>>

PersistState ==
    /\ queue # <<>> /\ Head(queue).kind = "state"
    /\ queue' = Tail(queue)
    /\ \/ /\ disk' = File(Head(queue).st)
          /\ wpc' = Answer(Head(queue).by, "acked")
       \/ /\ wpc' = Answer(Head(queue).by, "nacked")
          /\ UNCHANGED disk
    /\ UNCHANGED <<session, sd, lock, starts, callVars, held, clock, history>>

\* The writer reads the answer, and its guard releases the lock.
Return(w) ==
    /\ wpc[w] = "acked"
    /\ wpc' = [wpc EXCEPT ![w] = "ok"]
    /\ lock' = Nobody
    /\ held' = NoLocals
    /\ final' = IF w = Final THEN held.snap.val ELSE final
    /\ acked' = IF w \in Calls THEN [acked EXCEPT ![target[w]] = stamp[w]] ELSE acked
    /\ UNCHANGED <<session, disk, sd, queue, starts, callVars, clock, unrolled>>

RollBack(c) ==
    /\ wpc[c] \in {"nacked", "failed"}
    /\ wpc' = [wpc EXCEPT ![c] = "err"]
    /\ lock' = Nobody /\ held' = NoLocals
    /\ \/ session' = Restored(c) /\ UNCHANGED unrolled
       \/ unrolled' = unrolled \cup {c} /\ UNCHANGED session
    /\ UNCHANGED <<disk, sd, queue, starts, callVars, clock, acked, final>>

GiveUp(w) ==
    /\ wpc[w] \in {"nacked", "failed"}
    /\ wpc' = [wpc EXCEPT ![w] = "err"]
    /\ lock' = Nobody /\ held' = NoLocals
    /\ UNCHANGED <<session, disk, sd, queue, starts, callVars, clock, history>>

\* The client disconnects, or the deadline passes: the future is dropped.
Release(w) == IF lock = w THEN Nobody ELSE lock

Drop(w) ==
    /\ wpc[w] \in {"lock", "sending", "acking", "acked", "nacked"}
    /\ wpc' = [wpc EXCEPT ![w] = "dropped"]
    /\ lock' = Release(w)
    /\ held' = IF lock = w THEN NoLocals ELSE held
    /\ UNCHANGED <<session, disk, sd, queue, starts, callVars, clock, history>>

-------------------------------------------------------------------------------
(***************************************************************************)
(* shutdown_with, as far as it concerns the session state: the final       *)
(* checkpoint, the session is taken, then the sender; the persister ends   *)
(* when the queue is empty and no writer holds a clone of the sender.      *)
(***************************************************************************)
BeginShutdown ==
    /\ sd = "run"
    /\ sd' = "final"
    /\ wpc' = [wpc EXCEPT ![Final] = "lock"]
    /\ UNCHANGED <<session, disk, queue, lock, starts, callVars, held, clock, history>>

TakeSession ==
    /\ sd = "final" /\ wpc[Final] \in Ended
    /\ sd' = "taken"
    /\ UNCHANGED <<session, disk, queue, lock, starts, wpc, callVars, held, clock, history>>

DropSender ==
    /\ sd = "taken"
    /\ sd' = "closed"
    /\ UNCHANGED <<session, disk, queue, lock, starts, wpc, callVars, held, clock, history>>

PersisterJoined ==
    /\ sd = "closed" /\ queue = <<>>
    /\ \A w \in Writers : wpc[w] # "sending"
    /\ sd' = "off"
    /\ UNCHANGED <<session, disk, queue, lock, starts, wpc, callVars, held, clock, history>>

Crash ==
    /\ sd # "off"
    /\ sd' = "off" /\ queue' = <<>> /\ lock' = Nobody
    /\ wpc' = [w \in Writers |-> IF wpc[w] \in Active THEN "lost" ELSE wpc[w]]
    /\ held' = NoLocals
    /\ UNCHANGED <<session, disk, starts, callVars, clock, history>>

Locks(w) == IF w \in Calls THEN Refused(w) \/ Apply(w) ELSE Snapshot(w)
Fails(w) == IF w \in Calls THEN RollBack(w) ELSE GiveUp(w)

Next ==
    \/ Start \/ DhtLearns \/ StartCheckpoint \/ PumpSends
    \/ PersistResume \/ PersistState
    \/ BeginShutdown \/ TakeSession \/ DropSender \/ PersisterJoined \/ Crash
    \/ \E c \in Calls, p \in Parts \ {Dht} : Request(c, p)
    \/ \E w \in Writers : Locks(w) \/ GetSender(w) \/ Send(w) \/ Return(w)
                            \/ Fails(w) \/ Drop(w)

Spec == Init /\ [][Next]_vars

-------------------------------------------------------------------------------
(***************************************************************************)
(* A call that returned an error changed nothing: its change is neither in *)
(* the session nor in the file nor on its way there, unless libtorrent     *)
(* refused the rollback.  The doc comment of apply_settings: a failed      *)
(* write rolls the session back ("nothing changed").                       *)
(***************************************************************************)
FailedChangedNothing ==
    \A c \in Calls :
        wpc[c] = "err" /\ stamp[c] # 0 /\ c \notin unrolled =>
            /\ session.val[target[c]] # stamp[c]
            /\ Stored[target[c]] # stamp[c]
            /\ \A i \in 1..Len(queue) : queue[i].st.val[target[c]] # stamp[c]

(***************************************************************************)
(* Once the final checkpoint was answered Ok, the file holds at least what *)
(* the session held then, for as long as no new engine starts: no call in  *)
(* flight puts an older snapshot over it.  The comment in checkpoint: "so  *)
(* an in-flight apply cannot enqueue an older snapshot after this final    *)
(* one".                                                                   *)
(***************************************************************************)
FinalStateKept ==
    wpc[Final] = "ok" => \A p \in Parts : final[p] <= Stored[p]

(***************************************************************************)
(* While an engine runs, the session has the alert mask of the daemon,     *)
(* whatever the file or a client's pack said: with another mask the pump   *)
(* would wait for alerts that are never posted.                            *)
(***************************************************************************)
AlertsPinned == sd # "off" => session.mask = "pinned"

(***************************************************************************)
(* Engine and file implement the durable state of DurableState: what is    *)
(* stored never moves back, whatever is dropped, fails or crashes, and a   *)
(* call returns Ok only when its change, or a later one, is stored.        *)
(***************************************************************************)
Durable == INSTANCE DurableState WITH stored <- Stored, acked <- acked
ImplementsDurable == Durable!DurableSpec
===============================================================================
