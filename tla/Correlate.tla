------------------------------ MODULE Correlate ------------------------------
(***************************************************************************)
(* Requests that libtorrent answers with an alert, given call semantics    *)
(* over the event bus: `request`, `request_serialized` and `drain` of      *)
(* rsbtd/src/engine/correlate.rs, the engine operations built on them      *)
(* (mod.rs), the part of the pump that publishes the answers and           *)
(* attributes deletion alerts (pump.rs).                                   *)
(*                                                                         *)
(* A call subscribes to the bus, posts its operation and reads events      *)
(* until one matches.  Answers carry no request identity.  Operations      *)
(* whose answers could be confused hold a lock per (torrent, class).  The  *)
(* history field `of` of an alert names the call whose operation it        *)
(* answers; no step of the code reads it.                                  *)
(***************************************************************************)
EXTENDS Integers, Sequences, FiniteSets

CONSTANTS
    Calls,      \* the calls that are ever made
    NoCall,     \* the `of` of an unsolicited alert
    Torrents,   \* uuids; a torrent that is added again gets a new one
    NoTorrent,  \* an alert that cannot be attributed
    Hashes,     \* Hashes[t]: the info-hashes of t
    Keys,       \* file and piece indexes, tracker urls
    Trackers,   \* the keys that are urls of the torrents' trackers
    NoKey,      \* a scrape answer without a url
    Jobs,       \* the requests the calls make
    BusCap,     \* EVENT_BUS_CAPACITY
    MaxNoise,   \* bound: unsolicited alerts
    Env         \* which behaviours of the surroundings are explored

ASSUME NamesAssumption == NoCall \notin Calls /\ NoTorrent \notin Torrents
ASSUME HashesAssumption == \A t \in Torrents : Hashes[t] # {}
ASSUME TrackersAssumption == Trackers \subseteq Keys
ASSUME BusCapAssumption == BusCap \in Nat \ {0}
ASSUME EnvAssumption == Env \subseteq {"timeout", "removeTimeout", "drop",
                                       "shutdown", "readd"}

VARIABLES
    \* libtorrent (external)
    session,    \* torrents in the session
    alive,      \* torrents whose object still exists
    added,      \* torrents added so far: a uuid is used once
    pending,    \* operations posted and not yet answered
    removing,   \* removals posted and not yet performed
    deleting,   \* removed torrents whose files are being deleted, in order
    deleted,    \* history: torrents whose files are gone
    alerts,     \* the alert queue
    noise,      \* unsolicited alerts so far
    \* the engine
    handles,    \* torrents find_torrent_by_token resolves
    pending_deletes,
    op_locks,   \* the lock of a (torrent, class), or NoCall
    shutdown,   \* "no", or "cancelled": shutdown_token
    \* the calls
    pc, job, lock, rx, lagged, got,
    missed      \* history: calls whose receiver ever lagged

ltVars == <<session, alive, added, pending, removing, deleting, deleted, alerts,
            noise>>
engineVars == <<handles, pending_deletes, op_locks, shutdown>>
callVars == <<pc, job, lock, rx, lagged, got, missed>>
vars == <<ltVars, engineVars, callVars>>

(***************************************************************************)
(* The operations: the lock class, and whether the answer is told from     *)
(* other answers of its kind by a key (file index, piece, tracker url).    *)
(***************************************************************************)
move_storage   == [class |-> "MoveStorage", keyed |-> FALSE]
rename_file    == [class |-> "RenameFile",  keyed |-> TRUE]
scrape_tracker == [class |-> "Scrape",      keyed |-> TRUE]
trackers       == [class |-> "none", keyed |-> FALSE]
peers          == [class |-> "none", keyed |-> FALSE]
file_progress  == [class |-> "none", keyed |-> FALSE]
read_piece     == [class |-> "none", keyed |-> TRUE]
delete_files   == [class |-> "none", keyed |-> FALSE]

OpTable == [move_storage |-> move_storage, rename_file |-> rename_file,
            scrape_tracker |-> scrape_tracker, trackers |-> trackers,
            peers |-> peers, file_progress |-> file_progress,
            read_piece |-> read_piece, delete_files |-> delete_files]

Class(op) == OpTable[op].class
Serialized(op) == Class(op) # "none"
Classes == {"MoveStorage", "RenameFile", "Scrape"}

\* An event of the bus: the operation it answers (or "removed", "other").
Event == [t : Torrents \cup {NoTorrent}, op : DOMAIN OpTable \cup
            {"removed", "other"}, out : {"ok", "failed"},
          key : Keys \cup {NoKey}, of : Calls \cup {NoCall}]
Job == [op : DOMAIN OpTable, t : Torrents, key : Keys]
NoJob == [op |-> "none", t |-> NoTorrent, key |-> NoKey]
ASSUME JobsAssumption == Jobs \subseteq Job
Waiting == {"resolving", "waiting"}
PcValues == {"idle", "locking", "locked", "draining", "ok", "err", "timeout",
             "dropped"} \cup Waiting

TypeOK ==
    /\ session \subseteq Torrents /\ alive \subseteq Torrents
    /\ added \subseteq Torrents
    /\ pending \subseteq (Calls \X Job)
    /\ removing \subseteq Torrents
    /\ deleting \in Seq(Torrents) /\ deleted \subseteq Torrents
    /\ alerts \in Seq(Event)
    /\ noise \in Nat
    /\ handles \subseteq Torrents
    /\ pending_deletes \in Seq([hashes : SUBSET UNION {Hashes[t] : t \in Torrents},
                                t : Torrents])
    /\ op_locks \in [Torrents \X Classes -> Calls \cup {NoCall}]
    /\ shutdown \in {"no", "cancelled"}
    /\ pc \in [Calls -> PcValues]
    /\ job \in [Calls -> Job \cup {NoJob}]
    /\ lock \in [Calls -> Calls \cup {NoCall}]
    /\ rx \in [Calls -> Seq(Event)]
    /\ \A c \in Calls : Len(rx[c]) <= BusCap
    /\ lagged \subseteq Calls /\ missed \subseteq Calls
    /\ got \in [Calls -> Calls \cup {NoCall}]

Init ==
    /\ \E t \in Torrents : session = {t}
    /\ alive = session /\ added = session /\ handles = session
    /\ pending = {} /\ removing = {} /\ deleting = <<>> /\ deleted = {}
    /\ alerts = <<>> /\ noise = 0
    /\ pending_deletes = <<>>
    /\ op_locks = [k \in Torrents \X Classes |-> NoCall]
    /\ shutdown = "no"
    /\ pc = [c \in Calls |-> "idle"]
    /\ job = [c \in Calls |-> NoJob]
    /\ lock = [c \in Calls |-> NoCall]
    /\ rx = [c \in Calls |-> <<>>]
    /\ lagged = {} /\ missed = {}
    /\ got = [c \in Calls |-> NoCall]

(***************************************************************************)
(* Wrong variants of definitions below, each with a bug the code could     *)
(* have had; the specification does not use them.                          *)
(***************************************************************************)
\* Any answer of the torrent and kind is taken for one's own.
MatcherUnkeyed(j, e) == e.t = j.t /\ e.op = j.op

\* The lock is released when the wait times out.
AfterTimeoutReleased(c) == "timeout"

\* The bus as a queue: an event goes to one of the receivers.
ReceivingFirst(c) ==
    LET Open == {d \in Calls : pc[d] \in {"resolving", "waiting", "draining"}}
    IN c \in Open /\ c = CHOOSE d \in Open : TRUE

\* The drainer does not notice the late answer.
DrainEndsRemoved(c, e) == e.op = "removed" /\ e.t = job[c].t

\* Deletions are attributed in the reverse order of the requests.
LastOverlap(h) ==
    LET hits == {i \in 1 .. Len(pending_deletes) :
                   pending_deletes[i].hashes \cap h # {}}
    IN IF hits = {} THEN 0 ELSE CHOOSE i \in hits : \A j \in hits : j <= i

(***************************************************************************)
(* The bus: every receiver keeps the last BusCap events it has not read; a *)
(* receiver that lost some learns so at its next read.                     *)
(***************************************************************************)
Receiving(c) == pc[c] \in Waiting \cup {"draining"}
Full(c) == Len(rx[c]) = BusCap

publish(e) ==
    /\ rx' = [c \in Calls |->
                IF ~Receiving(c) THEN rx[c]
                ELSE Append(IF Full(c) THEN Tail(rx[c]) ELSE rx[c], e)]
    /\ lagged' = lagged \cup {c \in Calls : Receiving(c) /\ Full(c)}
    /\ missed' = missed \cup {c \in Calls : Receiving(c) /\ Full(c)}

\* The receiver of c is dropped.
Unsubscribe(c) ==
    /\ rx' = [rx EXCEPT ![c] = <<>>]
    /\ lagged' = lagged \ {c}

(***************************************************************************)
(* Locks.  op_lock hands out the lock that is still referenced, or makes a *)
(* new one, which bears the name of the call that made it.                 *)
(***************************************************************************)
Holds(c) == pc[c] \in {"locked", "waiting", "draining"}
Referenced(l) == \E c \in Calls : lock[c] = l /\ (Holds(c) \/ pc[c] = "locking")
LockKey(c) == <<job[c].t, Class(job[c].op)>>

op_lock(c, k) == IF op_locks[k] # NoCall /\ Referenced(op_locks[k])
                 THEN op_locks[k] ELSE c

\* The call goes on to wait for its lock.
Enqueue(c, j) ==
    LET k == <<j.t, Class(j.op)>>
    IN /\ lock' = [lock EXCEPT ![c] = op_lock(c, k)]
       /\ op_locks' = [op_locks EXCEPT ![k] = op_lock(c, k)]
       /\ pc' = [pc EXCEPT ![c] = "locking"]

(***************************************************************************)
(* Making a call.  Plain requests post at once; serialized ones queue for  *)
(* their lock first; a scrape asks for the list of trackers before that.   *)
(***************************************************************************)
Post(c, j) ==
    /\ pending' = pending \cup {<<c, j>>}
    /\ UNCHANGED <<session, alive, added, removing, deleting, deleted, alerts, noise>>

\* Subscribe, post, wait.  The subscription comes first, so that nothing
\* published after the post is missed.
Subscribed(c) == [pc EXCEPT ![c] = "waiting"]

CallRequest(c, j) ==
    /\ pc[c] = "idle" /\ shutdown = "no" /\ j.t \in handles
    /\ ~Serialized(j.op) /\ j.op # "delete_files"
    /\ job' = [job EXCEPT ![c] = j]
    /\ pc' = Subscribed(c)
    /\ Post(c, j)
    /\ UNCHANGED <<engineVars, lock, rx, lagged, got, missed>>

CallSerialized(c, j) ==
    /\ pc[c] = "idle" /\ Class(j.op) \in {"MoveStorage", "RenameFile"}
    /\ job' = [job EXCEPT ![c] = j]
    /\ Enqueue(c, j)
    /\ UNCHANGED <<ltVars, handles, pending_deletes, shutdown, rx, lagged, got,
                   missed>>

CallScrape(c, j) ==
    /\ pc[c] = "idle" /\ shutdown = "no" /\ j.t \in handles
    /\ Class(j.op) = "Scrape"
    /\ job' = [job EXCEPT ![c] = j]
    /\ pc' = [pc EXCEPT ![c] = "resolving"]
    /\ Post(c, [j EXCEPT !.op = "trackers"])
    /\ UNCHANGED <<engineVars, lock, rx, lagged, got, missed>>

\* The tracker list arrived: an index must name a tracker.  For -1 the handle
\* is looked up here, to ask for the working tracker; for a given index it is
\* looked up under the lock only.
Resolve(c) ==
    \/ /\ job[c].key \in Trackers
       /\ Enqueue(c, job[c])
    \/ /\ job[c].key \notin Trackers \/ job[c].t \notin handles
       /\ pc' = [pc EXCEPT ![c] = "err"]
       /\ UNCHANGED <<lock, op_locks>>

AcquireLock(c) ==
    /\ pc[c] = "locking"
    /\ \A d \in Calls : lock[d] = lock[c] => ~Holds(d)
    /\ pc' = [pc EXCEPT ![c] = "locked"]
    /\ UNCHANGED <<ltVars, engineVars, job, lock, rx, lagged, got, missed>>

\* The handle is looked up under the lock; rename_file may refuse the name.
PostLocked(c) ==
    /\ pc[c] = "locked"
    /\ \/ /\ job[c].t \in handles /\ shutdown = "no"
          /\ pc' = Subscribed(c)
          /\ Post(c, job[c])
       \/ /\ \/ job[c].t \notin handles \/ shutdown = "cancelled"
             \/ job[c].op = "rename_file"
          /\ pc' = [pc EXCEPT ![c] = "err"]
          /\ UNCHANGED ltVars
    /\ UNCHANGED <<engineVars, job, lock, rx, lagged, got, missed>>

\* remove_torrent with delete_files: the hashes known now are parked.
CallDelete(c, j) ==
    /\ pc[c] = "idle" /\ j.op = "delete_files" /\ j.t \in handles
    /\ job' = [job EXCEPT ![c] = j]
    /\ IF shutdown = "no"
       THEN /\ \E h \in (SUBSET Hashes[j.t]) \ {{}} :
                 pending_deletes' = Append(pending_deletes,
                                           [hashes |-> h, t |-> j.t])
            /\ pc' = Subscribed(c)
            /\ removing' = removing \cup {j.t}
       ELSE /\ pc' = [pc EXCEPT ![c] = "err"]
            /\ UNCHANGED <<pending_deletes, removing>>
    /\ UNCHANGED <<session, alive, added, pending, deleting, deleted, alerts, noise,
                   handles, op_locks, shutdown, lock, rx, lagged, got, missed>>

\* swap_remove
Without(s, i) ==
    [j \in 1 .. Len(s) - 1 |-> IF j = i THEN s[Len(s)] ELSE s[j]]

\* However the wait ended, the entry of a removal with files goes.
ForgetDelete(c) ==
    LET mine == {i \in 1 .. Len(pending_deletes) :
                   pending_deletes[i].t = job[c].t}
    IN IF job[c].op = "delete_files" /\ mine # {}
       THEN Without(pending_deletes,
                    CHOOSE i \in mine : \A j \in mine : i <= j)
       ELSE pending_deletes

\* The call of c returns with this outcome; its guard, if any, is dropped.
Return(c, outcome) ==
    /\ pc' = [pc EXCEPT ![c] = outcome]
    /\ Unsubscribe(c)
    /\ pending_deletes' = ForgetDelete(c)

(***************************************************************************)
(* Reading the bus.                                                        *)
(***************************************************************************)
Matcher(j, e) ==
    /\ e.t = j.t /\ e.op = j.op
    /\ OpTable[j.op].keyed =>
         e.key = j.key \/ (j.op = "scrape_tracker" /\ e.key = NoKey)

\* The event that answers what c waits for.
Answers(c, e) == IF pc[c] = "resolving" THEN e.t = job[c].t /\ e.op = "trackers"
                                        ELSE Matcher(job[c], e)

\* A lagged read: the wait goes on, the timeout is the backstop.
RecvLagged(c) ==
    /\ pc[c] \in Waiting /\ c \in lagged
    /\ lagged' = lagged \ {c}
    /\ UNCHANGED <<ltVars, engineVars, pc, job, lock, rx, got, missed>>

RecvOther(c) ==
    /\ pc[c] \in Waiting /\ c \notin lagged /\ rx[c] # <<>>
    /\ ~Answers(c, Head(rx[c]))
    /\ rx' = [rx EXCEPT ![c] = Tail(@)]
    /\ UNCHANGED <<ltVars, engineVars, pc, job, lock, lagged, got, missed>>

RecvTrackers(c) ==
    /\ pc[c] = "resolving" /\ c \notin lagged /\ rx[c] # <<>>
    /\ Answers(c, Head(rx[c]))
    /\ Unsubscribe(c)
    /\ Resolve(c)
    /\ UNCHANGED <<ltVars, handles, pending_deletes, shutdown, job, got, missed>>

RecvAnswer(c) ==
    /\ pc[c] = "waiting" /\ c \notin lagged /\ rx[c] # <<>>
    /\ LET e == Head(rx[c])
       IN /\ Answers(c, e)
          /\ got' = [got EXCEPT ![c] = e.of]
          /\ Return(c, IF e.out = "ok" THEN "ok" ELSE "err")
    /\ UNCHANGED <<ltVars, handles, op_locks, shutdown, job, lock, missed>>

\* The drainer inherits receiver and guard of a serialized call.
AfterTimeout(c) == IF Serialized(job[c].op) /\ pc[c] = "waiting"
                   THEN "draining" ELSE "timeout"

WaitTimeout(c) ==
    /\ IF Receiving(c) /\ job[c].op = "delete_files"
       THEN "removeTimeout" \in Env ELSE "timeout" \in Env
    /\ pc[c] \in Waiting
    /\ pc' = [pc EXCEPT ![c] = AfterTimeout(c)]
    /\ IF AfterTimeout(c) = "draining" THEN UNCHANGED <<rx, lagged>>
                                       ELSE Unsubscribe(c)
    /\ pending_deletes' = ForgetDelete(c)
    /\ UNCHANGED <<ltVars, handles, op_locks, shutdown, job, lock, got, missed>>

WaitCancelled(c) ==
    /\ pc[c] \in Waiting /\ shutdown = "cancelled"
    /\ Return(c, "err")
    /\ UNCHANGED <<ltVars, handles, op_locks, shutdown, job, lock, got, missed>>

\* The drainer releases the lock once the late answer, the removal of the
\* torrent, a lag or the shutdown ends its wait.
DrainEnds(c, e) == Answers(c, e) \/ (e.op = "removed" /\ e.t = job[c].t)

Drain(c) ==
    /\ pc[c] = "draining"
    /\ \/ /\ c \in lagged \/ shutdown = "cancelled"
          /\ pc' = [pc EXCEPT ![c] = "timeout"] /\ Unsubscribe(c)
       \/ /\ c \notin lagged /\ rx[c] # <<>> /\ DrainEnds(c, Head(rx[c]))
          /\ pc' = [pc EXCEPT ![c] = "timeout"] /\ Unsubscribe(c)
       \/ /\ c \notin lagged /\ rx[c] # <<>> /\ ~DrainEnds(c, Head(rx[c]))
          /\ rx' = [rx EXCEPT ![c] = Tail(@)]
          /\ UNCHANGED <<pc, lagged>>
    /\ UNCHANGED <<ltVars, engineVars, job, lock, got, missed>>

\* The client disconnects: the future is dropped where it waits.
CallDrop(c) ==
    /\ "drop" \in Env /\ pc[c] \in Waiting \cup {"locking"}
    /\ pc' = [pc EXCEPT ![c] = "dropped"]
    /\ Unsubscribe(c)
    /\ UNCHANGED <<ltVars, engineVars, job, lock, got, missed>>

ShutdownCancel ==
    /\ "shutdown" \in Env /\ shutdown = "no"
    /\ shutdown' = "cancelled"
    /\ UNCHANGED <<ltVars, handles, pending_deletes, op_locks, callVars>>

(***************************************************************************)
(* libtorrent (external).                                                  *)
(***************************************************************************)
Alert(t, op, out, key, of) ==
    [t |-> t, op |-> op, out |-> out, key |-> key, of |-> of]

LtAnswer(p) ==
    /\ p \in pending
    /\ pending' = pending \ {p}
    /\ \/ \E out \in {"ok", "failed"} :
            alerts' = Append(alerts, Alert(p[2].t, p[2].op, out, p[2].key, p[1]))
       \/ p[2].t \notin session /\ UNCHANGED alerts
    /\ UNCHANGED <<session, alive, added, removing, deleting, deleted, noise,
                   engineVars, callVars>>

\* What nobody asked for: an automatic scrape, or any other alert.
LtNoise(t) ==
    /\ noise < MaxNoise /\ t \in session
    /\ noise' = noise + 1
    /\ \/ alerts' = Append(alerts, Alert(t, "other", "ok", NoKey, NoCall))
       \/ \E k \in Trackers \cup {NoKey} : alerts' =
            Append(alerts, Alert(t, "scrape_tracker", "ok", k, NoCall))
    /\ UNCHANGED <<session, alive, added, pending, removing, deleting, deleted,
                   engineVars, callVars>>

LtRemove(t) ==
    /\ t \in removing
    /\ removing' = removing \ {t}
    /\ session' = session \ {t}
    /\ deleting' = IF t \in session THEN Append(deleting, t) ELSE deleting
    /\ alerts' = IF t \in session
                 THEN Append(alerts, Alert(t, "removed", "ok", NoKey, NoCall))
                 ELSE alerts
    /\ UNCHANGED <<alive, added, pending, deleted, noise, engineVars, callVars>>

LtExpire(t) ==
    /\ t \in alive \ session /\ \A p \in pending : p[2].t # t
    /\ alive' = alive \ {t}
    /\ UNCHANGED <<session, added, pending, removing, deleting, deleted, alerts,
                   noise, engineVars, callVars>>

\* The files are deleted, or cannot be; the alert names the torrent by its
\* hashes only, so `t` below stands for these until the pump attributes it.
LtDelete ==
    /\ deleting # <<>>
    /\ deleting' = Tail(deleting)
    /\ \E out \in {"ok", "failed"} :
         /\ deleted' = IF out = "ok" THEN deleted \cup {Head(deleting)}
                                      ELSE deleted
         /\ alerts' = Append(alerts, Alert(Head(deleting), "delete_files", out,
                                           NoKey, NoCall))
    /\ UNCHANGED <<session, alive, added, pending, removing, noise, engineVars,
                   callVars>>

\* The torrent is added once more, under a new uuid, after its removal.
LtAdd(t) ==
    /\ "readd" \in Env /\ t \notin added
    /\ added' = added \cup {t}
    /\ \A u \in session : Hashes[u] \cap Hashes[t] = {}
    /\ session' = session \cup {t}
    /\ alive' = alive \cup {t}
    /\ handles' = handles \cup {t}
    /\ UNCHANGED <<pending, removing, deleting, deleted, alerts, noise,
                   pending_deletes, op_locks, shutdown, callVars>>

(***************************************************************************)
(* The pump publishes what an alert says, attributed to a torrent.         *)
(***************************************************************************)
torrent_of(a) == IF a.t \in alive THEN a.t ELSE NoTorrent

FirstOverlap(h) ==
    LET hits == {i \in 1 .. Len(pending_deletes) :
                   pending_deletes[i].hashes \cap h # {}}
    IN IF hits = {} THEN 0 ELSE CHOOSE i \in hits : \A j \in hits : i <= j

PumpPublish ==
    /\ alerts # <<>> /\ Head(alerts).op \notin {"removed", "delete_files"}
    /\ publish([Head(alerts) EXCEPT !.t = torrent_of(Head(alerts))])
    /\ alerts' = Tail(alerts)
    /\ UNCHANGED <<session, alive, added, pending, removing, deleting, deleted, noise,
                   engineVars, pc, job, lock, got>>

PumpRemoved ==
    /\ alerts # <<>> /\ Head(alerts).op = "removed"
    /\ handles' = handles \ {Head(alerts).t}
    /\ publish(Head(alerts))
    /\ alerts' = Tail(alerts)
    /\ UNCHANGED <<session, alive, added, pending, removing, deleting, deleted, noise,
                   pending_deletes, op_locks, shutdown, pc, job, lock, got>>

PumpDeleted ==
    /\ alerts # <<>> /\ Head(alerts).op = "delete_files"
    /\ LET i == FirstOverlap(Hashes[Head(alerts).t])
       IN IF i = 0
          THEN /\ publish([Head(alerts) EXCEPT !.t = NoTorrent])
               /\ UNCHANGED pending_deletes
          ELSE /\ publish([Head(alerts) EXCEPT !.t = pending_deletes[i].t])
               /\ pending_deletes' = Without(pending_deletes, i)
    /\ alerts' = Tail(alerts)
    /\ UNCHANGED <<session, alive, added, pending, removing, deleting, deleted, noise,
                   handles, op_locks, shutdown, pc, job, lock, got>>

(***************************************************************************)
(* The specification.                                                      *)
(***************************************************************************)
Make(c) == \E j \in Jobs : \/ CallRequest(c, j) \/ CallSerialized(c, j)
                           \/ CallScrape(c, j)  \/ CallDelete(c, j)

Step(c) ==
    \/ AcquireLock(c) \/ PostLocked(c)
    \/ RecvLagged(c) \/ RecvOther(c) \/ RecvTrackers(c) \/ RecvAnswer(c)
    \/ WaitCancelled(c) \/ Drain(c)

Pump == PumpPublish \/ PumpRemoved \/ PumpDeleted

Libtorrent ==
    \/ \E p \in pending : LtAnswer(p)
    \/ \E t \in Torrents : LtRemove(t)
    \/ LtDelete

Next ==
    \/ \E c \in Calls : Make(c) \/ Step(c) \/ WaitTimeout(c) \/ CallDrop(c)
    \/ Pump \/ Libtorrent \/ ShutdownCancel
    \/ \E t \in Torrents : LtNoise(t) \/ LtExpire(t) \/ LtAdd(t)

Spec == Init /\ [][Next]_vars

\* Tasks and libtorrent run, timers fire; the mutex of tokio serves its
\* waiters in order.
FairSpec ==
    /\ Spec
    /\ WF_vars(Pump)
    /\ WF_vars(LtDelete) /\ \A t \in Torrents : WF_vars(LtRemove(t))
    /\ \A c \in Calls : /\ WF_vars(Step(c))
                        /\ WF_vars(WaitTimeout(c))
                        /\ SF_vars(AcquireLock(c))
                        /\ WF_vars(\E p \in pending : p[1] = c /\ LtAnswer(p))

(***************************************************************************)
(* Properties.                                                             *)
(***************************************************************************)
Unfinished(c) ==
    \/ \E p \in pending : p[1] = c /\ p[2].op = job[c].op
    \/ \E i \in 1 .. Len(alerts) : alerts[i].of = c /\ alerts[i].op = job[c].op

\* A dropped caller or a lagged drainer gives its lock up early.  The call
\* that gets the lock next may take the late answer for its own and give up
\* the lock in turn: every later call of that torrent and class is affected.
Disturbed(k) ==
    \E b \in Calls : (b \in missed \/ pc[b] = "dropped") /\ LockKey(b) = k

\* Two moves, or two renames, of one torrent never run at the same time
\* inside libtorrent: the lock outlives the wait (correlate.rs:75-84), unless
\* one of them gave it up early.
OneInFlight ==
    \A c, d \in Calls :
        /\ c # d /\ Unfinished(c) /\ Unfinished(d)
        /\ job[c].op \in {"move_storage", "rename_file"}
        /\ LockKey(c) = LockKey(d)
        => \/ Disturbed(LockKey(c))
           \/ shutdown = "cancelled" \/ job[c].t \notin session

\* What a move or a rename returns is the answer to itself, never the late
\* answer to an earlier call on the torrent (mod.rs, OpClass), with the same
\* exception; and a piece that is returned is the piece that was asked for.
OwnAnswer ==
    \A c \in Calls :
        pc[c] \in {"ok", "err"} /\ got[c] \notin {NoCall, c}
        => /\ job[c].op \in {"move_storage", "rename_file"}
                => Disturbed(LockKey(c))
           /\ job[c].op = "read_piece" => job[got[c]].key = job[c].key

\* The response cannot slip by between posting and listening: while a call
\* waits, the answer to it is still to come or waits in its receiver.
AnswerNotMissed ==
    \A c \in Calls :
        pc[c] = "waiting" /\ job[c].op # "delete_files" /\ c \notin missed
        => \/ Unfinished(c)
           \/ \E i \in 1 .. Len(rx[c]) : Answers(c, rx[c][i])
           \/ job[c].t \notin session

\* A removal with files that succeeds means that the files of this torrent
\* are gone (mod.rs:697), unless another removal gave up waiting for its own
\* deletion.  With three entries parked at once, two of them of one content, it
\* is false: taking one out changes the order of the others (pump.rs:444).
GaveUp(c) == \/ pc[c] \in {"timeout", "dropped"}
             \/ pc[c] = "err" /\ shutdown = "cancelled"

Deletes(c) == job[c].op = "delete_files"

DeletedMeansGone ==
    \A c \in Calls :
        pc[c] = "ok" /\ Deletes(c)
        => \/ job[c].t \in deleted
           \/ \E d \in Calls \ {c} : Deletes(d) /\ GaveUp(d)

\* Whoever else gives up, a removal with files that succeeds means that the
\* files of a torrent with this content are gone.
SameContentDeleted ==
    \A c \in Calls :
        pc[c] = "ok" /\ Deletes(c)
        => \E t \in deleted : Hashes[t] \cap Hashes[job[c].t] # {}

\* Every call returns and every lock comes back, as long as the torrent
\* stays and no receiver lost an event before its deadline.
EveryCallReturns ==
    \A c \in Calls : pc[c] \in Waiting \cup {"locking", "locked", "draining"}
        ~> \/ pc[c] \in {"ok", "err", "timeout", "dropped"}
           \/ missed # {} \/ job[c].t \notin session

\* The lock is released once the torrent goes away (correlate.rs:82-84):
\* nobody waits for ever for the lock of a torrent that is gone.
GoneMeansUnlocked ==
    \A c \in Calls : pc[c] = "locking" /\ job[c].t \notin session
        ~> pc[c] # "locking" \/ missed # {}
=============================================================================
