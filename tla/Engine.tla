-------------------------------- MODULE Engine --------------------------------
(***************************************************************************)
(* The torrent engine of rsbtd: the life of a torrent in the daemon, the   *)
(* pipeline that carries its resume data to disk, and the shutdown that    *)
(* flushes it (rsbtd/src/engine/mod.rs, pump.rs, persist.rs, registry.rs,  *)
(* with the part of rbtorrent/src/alerts/requests.rs they rest on).        *)
(*                                                                         *)
(* The actors run concurrently and share the registry, the set of dirty    *)
(* torrents, the in-flight counter and two queues:                         *)
(*   - libtorrent (external): performs what was posted and queues alerts;  *)
(*   - the pump: pops every queued alert at once, handles them one by one, *)
(*     then sends the collected operations to the bounded persist queue;   *)
(*   - the persister: performs the queued operations on disk, in order;    *)
(*   - API calls: one add, one remove and one save call per torrent;       *)
(*   - the sweep, and the shutdown with its final flush.                   *)
(*                                                                         *)
(* A torrent t stands for one add: the uuid, the client-data token and the *)
(* session id it gets are all fresh, so one identity represents the three. *)
(* The content of a torrent is its version ver[t], the number of changes   *)
(* since the add; a resume record is the version it was generated from.    *)
(***************************************************************************)
EXTENDS Integers, Sequences, FiniteSets

CONSTANTS
    Torrents,   \* the torrents that are ever added or restored
    Tokens,     \* bound: saves in flight at one time; each holds one token
    NoToken,    \* the token of an alert or operation that carries none
    QueueCap,   \* PERSIST_QUEUE_CAPACITY
    MaxVer,     \* bound: changes of one torrent
    Env         \* which behaviours of the surroundings are explored

(***************************************************************************)
(* "add", "remove", "save", "shutdown": the clients make these calls;      *)
(* "race": clients and libtorrent act on a torrent before the add call     *)
(* that created it has returned, "earlyRace": even before that call has    *)
(* registered it; "drop": the future of a call is dropped because its      *)
(* client disconnected; "timeout": waits and the grace period may expire;  *)
(* "change", "finished", "moved": what torrents do;                        *)
(* "writeFails", "deleteFails", "serializeFails": failing I/O.             *)
(***************************************************************************)
EnvSwitches == {"add", "remove", "save", "shutdown", "race", "earlyRace",
                "drop", "timeout", "change", "finished", "moved",
                "writeFails", "deleteFails", "serializeFails"}

ASSUME TokensAssumption == IsFiniteSet(Tokens) /\ NoToken \notin Tokens
ASSUME QueueCapAssumption == QueueCap \in Nat \ {0}
ASSUME MaxVerAssumption == MaxVer \in Nat
ASSUME EnvAssumption == Env \subseteq EnvSwitches

VARIABLES
    \* libtorrent and the wrapper around it
    life,       \* where the torrent is in its life in the session
    ver,        \* its current version
    need,       \* torrents with need_save_resume_data set
    posted,     \* save requests posted and not yet answered
    rmPosted,   \* torrents whose removal was posted and not yet performed
    alerts,     \* the unlimited alert queue
    handles,    \* torrents find_torrent_by_token resolves
    \* state shared by the tasks of the engine
    registry,   \* registered torrents
    dirty,      \* DirtyResume
    inflight,   \* Inflight.count
    process,    \* whether the process aborted in `fatal`
    queue,      \* the persist queue
    disk,       \* version in <uuid>.resume, or NoFile
    \* the tasks
    pc, batch, ops, todo, budget,      \* the pump
    current,                           \* the operation the persister runs
    apc, addId,                        \* add_torrent calls
    rpc,                               \* remove_torrent calls
    spc,                               \* save_resume_data calls
    sweepTodo,                         \* the rest of a sweep
    sd, ckTodo, flushed,               \* the shutdown
    \* history, which no action of the code reads
    token,      \* where each in-flight token is
    flushVer,   \* the version the final flush saw, NoFile before it
    flushFailed,\* torrents with a failed write after the flush saw them
    undeleted   \* torrents whose resume file a lost or failed delete left

ltVars == <<life, ver, need, posted, rmPosted, alerts, handles>>
shared == <<registry, dirty, inflight, process, queue, disk>>
pumpVars == <<pc, batch, ops, todo, budget>>
calls == <<apc, addId, rpc, spc>>
shutVars == <<sd, ckTodo, flushed>>
observed == <<flushVer, flushFailed, undeleted>>
history == <<token, observed>>
vars == <<ltVars, shared, pumpVars, current, calls, sweepTodo, shutVars,
          history>>

NoFile == -1
Lives == {"none", "adding", "failed", "live", "removed", "gone"}
AlertKinds == {"added", "addFailed", "removed", "finished", "moved",
               "saved", "saveFailed"}
Stages == {"free", "posted", "alert", "batch", "op", "sending", "queue",
           "writing", "leaked"}
PumpStates == {"select", "handle", "save", "send", "retry", "stopped"}
AddStates == {"idle", "posted", "resolved", "registered", "sending", "acking",
              "acked", "nacked", "deleting", "ok", "err", "dropped",
              "restored"}
CallStates == {"idle", "waiting", "ok", "err"}
Phases == {"run", "quiesced", "flush", "wait", "state", "stateAck", "closed",
           "drain", "done"}

SaveRequest == [t : Torrents, id : Tokens, flag : {"always", "ifModified"}]
Alert == [kind : AlertKinds, t : Torrents, id : Tokens \cup {NoToken}, v : Int]
WriteOp == [kind : {"write"}, t : Torrents, id : Tokens, v : Int,
            ack : {"add", "none"}]
DeleteOp == [kind : {"delete"}, t : Torrents]
StateOp == [kind : {"state"}]
PersistOp == WriteOp \cup DeleteOp \cup StateOp

PlainAlert(k, t) == [kind |-> k, t |-> t, id |-> NoToken, v |-> 0]

(***************************************************************************)
(* Types, and the initial state: the engine has started and restored some  *)
(* torrents, whose records are on disk and untouched.                      *)
(***************************************************************************)
LtTypeOK ==
    /\ life \in [Torrents -> Lives]
    /\ ver \in [Torrents -> Nat]
    /\ need \subseteq Torrents
    /\ posted \subseteq SaveRequest
    /\ rmPosted \subseteq Torrents
    /\ alerts \in Seq(Alert)
    /\ handles \subseteq Torrents

SharedTypeOK ==
    /\ registry \subseteq Torrents
    /\ dirty \subseteq Torrents
    /\ inflight \in Nat
    /\ process \in {"up", "aborted"}
    /\ queue \in Seq(PersistOp)
    /\ disk \in [Torrents -> Int]

PumpTypeOK ==
    /\ pc \in PumpStates
    /\ batch \in Seq(Alert)
    /\ ops \in Seq(PersistOp)
    /\ todo \subseteq Torrents
    /\ budget \in Int

CallsTypeOK ==
    /\ apc \in [Torrents -> AddStates]
    /\ addId \in [Torrents -> Tokens \cup {NoToken}]
    /\ rpc \in [Torrents -> CallStates]
    /\ spc \in [Torrents -> CallStates]

TasksTypeOK ==
    /\ current \in Seq(PersistOp)
    /\ sweepTodo \subseteq Torrents
    /\ sd \in Phases
    /\ ckTodo \subseteq Torrents
    /\ flushed \in {"no", "clean", "late"}

HistoryTypeOK ==
    /\ token \in [Tokens -> Stages]
    /\ flushVer \in [Torrents -> Int]
    /\ flushFailed \subseteq Torrents
    /\ undeleted \subseteq Torrents

TypeOK ==
    /\ LtTypeOK /\ SharedTypeOK /\ PumpTypeOK
    /\ CallsTypeOK /\ TasksTypeOK /\ HistoryTypeOK

Init ==
    /\ registry \in SUBSET Torrents
    /\ handles = registry
    /\ life = [t \in Torrents |-> IF t \in registry THEN "live" ELSE "none"]
    /\ disk = [t \in Torrents |-> IF t \in registry THEN 0 ELSE NoFile]
    /\ apc = [t \in Torrents |-> IF t \in registry THEN "restored" ELSE "idle"]
    /\ ver = [t \in Torrents |-> 0]
    /\ need = {}
    /\ posted = {} /\ rmPosted = {} /\ alerts = <<>>
    /\ dirty = {} /\ inflight = 0 /\ process = "up" /\ queue = <<>>
    /\ pc = "select" /\ batch = <<>> /\ ops = <<>> /\ todo = {} /\ budget = 0
    /\ current = <<>>
    /\ addId = [t \in Torrents |-> NoToken]
    /\ rpc = [t \in Torrents |-> "idle"]
    /\ spc = [t \in Torrents |-> "idle"]
    /\ sweepTodo = {} /\ sd = "run" /\ ckTodo = {} /\ flushed = "no"
    /\ token = [id \in Tokens |-> "free"]
    /\ flushVer = [t \in Torrents |-> NoFile]
    /\ flushFailed = {} /\ undeleted = {}

(***************************************************************************)
(* What the shutdown phase means to the other tasks.                       *)
(***************************************************************************)
Quiesced == sd # "run"          \* quiesce flag set, shutdown token cancelled
SessionOpen == sd \notin {"closed", "drain", "done"}
PersistOpen == sd \notin {"drain", "done"}

AddRunning(t) == apc[t] \in {"posted", "resolved", "registered", "sending",
                             "acking", "acked", "nacked", "deleting"}
\* Unless races with the add call are explored, the surroundings leave a
\* torrent alone until its add call has returned.
Settled(t) ==
    \/ ~AddRunning(t)
    \/ "race" \in Env /\ apc[t] \notin {"posted", "resolved"}
    \/ "earlyRace" \in Env

(***************************************************************************)
(* Wrong variants of definitions below, each with a bug the code could     *)
(* have had.  The specification does not use them; put in the place of the *)
(* right ones, they show what the properties would notice.                 *)
(***************************************************************************)
\* A save posted without taking a token.
PostSaveUncounted(t, flag) ==
    \E id \in Tokens :
        /\ token[id] = "free"
        /\ token' = [token EXCEPT ![id] = "posted"]
        /\ posted' = posted \cup
                       {[t |-> t, id |-> id, flag |-> flag]}
        /\ UNCHANGED inflight

\* A response that is handled without a release.
DecForgotten(id) ==
    /\ token' = [token EXCEPT ![id] = "free"]
    /\ UNCHANGED <<inflight, process>>

DecNever(id) == UNCHANGED <<inflight, process, token>>

\* The pump hands its operations over last one first.
PumpSendLastFirst ==
    /\ pc = "send"
    /\ \/ /\ ops = <<>>
          /\ pc' = "select"
          /\ UNCHANGED <<queue, ops, token>>
       \/ /\ ops # <<>> /\ Len(queue) < QueueCap
          /\ LET last == ops[Len(ops)]
             IN /\ queue' = Append(queue, last)
                /\ token' = IF last.kind = "write"
                            THEN [token EXCEPT ![last.id] = "queue"] ELSE token
          /\ ops' = SubSeq(ops, 1, Len(ops) - 1)
          /\ UNCHANGED pc
    /\ UNCHANGED <<ltVars, registry, dirty, inflight, process, disk, batch, todo,
                   budget, current, calls, sweepTodo, shutVars, observed>>

\* A removal that leaves the resume file alone.
WithoutDelete(t) == ops

\* The flush asks libtorrent only.
WorthFlushingIfNeeded(t) == t \in need

\* The add is acknowledged when its record is queued.
AddSendAcked(t) ==
    /\ apc[t] = "sending" /\ Len(queue) < QueueCap
    /\ queue' = Append(queue, [kind |-> "write", t |-> t, id |-> addId[t],
                               v |-> 0, ack |-> "add"])
    /\ token' = [token EXCEPT ![addId[t]] = "queue"]
    /\ addId' = [addId EXCEPT ![t] = NoToken]
    /\ apc' = [apc EXCEPT ![t] = "acked"]
    /\ UNCHANGED <<ltVars, registry, dirty, inflight, process, disk, pumpVars,
                   current, rpc, spc, sweepTodo, shutVars, observed>>

\* The add does not look whether the torrent was removed meanwhile.
AddAckedUnchecked(t) ==
    /\ apc[t] = "acked"
    /\ apc' = [apc EXCEPT ![t] = "ok"]
    /\ UNCHANGED <<ltVars, shared, pumpVars, current, addId, rpc, spc,
                   sweepTodo, shutVars, history>>

(***************************************************************************)
(* In-flight accounting.  An accepted save_resume_data post (inc, post) is *)
(* one step; a refused one (inc, refused, dec) changes nothing.  Dec is    *)
(* the strict decrement; at zero it ends the process, which the model      *)
(* records in process instead of stopping.                                 *)
(***************************************************************************)
Accepted(t) == life[t] # "gone"

PostSave(t, flag) ==
    \E id \in Tokens :
        /\ token[id] = "free"
        /\ token' = [token EXCEPT ![id] = "posted"]
        /\ posted' = posted \cup
                       {[t |-> t, id |-> id, flag |-> flag]}
        /\ inflight' = inflight + 1

NoPost == UNCHANGED <<token, posted, inflight>>

Dec(id) ==
    /\ process' = IF inflight = 0 THEN "aborted" ELSE process
    /\ inflight' = IF inflight = 0 THEN 0 ELSE inflight - 1
    /\ token' = [token EXCEPT ![id] = "free"]

\* The outcome an event gives to the call that waits for it, if one does.
Answer(call, t, outcome) ==
    [call EXCEPT ![t] = IF @ = "waiting" THEN outcome ELSE @]

(***************************************************************************)
(* The registry: its indexes by uuid, id and token hold the same torrents. *)
(***************************************************************************)
upsert(t) == registry \cup {t}
unregister(t) == registry \ {t}

(***************************************************************************)
(* libtorrent (external).                                                  *)
(***************************************************************************)
LtAdd(t) ==
    /\ life[t] = "adding"
    /\ \/ /\ life' = [life EXCEPT ![t] = "live"]
          /\ alerts' = Append(alerts, PlainAlert("added", t))
       \/ /\ life' = [life EXCEPT ![t] = "failed"]
          /\ alerts' = Append(alerts, PlainAlert("addFailed", t))
    /\ UNCHANGED <<ver, need, posted, rmPosted, handles, shared, pumpVars,
                   current, calls, sweepTodo, shutVars, history>>

\* A removal is announced while the handles still work; see LtExpire.
LtRemove(t) ==
    /\ t \in rmPosted
    /\ rmPosted' = rmPosted \ {t}
    /\ IF life[t] = "live"
       THEN /\ life' = [life EXCEPT ![t] = "removed"]
            /\ alerts' = Append(alerts, PlainAlert("removed", t))
       ELSE UNCHANGED <<life, alerts>>
    /\ UNCHANGED <<ver, need, posted, handles, shared, pumpVars, current,
                   calls, sweepTodo, shutVars, history>>

\* The last reference to a removed torrent goes: its handles are expired.
LtExpire(t) ==
    /\ life[t] = "removed"
    /\ \A p \in posted : p.t # t
    /\ life' = [life EXCEPT ![t] = "gone"]
    /\ UNCHANGED <<ver, need, posted, rmPosted, alerts, handles, shared,
                   pumpVars, current, calls, sweepTodo, shutVars, history>>

\* Every accepted save gets exactly one answer, generated when it is given.
LtAnswerSave(p) ==
    /\ p \in posted
    /\ posted' = posted \ {p}
    /\ token' = [token EXCEPT ![p.id] = "alert"]
    /\ IF life[p.t] = "live" /\ (p.t \in need \/ p.flag = "always")
       THEN /\ need' = need \ {p.t}
            /\ alerts' = Append(alerts, [kind |-> "saved", t |-> p.t,
                                         id |-> p.id, v |-> ver[p.t]])
       ELSE /\ alerts' = Append(alerts, [kind |-> "saveFailed", t |-> p.t,
                                         id |-> p.id, v |-> 0])
            /\ UNCHANGED need
    /\ UNCHANGED <<life, ver, rmPosted, handles, shared, pumpVars, current,
                   calls, sweepTodo, shutVars, observed>>

\* A change that sets the need-save flag and is not announced.
LtChange(t) ==
    /\ "change" \in Env
    /\ life[t] = "live" /\ ver[t] < MaxVer /\ Settled(t)
    /\ ver' = [ver EXCEPT ![t] = @ + 1]
    /\ need' = need \cup {t}
    /\ UNCHANGED <<life, posted, rmPosted, alerts, handles, shared, pumpVars,
                   current, calls, sweepTodo, shutVars, history>>

\* The download finished, or the metadata of a magnet link arrived.
LtFinished(t) ==
    /\ "finished" \in Env
    /\ life[t] = "live" /\ ver[t] < MaxVer /\ Settled(t)
    /\ ver' = [ver EXCEPT ![t] = @ + 1]
    /\ need' = need \cup {t}
    /\ alerts' = Append(alerts, PlainAlert("finished", t))
    /\ UNCHANGED <<life, posted, rmPosted, handles, shared, pumpVars, current,
                   calls, sweepTodo, shutVars, history>>

\* The storage of a torrent without metadata moved: the flag is not set.
LtMoved(t) ==
    /\ "moved" \in Env
    /\ life[t] = "live" /\ ver[t] < MaxVer /\ Settled(t)
    /\ ver' = [ver EXCEPT ![t] = @ + 1]
    /\ alerts' = Append(alerts, PlainAlert("moved", t))
    /\ UNCHANGED <<life, need, posted, rmPosted, handles, shared, pumpVars,
                   current, calls, sweepTodo, shutVars, history>>

(***************************************************************************)
(* The alert pump.                                                         *)
(***************************************************************************)
Announced(k, t) ==
    \E i \in 1 .. Len(alerts) : alerts[i].kind = k /\ alerts[i].t = t

\* next_batch: pops all pending alerts, and resolves add futures and the
\* handles map for the whole batch before the first alert is handled.
PumpPop ==
    /\ pc = "select" /\ sd # "closed" /\ alerts # <<>>
    /\ batch' = alerts /\ alerts' = <<>> /\ pc' = "handle"
    /\ handles' = {t \in Torrents : /\ t \in handles \/ Announced("added", t)
                                    /\ ~Announced("removed", t)}
    /\ apc' = [t \in Torrents |->
                 IF apc[t] = "posted" /\ Announced("added", t)
                 THEN "resolved"
                 ELSE IF apc[t] = "posted" /\ Announced("addFailed", t)
                 THEN "err" ELSE apc[t]]
    /\ token' = [id \in Tokens |-> IF token[id] = "alert" THEN "batch"
                                                          ELSE token[id]]
    /\ UNCHANGED <<life, ver, need, posted, rmPosted, shared, ops, todo,
                   budget, current, addId, rpc, spc, sweepTodo, shutVars,
                   observed>>

\* The first alert of the batch is of kind k and is being consumed.
Consume(k) ==
    /\ pc = "handle" /\ batch # <<>> /\ Head(batch).kind = k
    /\ batch' = Tail(batch)
    /\ pc' = IF Len(batch) = 1 THEN "send" ELSE "handle"

HandleAddFailed ==
    /\ Consume("addFailed")
    /\ UNCHANGED <<ltVars, shared, ops, todo, budget, current, calls,
                   sweepTodo, shutVars, history>>

\* Registers the torrent unless it already vanished from the session.
HandleAdded ==
    /\ Consume("added")
    /\ LET t == Head(batch).t
       IN registry' = IF life[t] # "gone" /\ t \in handles
                      THEN upsert(t) ELSE registry
    /\ UNCHANGED <<ltVars, dirty, inflight, process, queue, disk, ops, todo,
                   budget, current, calls, sweepTodo, shutVars, history>>

WithDelete(t) == Append(ops, [kind |-> "delete", t |-> t])

HandleRemoved ==
    /\ Consume("removed")
    /\ LET t == Head(batch).t
       IN IF t \in registry
          THEN /\ registry' = unregister(t)
               /\ dirty' = dirty \ {t}
               /\ ops' = WithDelete(t)
               /\ rpc' = Answer(rpc, t, "ok")
          ELSE UNCHANGED <<registry, dirty, ops, rpc>>
    /\ UNCHANGED <<ltVars, inflight, process, queue, disk, todo, budget, current,
                   apc, addId, spc, sweepTodo, shutVars, history>>

\* The saves these alerts trigger are unconditional: after a move without
\* metadata libtorrent does not consider the torrent modified.
TriggerFlag == "always"

\* request_save, first half: nothing while quiescing.  The flag is read
\* here and the save posted in RequestSave: the shutdown may start between.
HandleSaveTrigger ==
    /\ pc = "handle" /\ batch # <<>>
    /\ Head(batch).kind \in {"finished", "moved"}
    /\ IF Quiesced
       THEN Consume(Head(batch).kind)
       ELSE pc' = "save" /\ UNCHANGED batch
    /\ UNCHANGED <<ltVars, shared, ops, todo, budget, current, calls,
                   sweepTodo, shutVars, history>>

\* request_save, second half.
RequestSave ==
    /\ pc = "save"
    /\ LET t == Head(batch).t
       IN IF t \in registry /\ t \in handles /\ Accepted(t)
          THEN PostSave(t, TriggerFlag) ELSE NoPost
    /\ batch' = Tail(batch)
    /\ pc' = IF Len(batch) = 1 THEN "send" ELSE "handle"
    /\ UNCHANGED <<life, ver, need, rmPosted, alerts, handles, registry, dirty,
                   process, queue, disk, ops, todo, budget, current, calls,
                   sweepTodo, shutVars, observed>>

\* The torrent was not removed while the save was in flight.
StillRegistered(t) == t \in registry /\ life[t] # "gone"

HandleSaved ==
    /\ Consume("saved")
    /\ LET a == Head(batch)
       IN \/ /\ StillRegistered(a.t)
             /\ ops' = Append(ops, [kind |-> "write", t |-> a.t, id |-> a.id,
                                    v |-> a.v, ack |-> "none"])
             /\ token' = [token EXCEPT ![a.id] = "op"]
             /\ UNCHANGED <<inflight, process, spc>>
          \/ /\ ~StillRegistered(a.t)
             /\ Dec(a.id)
             /\ UNCHANGED <<ops, spc>>
          \/ /\ "serializeFails" \in Env
             /\ StillRegistered(a.t)
             /\ Dec(a.id)
             /\ spc' = Answer(spc, a.t, "err")
             /\ UNCHANGED ops
    /\ UNCHANGED <<ltVars, registry, dirty, queue, disk, todo, budget, current,
                   apc, addId, rpc, sweepTodo, shutVars, observed>>

HandleSaveFailed ==
    /\ Consume("saveFailed")
    /\ LET a == Head(batch)
       IN /\ Dec(a.id)
          /\ spc' = IF /\ life[a.t] # "gone"
                       /\ a.t \in registry \/ a.t \in handles
                    THEN Answer(spc, a.t, "err") ELSE spc
    /\ UNCHANGED <<ltVars, registry, dirty, queue, disk, ops, todo, budget,
                   current, apc, addId, rpc, sweepTodo, shutVars, observed>>

\* Sends the collected operations; a full persist queue blocks the pump.
PumpSend ==
    /\ pc = "send"
    /\ \/ /\ ops = <<>>
          /\ pc' = "select"
          /\ UNCHANGED <<queue, ops, token>>
       \/ /\ ops # <<>> /\ Len(queue) < QueueCap
          /\ queue' = Append(queue, Head(ops))
          /\ ops' = Tail(ops)
          /\ token' = IF Head(ops).kind = "write"
                      THEN [token EXCEPT ![Head(ops).id] = "queue"] ELSE token
          /\ UNCHANGED pc
    /\ UNCHANGED <<ltVars, registry, dirty, inflight, process, disk, batch, todo,
                   budget, current, calls, sweepTodo, shutVars, observed>>

\* The retry tick: while something is dirty, unless quiescing.
RetryTick ==
    /\ pc = "select" /\ sd # "closed" /\ ~Quiesced /\ dirty # {}
    /\ pc' = "retry"
    /\ todo' = dirty
    /\ budget' = QueueCap - Len(queue)
    /\ UNCHANGED <<ltVars, shared, batch, ops, current, calls, sweepTodo,
                   shutVars, history>>

RetryVisit(t) ==
    /\ pc = "retry" /\ t \in todo
    /\ \/ /\ t \notin registry \/ t \notin handles
          /\ dirty' = dirty \ {t} /\ todo' = todo \ {t}
          /\ NoPost /\ UNCHANGED budget
       \/ /\ t \in registry /\ t \in handles /\ budget = 0
          /\ todo' = {}
          /\ NoPost /\ UNCHANGED <<dirty, budget>>
       \/ /\ t \in registry /\ t \in handles /\ budget # 0
          /\ budget' = budget - 1 /\ todo' = todo \ {t}
          /\ IF Accepted(t)
             THEN PostSave(t, "always") /\ UNCHANGED dirty
             ELSE NoPost /\ dirty' = dirty \ {t}
    /\ UNCHANGED <<life, ver, need, rmPosted, alerts, handles, registry,
                   process, queue, disk, pc, batch, ops, current, calls,
                   sweepTodo, shutVars, observed>>

RetryDone ==
    /\ pc = "retry" /\ todo = {}
    /\ pc' = "select"
    /\ UNCHANGED <<ltVars, shared, batch, ops, todo, budget, current, calls,
                   sweepTodo, shutVars, history>>

\* The stop signal comes first in the biased select.
PumpStop ==
    /\ pc = "select" /\ sd = "closed"
    /\ pc' = "stopped"
    /\ UNCHANGED <<ltVars, shared, batch, ops, todo, budget, current, calls,
                   sweepTodo, shutVars, history>>

\* The grace period ends while the pump waits to send: it is aborted and the
\* operations it had not sent are lost.
PumpAbort ==
    /\ "timeout" \in Env
    /\ sd = "closed" /\ pc = "send" /\ ops # <<>>
    /\ pc' = "stopped" /\ ops' = <<>>
    /\ undeleted' = undeleted \cup
         {t \in Torrents : \E i \in 1 .. Len(ops) :
                              ops[i].kind = "delete" /\ ops[i].t = t}
    /\ token' = [id \in Tokens |-> IF token[id] = "op" THEN "leaked"
                                                       ELSE token[id]]
    /\ UNCHANGED <<ltVars, shared, batch, todo, budget, current, calls,
                   sweepTodo, shutVars, flushVer, flushFailed>>

(***************************************************************************)
(* The persister.                                                          *)
(***************************************************************************)
PersistRecv ==
    /\ current = <<>> /\ queue # <<>>
    /\ current' = <<Head(queue)>>
    /\ queue' = Tail(queue)
    /\ token' = IF Head(queue).kind = "write"
                THEN [token EXCEPT ![Head(queue).id] = "writing"] ELSE token
    /\ UNCHANGED <<ltVars, registry, dirty, inflight, process, disk, pumpVars,
                   calls, sweepTodo, shutVars, observed>>

\* A failed write is only logged.
MarkNothing(t) == dirty

\* The file on disk is not what it should be: the pump retries.
MarkDirty(t) == dirty \cup {t}

\* The rename replaces the whole file; when an earlier step fails the file
\* stays as it was.
write_atomic(t, v) == [disk EXCEPT ![t] = v]

\* The write, the dirty mark, the events, and the release of the token.
PersistWrite ==
    /\ current # <<>> /\ current[1].kind = "write"
    /\ LET op == current[1]
       IN /\ \/ /\ disk' = write_atomic(op.t, op.v)
                /\ dirty' = dirty \ {op.t}
                /\ spc' = Answer(spc, op.t, "ok")
                /\ apc' = IF op.ack = "add" /\ apc[op.t] = "acking"
                          THEN [apc EXCEPT ![op.t] = "acked"] ELSE apc
                /\ UNCHANGED flushFailed
             \/ /\ "writeFails" \in Env
                /\ dirty' = MarkDirty(op.t)
                /\ spc' = Answer(spc, op.t, "err")
                /\ apc' = IF op.ack = "add" /\ apc[op.t] = "acking"
                          THEN [apc EXCEPT ![op.t] = "nacked"] ELSE apc
                /\ flushFailed' = IF flushVer[op.t] # NoFile
                                  THEN flushFailed \cup {op.t} ELSE flushFailed
                /\ UNCHANGED disk
          /\ Dec(op.id)
    /\ current' = <<>>
    /\ UNCHANGED <<ltVars, registry, queue, pumpVars, addId, rpc, sweepTodo,
                   shutVars, flushVer, undeleted>>

\* A delete that fails is only logged.
PersistDelete ==
    /\ current # <<>> /\ current[1].kind = "delete"
    /\ LET t == current[1].t
       IN \/ /\ disk' = [disk EXCEPT ![t] = NoFile]
             /\ UNCHANGED undeleted
          \/ /\ "deleteFails" \in Env /\ disk[t] # NoFile
             /\ undeleted' = undeleted \cup {t}
             /\ UNCHANGED disk
    /\ current' = <<>>
    /\ UNCHANGED <<ltVars, registry, dirty, inflight, process, queue, pumpVars,
                   calls, sweepTodo, shutVars, token, flushVer, flushFailed>>

PersistState ==
    /\ current # <<>> /\ current[1].kind = "state"
    /\ current' = <<>>
    /\ sd' = IF sd = "stateAck" THEN "closed" ELSE sd
    /\ UNCHANGED <<ltVars, shared, pumpVars, calls, sweepTodo, ckTodo, flushed,
                   history>>

(***************************************************************************)
(* Engine::add_torrent, one step between two await points or two accesses  *)
(* of shared state.                                                        *)
(***************************************************************************)
AddCall(t) ==
    /\ "add" \in Env /\ SessionOpen
    /\ apc[t] = "idle"
    /\ apc' = [apc EXCEPT ![t] = "posted"]
    /\ life' = [life EXCEPT ![t] = "adding"]
    /\ UNCHANGED <<ver, need, posted, rmPosted, alerts, handles, shared,
                   pumpVars, current, addId, rpc, spc, sweepTodo, shutVars,
                   history>>

\* The continuation registers the torrent, unless its handle is expired.
AddRegister(t) ==
    /\ apc[t] = "resolved"
    /\ IF life[t] = "gone"
       THEN /\ apc' = [apc EXCEPT ![t] = "err"]
            /\ UNCHANGED registry
       ELSE /\ apc' = [apc EXCEPT ![t] = "registered"]
            /\ registry' = upsert(t)
    /\ UNCHANGED <<ltVars, dirty, inflight, process, queue, disk, pumpVars,
                   current, addId, rpc, spc, sweepTodo, shutVars, history>>

\* unwind_failed_add
Unwind(t) ==
    /\ apc' = [apc EXCEPT ![t] = "err"]
    /\ dirty' = dirty \ {t}
    /\ registry' = unregister(t)
    /\ rmPosted' = IF SessionOpen /\ t \in handles
                   THEN rmPosted \cup {t} ELSE rmPosted

\* Serializes the original parameters (version 0), takes a token and a
\* sender of the persist queue.
AddEnqueue(t) ==
    /\ apc[t] = "registered"
    /\ \/ /\ PersistOpen
          /\ \E id \in Tokens :
                /\ token[id] = "free"
                /\ token' = [token EXCEPT ![id] = "sending"]
                /\ addId' = [addId EXCEPT ![t] = id]
          /\ inflight' = inflight + 1
          /\ apc' = [apc EXCEPT ![t] = "sending"]
          /\ UNCHANGED <<dirty, registry, rmPosted>>
       \/ /\ ~PersistOpen \/ "serializeFails" \in Env
          /\ Unwind(t)
          /\ UNCHANGED <<token, addId, inflight>>
    /\ UNCHANGED <<life, ver, need, posted, alerts, handles, process, queue,
                   disk, pumpVars, current, rpc, spc, sweepTodo, shutVars,
                   observed>>

AddSend(t) ==
    /\ apc[t] = "sending" /\ Len(queue) < QueueCap
    /\ queue' = Append(queue, [kind |-> "write", t |-> t, id |-> addId[t],
                               v |-> 0, ack |-> "add"])
    /\ token' = [token EXCEPT ![addId[t]] = "queue"]
    /\ addId' = [addId EXCEPT ![t] = NoToken]
    /\ apc' = [apc EXCEPT ![t] = "acking"]
    /\ UNCHANGED <<ltVars, registry, dirty, inflight, process, disk, pumpVars,
                   current, rpc, spc, sweepTodo, shutVars, observed>>

\* The record is durable.  If the torrent was removed meanwhile its delete
\* may have been queued before the record: queue another one.
AddAcked(t) ==
    /\ apc[t] = "acked"
    /\ apc' = [apc EXCEPT ![t] = IF t \notin registry /\ PersistOpen
                                 THEN "deleting" ELSE "ok"]
    /\ undeleted' = IF t \notin registry /\ ~PersistOpen
                    THEN undeleted \cup {t} ELSE undeleted
    /\ UNCHANGED <<ltVars, shared, pumpVars, current, addId, rpc, spc,
                   sweepTodo, shutVars, token, flushVer, flushFailed>>

AddDelete(t) ==
    /\ apc[t] = "deleting" /\ Len(queue) < QueueCap
    /\ queue' = Append(queue, [kind |-> "delete", t |-> t])
    /\ apc' = [apc EXCEPT ![t] = "ok"]
    /\ UNCHANGED <<ltVars, registry, dirty, inflight, process, disk, pumpVars,
                   current, addId, rpc, spc, sweepTodo, shutVars, history>>

AddNacked(t) ==
    /\ apc[t] = "nacked"
    /\ Unwind(t)
    /\ UNCHANGED <<life, ver, need, posted, alerts, handles, inflight, process,
                   queue, disk, pumpVars, current, addId, rpc, spc, sweepTodo,
                   shutVars, history>>

\* The client disconnects: the future is dropped at an await point.  While
\* it waits for queue space it has incremented Inflight and sent nothing.
AddDrop(t) ==
    /\ "drop" \in Env
    /\ AddRunning(t) /\ apc[t] # "registered"
    /\ apc' = [apc EXCEPT ![t] = "dropped"]
    /\ IF apc[t] = "sending"
       THEN /\ token' = [token EXCEPT ![addId[t]] = "leaked"]
            /\ addId' = [addId EXCEPT ![t] = NoToken]
       ELSE UNCHANGED <<token, addId>>
    /\ UNCHANGED <<ltVars, shared, pumpVars, current, rpc, spc, sweepTodo,
                   shutVars, observed>>

(***************************************************************************)
(* Engine::remove_torrent (without delete_files) and save_resume_data:     *)
(* correlated requests.  A request refuses to post once the shutdown token *)
(* is cancelled; its wait ends by an event, the timeout or the token.      *)
(***************************************************************************)
RemoveCall(t) ==
    /\ "remove" \in Env /\ ~Quiesced /\ Settled(t)
    /\ rpc[t] = "idle" /\ t \in registry /\ t \in handles
    /\ rpc' = [rpc EXCEPT ![t] = "waiting"]
    /\ rmPosted' = rmPosted \cup {t}
    /\ UNCHANGED <<life, ver, need, posted, alerts, handles, shared, pumpVars,
                   current, apc, addId, spc, sweepTodo, shutVars, history>>

RemoveGiveUp(t) ==
    /\ rpc[t] = "waiting" /\ ("timeout" \in Env \/ Quiesced)
    /\ rpc' = [rpc EXCEPT ![t] = "err"]
    /\ UNCHANGED <<ltVars, shared, pumpVars, current, apc, addId, spc,
                   sweepTodo, shutVars, history>>

SaveCall(t) ==
    /\ "save" \in Env /\ ~Quiesced /\ Settled(t)
    /\ spc[t] = "idle" /\ t \in registry /\ t \in handles
    /\ IF Accepted(t)
       THEN /\ PostSave(t, "always")
            /\ spc' = [spc EXCEPT ![t] = "waiting"]
       ELSE /\ NoPost
            /\ spc' = [spc EXCEPT ![t] = "err"]
    /\ UNCHANGED <<life, ver, need, rmPosted, alerts, handles, registry, dirty,
                   process, queue, disk, pumpVars, current, apc, addId, rpc,
                   sweepTodo, shutVars, observed>>

SaveGiveUp(t) ==
    /\ spc[t] = "waiting" /\ ("timeout" \in Env \/ Quiesced)
    /\ spc' = [spc EXCEPT ![t] = "err"]
    /\ UNCHANGED <<ltVars, shared, pumpVars, current, apc, addId, rpc,
                   sweepTodo, shutVars, history>>

(***************************************************************************)
(* The sweep: visits a snapshot of the registry and saves what changed.    *)
(***************************************************************************)
SweepTick ==
    /\ ~Quiesced /\ sweepTodo = {} /\ registry # {}
    /\ sweepTodo' = registry
    /\ UNCHANGED <<ltVars, shared, pumpVars, current, calls, shutVars, history>>

SweepVisit(t) ==
    /\ t \in sweepTodo
    /\ sweepTodo' = sweepTodo \ {t}
    /\ IF t \in handles /\ t \in need /\ Accepted(t)
       THEN PostSave(t, "ifModified") ELSE NoPost
    /\ UNCHANGED <<life, ver, need, rmPosted, alerts, handles, registry, dirty,
                   process, queue, disk, pumpVars, current, calls, shutVars,
                   observed>>

(***************************************************************************)
(* Engine::shutdown_with and the checkpoint it flushes with.               *)
(***************************************************************************)
ShutdownStart ==
    /\ "shutdown" \in Env /\ sd = "run"
    /\ sd' = "quiesced"
    /\ UNCHANGED <<ltVars, shared, pumpVars, current, calls, sweepTodo, ckTodo,
                   flushed, history>>

\* The sweep was stopped and joined; checkpoint lists the registry.
FlushStart ==
    /\ sd = "quiesced" /\ sweepTodo = {}
    /\ sd' = "flush" /\ ckTodo' = registry
    /\ UNCHANGED <<ltVars, shared, pumpVars, current, calls, sweepTodo, flushed,
                   history>>

\* Dirty torrents flush even if libtorrent considers them clean.
WorthFlushing(t) == t \in need \/ t \in dirty

FlushVisit(t) ==
    /\ sd = "flush" /\ t \in ckTodo
    /\ ckTodo' = ckTodo \ {t}
    /\ IF t \in handles
       THEN /\ IF WorthFlushing(t) /\ Accepted(t)
               THEN PostSave(t, "always") ELSE NoPost
            /\ flushVer' = [flushVer EXCEPT ![t] = ver[t]]
       ELSE NoPost /\ UNCHANGED flushVer
    /\ UNCHANGED <<life, ver, need, rmPosted, alerts, handles, registry, dirty,
                   process, queue, disk, pumpVars, current, calls, sweepTodo, sd,
                   flushed, flushFailed, undeleted>>

FlushWait ==
    /\ sd = "flush" /\ ckTodo = {}
    /\ sd' = "wait"
    /\ UNCHANGED <<ltVars, shared, pumpVars, current, calls, sweepTodo, ckTodo,
                   flushed, history>>

\* wait_zero returns, or the deadline passes.
FlushEnd ==
    /\ sd = "wait"
    /\ inflight = 0 \/ "timeout" \in Env
    /\ flushed' = IF inflight = 0 THEN "clean" ELSE "late"
    /\ sd' = "state"
    /\ UNCHANGED <<ltVars, shared, pumpVars, current, calls, sweepTodo, ckTodo,
                   history>>

\* The session state is written through the same queue.
StateSend ==
    /\ sd = "state" /\ Len(queue) < QueueCap
    /\ queue' = Append(queue, [kind |-> "state"])
    /\ sd' = "stateAck"
    /\ UNCHANGED <<ltVars, registry, dirty, inflight, process, disk, pumpVars,
                   current, calls, sweepTodo, ckTodo, flushed, history>>

\* The deadline passes, or the state cannot be serialized.
StateGiveUp ==
    /\ \/ "timeout" \in Env /\ sd \in {"state", "stateAck"}
       \/ "serializeFails" \in Env /\ sd = "state"
    /\ sd' = "closed"
    /\ UNCHANGED <<ltVars, shared, pumpVars, current, calls, sweepTodo, ckTodo,
                   flushed, history>>

\* The pump has stopped; the engine drops its sender of the persist queue.
DropSender ==
    /\ sd = "closed" /\ pc = "stopped"
    /\ sd' = "drain"
    /\ UNCHANGED <<ltVars, shared, pumpVars, current, calls, sweepTodo, ckTodo,
                   flushed, history>>

\* The persister ends when its queue is empty and every sender is gone.
PersisterEnd ==
    /\ sd = "drain" /\ queue = <<>> /\ current = <<>>
    /\ \A t \in Torrents : apc[t] \notin {"sending", "deleting"}
    /\ sd' = "done"
    /\ UNCHANGED <<ltVars, shared, pumpVars, current, calls, sweepTodo, ckTodo,
                   flushed, history>>

LibtorrentNext ==
    \/ \E t \in Torrents : \/ LtAdd(t) \/ LtRemove(t) \/ LtExpire(t)
                           \/ LtChange(t) \/ LtFinished(t) \/ LtMoved(t)
    \/ \E p \in posted : LtAnswerSave(p)

PumpNext ==
    \/ PumpPop \/ HandleAddFailed \/ HandleAdded \/ HandleRemoved
    \/ HandleSaveTrigger \/ RequestSave \/ HandleSaved \/ HandleSaveFailed
    \/ PumpSend \/ RetryTick \/ RetryDone \/ PumpStop \/ PumpAbort
    \/ \E t \in Torrents : RetryVisit(t)

PersisterNext == PersistRecv \/ PersistWrite \/ PersistDelete \/ PersistState

CallNext ==
    \E t \in Torrents :
        \/ AddCall(t) \/ AddRegister(t) \/ AddEnqueue(t) \/ AddSend(t)
        \/ AddAcked(t) \/ AddDelete(t) \/ AddNacked(t) \/ AddDrop(t)
        \/ RemoveCall(t) \/ RemoveGiveUp(t) \/ SaveCall(t) \/ SaveGiveUp(t)

SweepNext == SweepTick \/ \E t \in Torrents : SweepVisit(t)

ShutdownNext ==
    \/ ShutdownStart \/ FlushStart \/ FlushWait \/ FlushEnd
    \/ StateSend \/ StateGiveUp \/ DropSender \/ PersisterEnd
    \/ \E t \in Torrents : FlushVisit(t)

Next ==
    \/ LibtorrentNext \/ PumpNext \/ PersisterNext
    \/ CallNext \/ SweepNext \/ ShutdownNext

Spec == Init /\ [][Next]_vars

(***************************************************************************)
(* Fairness.  The tasks are scheduled by the runtime: a step that stays    *)
(* possible is taken.  The two arms of the pump's select compete: the      *)
(* retry tick is ready at most once per second, so the batch arm gets its  *)
(* turn again and again.  Senders of a full queue are served in turn.  No  *)
(* fairness is asked of clients, timeouts, changes or dropped calls.       *)
(***************************************************************************)
Fairness ==
    /\ \A t \in Torrents :
        /\ WF_vars(LtAdd(t)) /\ WF_vars(LtRemove(t))
        /\ WF_vars(RetryVisit(t)) /\ WF_vars(SweepVisit(t))
        /\ WF_vars(AddRegister(t)) /\ WF_vars(AddAcked(t))
        /\ WF_vars(AddNacked(t)) /\ WF_vars(FlushVisit(t))
        /\ SF_vars(AddEnqueue(t)) /\ SF_vars(AddSend(t)) /\ SF_vars(AddDelete(t))
    /\ \A p \in SaveRequest : WF_vars(LtAnswerSave(p))
    /\ WF_vars(HandleAddFailed \/ HandleAdded \/ HandleRemoved
                  \/ HandleSaveTrigger \/ RequestSave \/ HandleSaved
                  \/ HandleSaveFailed \/ RetryDone \/ PumpStop)
    /\ SF_vars(PumpPop) /\ SF_vars(PumpSend)
    /\ WF_vars(PersisterNext)
    /\ WF_vars(FlushStart \/ FlushWait \/ FlushEnd \/ DropSender \/ PersisterEnd)
    /\ SF_vars(StateSend)

FairSpec == Spec /\ Fairness
===============================================================================
