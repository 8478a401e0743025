--------------------------------- MODULE Jobs ---------------------------------
(***************************************************************************)
(* Torrent-creation jobs (rsbtd/src/engine/jobs.rs) and the subscription   *)
(* that streams their progress (rsbtd/src/api/subscription.rs).            *)
(*                                                                         *)
(* A job has a blocking worker thread, an entry in the manager's map and a *)
(* watch channel with its snapshot.  The manager's operations hold the map *)
(* lock; the workers do not take it: a worker and a cancel meet only in    *)
(* the cancel flag and in the snapshot, where the first terminal state     *)
(* wins.                                                                   *)
(***************************************************************************)
EXTENDS Naturals, FiniteSets

CONSTANTS
    JobIds,     \* the jobs that are ever started
    NoJob,
    Paths,      \* output paths
    InMemory,   \* the "path" of a job that keeps its result in memory
    Output,     \* the output path of each job, or InMemory
    Watched,    \* bound: the jobs somebody subscribes to, once each
    Pieces      \* bound: pieces of a payload

ASSUME NoJobAssumption == NoJob \notin JobIds
ASSUME OutputAssumption == InMemory \notin Paths
                           /\ Output \in [JobIds -> Paths \cup {InMemory}]
ASSUME PiecesAssumption == Pieces \in Nat \ {0}

VARIABLES
    entries,    \* the ids in JobManager.jobs
    handle,     \* the jobs whose entry still has its worker's JoinHandle
    seen,       \* terminal_seen: never, less than JOB_TTL ago, longer ago
    cancel,     \* the jobs whose cancel flag is set
    snap,       \* the snapshots
    manager,    \* JobManager.stopping
    pend,       \* jobs the running cancel or cancel_all has yet to reach
    armed,      \* the job whose flag it has set and whose state it commits
    lock,       \* whether cancel or cancel_all holds the map lock across steps
    wpc,        \* the workers
    result,     \* the outcome of build
    file,       \* the job whose output is at a path
    sub,        \* the progress stream of each job
    unseen,     \* the streams whose receiver has not seen the latest snapshot
    last,       \* the state of the last snapshot the stream yielded
    shut        \* the engine's shutdown: joining the workers, then the exit

table == <<entries, handle, seen, manager>>
canceller == <<pend, armed, lock>>
worker == <<wpc, result>>
stream == <<sub, last>>
vars == <<table, canceller, worker, stream, cancel, snap, file, unseen, shut>>

States == {"none", "Listing", "Hashing", "Finished", "Failed", "Cancelled"}
Snapshot == [state : States, done : 0 .. Pieces, total : 0 .. Pieces,
             torrent : {"none", "bytes"}]
WorkerStates == {"none", "build", "hash", "check", "write", "commit", "fail",
                 "discard", "done"}

is_terminal(s) == s \in {"Finished", "Failed", "Cancelled"}
Terminal(j) == is_terminal(snap[j].state)

TypeOK ==
    /\ entries \subseteq JobIds
    /\ handle \subseteq JobIds
    /\ seen \in [JobIds -> {"no", "fresh", "old"}]
    /\ cancel \subseteq JobIds
    /\ snap \in [JobIds -> Snapshot]
    /\ manager \in {"open", "stopping"}
    /\ pend \subseteq JobIds
    /\ armed \in JobIds \cup {NoJob}
    /\ lock \in {"free", "held"}
    /\ wpc \in [JobIds -> WorkerStates]
    /\ result \in [JobIds -> {"ok", "err"}]
    /\ file \in [Paths -> JobIds \cup {NoJob}]
    /\ sub \in [JobIds -> {"none", "yield", "wait", "done"}]
    /\ unseen \subseteq JobIds
    /\ last \in [JobIds -> States]
    /\ shut \in {"run", "joining", "exited"}

Init ==
    /\ entries = {}
    /\ handle = {}
    /\ seen = [j \in JobIds |-> "no"]
    /\ cancel = {}
    /\ snap = [j \in JobIds |->
                 [state |-> "none", done |-> 0, total |-> 0, torrent |-> "none"]]
    /\ manager = "open"
    /\ pend = {} /\ armed = NoJob /\ lock = "free"
    /\ wpc = [j \in JobIds |-> "none"]
    /\ result = [j \in JobIds |-> "ok"]
    /\ file = [p \in Paths |-> NoJob]
    /\ sub = [j \in JobIds |-> "none"]
    /\ unseen = {}
    /\ last = [j \in JobIds |-> "none"]
    /\ shut = "run"

Running(j) == wpc[j] \notin {"none", "done"}

(***************************************************************************)
(* Wrong variants of definitions below, each with a bug the code could     *)
(* have had; the specification does not use them.                          *)
(***************************************************************************)
\* Progress is published whatever the state is.
UpdateAlways(j, s) ==
    /\ snap' = [snap EXCEPT ![j] = s]
    /\ unseen' = unseen \cup {j}

\* A terminal job is droppable although its worker still runs.
DroppableUnjoined(j) == Terminal(j)

\* A state is committed without waking the receivers.
UpdateSilently(j, s) ==
    /\ snap' = IF Terminal(j) THEN snap ELSE [snap EXCEPT ![j] = s]
    /\ UNCHANGED unseen

\* The start does not look at the stopping flag.
MayStartAlways == lock = "free"

\* A cancelled worker keeps what it has written.
KeepOutput(j) == "done"

\* The output is committed before it is written.
CommitFirst(j) == "commit"

\* The callback is taken to be given the number of the piece.
PiecesDoneOffByOne(piece) == piece + 2

\* The error of a failed build is thrown away.
AfterErrorSilent == "done"

(***************************************************************************)
(* The snapshot is changed only while it is not terminal (send_if_modified *)
(* in build, the progress callback and commit_terminal).                   *)
(***************************************************************************)
Update(j, s) ==
    IF Terminal(j) THEN UNCHANGED <<snap, unseen>>
    ELSE /\ snap' = [snap EXCEPT ![j] = s]
         /\ unseen' = unseen \cup {j}

(***************************************************************************)
(* prune: entries are dropped JOB_TTL after their end was first seen.      *)
(***************************************************************************)
\* The entry's end state counts: its worker is not running any more.
Droppable(j) == Terminal(j) /\ ~(j \in handle /\ Running(j))

Kept == {j \in entries : ~(Droppable(j) /\ seen[j] = "old")}

SeenNow == [j \in JobIds |-> IF j \in entries /\ Droppable(j) /\ seen[j] = "no"
                             THEN "fresh" ELSE seen[j]]

(***************************************************************************)
(* The manager.                                                            *)
(***************************************************************************)
\* The lock is free and cancel_all has not run.
MayStart == lock = "free" /\ manager = "open"

start(j) ==
    /\ MayStart /\ shut # "exited" /\ wpc[j] = "none"
    /\ entries' = Kept \cup {j}
    /\ seen' = SeenNow
    /\ handle' = handle \cup {j}
    /\ snap' = [snap EXCEPT ![j].state = "Listing"]
    /\ wpc' = [wpc EXCEPT ![j] = "build"]
    /\ UNCHANGED <<canceller, stream, manager, result, cancel, file, unseen,
                   shut>>

\* get and list
get ==
    /\ lock = "free" /\ shut # "exited"
    /\ entries' = Kept
    /\ seen' = SeenNow
    /\ UNCHANGED <<canceller, worker, stream, handle, manager, cancel, snap,
                   file, unseen, shut>>

TtlElapses(j) ==
    /\ seen[j] = "fresh"
    /\ seen' = [seen EXCEPT ![j] = "old"]
    /\ UNCHANGED <<canceller, worker, stream, entries, handle, manager, cancel,
                   snap, file, unseen, shut>>

\* cancel, cancel_all: for each job, set the flag, then commit the state,
\* all under the lock, while the workers go on.
cancelJob(j) ==
    /\ lock = "free" /\ shut # "exited" /\ j \in entries
    /\ lock' = "held" /\ pend' = {j}
    /\ UNCHANGED <<table, worker, stream, armed, cancel, snap, file, unseen,
                   shut>>

cancel_all ==
    /\ lock = "free" /\ manager = "open"
    /\ lock' = "held" /\ pend' = entries /\ manager' = "stopping"
    /\ UNCHANGED <<worker, stream, entries, handle, seen, armed, cancel, snap,
                   file, unseen, shut>>

CancelFlag(j) ==
    /\ lock = "held" /\ armed = NoJob /\ j \in pend
    /\ cancel' = cancel \cup {j}
    /\ armed' = j /\ pend' = pend \ {j}
    /\ UNCHANGED <<table, worker, stream, lock, snap, file, unseen, shut>>

CancelCommit ==
    /\ armed # NoJob
    /\ Update(armed, [snap[armed] EXCEPT !.state = "Cancelled"])
    /\ armed' = NoJob
    /\ UNCHANGED <<table, worker, stream, pend, lock, cancel, file, shut>>

CancelReturn ==
    /\ lock = "held" /\ pend = {} /\ armed = NoJob
    /\ lock' = "free"
    /\ UNCHANGED <<table, worker, stream, pend, armed, cancel, snap, file,
                   unseen, shut>>

\* join_workers takes every handle, after cancel_all (Engine::shutdown_with).
join_workers ==
    /\ shut = "run" /\ manager = "stopping" /\ lock = "free"
    /\ shut' = "joining"
    /\ handle' = {}
    /\ UNCHANGED <<canceller, worker, stream, entries, seen, manager, cancel,
                   snap, file, unseen>>

\* The workers have ended, or the deadline passed and they are abandoned;
\* the process exits.
Exit ==
    /\ shut = "joining" /\ lock = "free"
    /\ shut' = "exited"
    /\ UNCHANGED <<table, canceller, worker, stream, cancel, snap, file,
                   unseen>>

(***************************************************************************)
(* The worker: build, then run_job's end.                                  *)
(***************************************************************************)
Step(j, from, to) ==
    /\ shut # "exited"
    /\ wpc[j] = from
    /\ wpc' = [wpc EXCEPT ![j] = to]

\* Listing the files and setting up fails.
BuildFails(j) ==
    /\ Step(j, "build", "check")
    /\ result' = [result EXCEPT ![j] = "err"]
    /\ UNCHANGED <<table, canceller, stream, cancel, snap, file, unseen, shut>>

BuildHashes(j) ==
    /\ Step(j, "build", "hash")
    /\ Update(j, [snap[j] EXCEPT !.state = "Hashing", !.total = Pieces])
    /\ UNCHANGED <<table, canceller, stream, result, cancel, file, shut>>

\* The flag as the progress callback and run_job read it.
Stops(j) == j \in cancel

\* The callback is given the index of the piece, the number of those before.
PiecesDone(piece) == piece + 1

\* The progress callback after a piece; hashing stops if it returns false.
\* The count of the snapshot is the worker's own as long as it is updated.
HashPiece(j) ==
    /\ snap[j].done < Pieces \/ Terminal(j)
    /\ Update(j, [snap[j] EXCEPT !.done = PiecesDone(@)])
    /\ IF Stops(j)
       THEN /\ Step(j, "hash", "check")
            /\ result' = [result EXCEPT ![j] = "err"]
       ELSE /\ Step(j, "hash", "hash")
            /\ UNCHANGED result
    /\ UNCHANGED <<table, canceller, stream, cancel, file, shut>>

\* Reading fails, all pieces are hashed, or generating fails.
HashEnds(j) ==
    /\ Step(j, "hash", "check")
    /\ \E r \in {"ok", "err"} :
        /\ r = "ok" => snap[j].done = Pieces \/ Terminal(j)
        /\ result' = [result EXCEPT ![j] = r]
    /\ UNCHANGED <<table, canceller, stream, cancel, snap, file, unseen, shut>>

AfterBuild(j) ==
    IF Output[j] = InMemory THEN "commit" ELSE "write"

AfterError == "fail"

\* run_job looks at the flag once more before it publishes the result.
CheckCancel(j) ==
    /\ Step(j, "check", IF Stops(j) THEN "done"
                        ELSE IF result[j] = "err" THEN AfterError
                        ELSE AfterBuild(j))
    /\ UNCHANGED <<table, canceller, stream, result, cancel, snap, file,
                   unseen, shut>>

\* write_atomic
WriteOutput(j) ==
    /\ \/ /\ Step(j, "write", "commit")
          /\ file' = [file EXCEPT ![Output[j]] = j]
       \/ /\ Step(j, "write", "fail")
          /\ UNCHANGED file
    /\ UNCHANGED <<table, canceller, stream, result, cancel, snap, unseen,
                   shut>>

AfterLostCommit(j) == IF Output[j] = InMemory THEN "done" ELSE "discard"

\* A concurrent cancel may have won: then the output is discarded.
CommitFinished(j) ==
    /\ Step(j, "commit", IF Terminal(j) THEN AfterLostCommit(j) ELSE "done")
    /\ Update(j, [snap[j] EXCEPT !.state = "Finished", !.done = snap[j].total,
                                 !.torrent = IF Output[j] = InMemory THEN "bytes"
                                                                   ELSE "none"])
    /\ UNCHANGED <<table, canceller, stream, result, cancel, file, shut>>

CommitFailed(j) ==
    /\ Step(j, "fail", "done")
    /\ Update(j, [snap[j] EXCEPT !.state = "Failed"])
    /\ UNCHANGED <<table, canceller, stream, result, cancel, file, shut>>

Discard(j) ==
    /\ Step(j, "discard", "done")
    /\ file' = [file EXCEPT ![Output[j]] = NoJob]
    /\ UNCHANGED <<table, canceller, stream, result, cancel, snap, unseen,
                   shut>>

(***************************************************************************)
(* The createJobProgress subscription: a watch receiver.                   *)
(***************************************************************************)
watch(j) ==
    /\ lock = "free" /\ shut # "exited"
    /\ j \in entries /\ j \in Watched /\ sub[j] = "none"
    /\ sub' = [sub EXCEPT ![j] = "yield"]
    /\ UNCHANGED <<table, canceller, worker, last, cancel, snap, file, unseen,
                   shut>>

StreamYield(j) ==
    /\ sub[j] = "yield"
    /\ last' = [last EXCEPT ![j] = snap[j].state]
    /\ unseen' = unseen \ {j}
    /\ sub' = [sub EXCEPT ![j] = IF Terminal(j) THEN "done" ELSE "wait"]
    /\ UNCHANGED <<table, canceller, worker, cancel, snap, file, shut>>

StreamChanged(j) ==
    /\ sub[j] = "wait" /\ j \in unseen
    /\ sub' = [sub EXCEPT ![j] = "yield"]
    /\ UNCHANGED <<table, canceller, worker, last, cancel, snap, file, unseen,
                   shut>>

\* Both senders are gone: the entry was pruned and the worker has ended.  The
\* stream would end without a word; StreamNeverCut says this cannot happen, so
\* there is no action for it.
ChannelClosed(j) == j \notin entries /\ ~Running(j)

WorkerNext(j) ==
    \/ BuildFails(j) \/ BuildHashes(j) \/ HashPiece(j) \/ HashEnds(j)
    \/ CheckCancel(j) \/ WriteOutput(j) \/ CommitFinished(j) \/ CommitFailed(j)
    \/ Discard(j)

StreamNext(j) == StreamYield(j) \/ StreamChanged(j)

CancelNext == CancelCommit \/ CancelReturn \/ \E j \in JobIds : CancelFlag(j)

Next ==
    \/ get \/ cancel_all \/ join_workers \/ Exit \/ CancelNext
    \/ \E j \in JobIds :
        \/ start(j) \/ cancelJob(j) \/ TtlElapses(j) \/ watch(j)
        \/ WorkerNext(j) \/ StreamNext(j)

Spec == Init /\ [][Next]_vars

\* The threads and tasks run.  Nothing obliges hashing to end by itself
\* except that a payload has finitely many pieces.
Fairness ==
    /\ WF_vars(CancelNext)
    /\ \A j \in JobIds : WF_vars(WorkerNext(j)) /\ WF_vars(StreamNext(j))

FairSpec == Spec /\ Fairness
===============================================================================
