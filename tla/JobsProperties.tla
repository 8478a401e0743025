---------------------------- MODULE JobsProperties ----------------------------
(***************************************************************************)
(* What makes the creation jobs of module Jobs correct.                    *)
(***************************************************************************)
EXTENDS Jobs

\* The first terminal state wins: neither a late completion nor a progress
\* update of a worker that has not noticed its cancellation changes it.
FirstTerminalWins ==
    [][\A j \in JobIds : Terminal(j) => snap'[j] = snap[j]]_vars

\* A job that is Finished has its output where its snapshot says: in memory,
\* or at its path.  (Jobs with a path of their own.)
FinishedHasOutput ==
    \A j \in JobIds : snap[j].state = "Finished" =>
        IF Output[j] = InMemory THEN snap[j].torrent = "bytes"
                                ELSE file[Output[j]] = j

\* Once the worker of a cancelled or failed job has ended, nothing of its
\* output is left, whichever of cancel and completion came first.
NoOutputUnlessFinished ==
    \A j \in JobIds : wpc[j] = "done" /\ snap[j].state # "Finished" =>
        /\ snap[j].torrent = "none"
        /\ \A p \in Paths : file[p] # j

\* Pruning never forgets a running worker: until the shutdown joins them,
\* each has an entry with its handle.
RunningWorkerIsJoinable ==
    \A j \in JobIds : Running(j) /\ shut = "run" => j \in entries \cap handle

\* cancel_all reaches every worker: when it has returned, no worker runs
\* that was not told to stop, in particular none started while it ran.
StopReachesAll ==
    manager = "stopping" /\ lock = "free"
        => \A j \in JobIds : Running(j) => j \in cancel

\* A progress stream never ends silently: when it waits for a change with
\* nothing left to yield, somebody still holds the sending side, even if the
\* job ends and is pruned between two polls.
StreamNeverCut ==
    \A j \in JobIds : sub[j] = "wait" /\ j \notin unseen => ~ChannelClosed(j)

(***************************************************************************)
(* The inductive invariants behind these.                                  *)
(***************************************************************************)
\* Workers and the stop: a worker that may escape the flag is still ahead of
\* cancel_all, which holds the lock; and the shutdown joins after it.
Stoppable ==
    /\ TypeOK
    /\ \A j \in JobIds : wpc[j] = "none" =>
        snap[j].state = "none" /\ j \notin entries \cup pend /\ j # armed
    /\ RunningWorkerIsJoinable
    /\ manager = "stopping" =>
        \A j \in JobIds : Running(j) => j \in cancel \/ (lock = "held" /\ j \in pend)
    /\ shut # "run" => manager = "stopping"

\* Entries and streams: only the entry of a job that has ended is dropped,
\* and a stream with nothing left to yield has not been told of an end.
Watching ==
    \A j \in JobIds :
        /\ wpc[j] # "none" /\ j \notin entries => Terminal(j)
        /\ sub[j] # "none" => wpc[j] # "none"
        /\ sub[j] = "wait" /\ j \notin unseen => ~Terminal(j)

\* No two jobs write to one path.
OwnPaths ==
    \A i, j \in JobIds : Output[i] = Output[j] => i = j \/ Output[i] = InMemory

\* Outputs and the workers: what is at a path was put there by a worker that
\* is about to commit it, about to discard it, or has finished with it.
Outputs ==
    /\ \A p \in Paths : file[p] # NoJob =>
        /\ Output[file[p]] = p
        /\ \/ wpc[file[p]] \in {"commit", "discard"}
           \/ wpc[file[p]] = "done" /\ snap[file[p]].state = "Finished"
    /\ \A j \in JobIds :
        /\ wpc[j] = "commit" /\ Output[j] # InMemory => file[Output[j]] = j
        /\ wpc[j] \in {"write", "discard"} => Output[j] # InMemory
        /\ snap[j].torrent = "bytes" => snap[j].state = "Finished"
        /\ snap[j].state = "Finished" => wpc[j] = "done"
    /\ FinishedHasOutput

\* Discarding the output of a cancelled job removes that output and no other.
DiscardsOwnOutput ==
    [][\A p \in Paths : file[p] # NoJob /\ file'[p] = NoJob
         => snap[file[p]].state = "Cancelled"]_vars

\* Every job that is started comes to an end its clients can see.
JobEnds == \A j \in JobIds : snap[j].state = "Listing" ~> Terminal(j)

\* A subscriber is told about the end.
StreamEnds == \A j \in JobIds : sub[j] # "none" ~> sub[j] = "done"
===============================================================================
