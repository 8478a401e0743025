------------------------------ MODULE JobsProofs ------------------------------
(***************************************************************************)
(* Creation jobs, for any number of jobs, paths and pieces: the first      *)
(* terminal state wins, stopping reaches every worker, pruning forgets no  *)
(* running one, and outputs agree with the states that are reported.       *)
(***************************************************************************)
EXTENDS JobsProperties, TLAPS

(***************************************************************************)
(* What the helpers do to one snapshot.                                    *)
(***************************************************************************)

\* A committed or published snapshot; a terminal one is left alone.
LEMMA UpdateEffect ==
    ASSUME TypeOK, NEW j \in JobIds, NEW s \in Snapshot, Update(j, s)
    PROVE  /\ snap' \in [JobIds -> Snapshot]
           /\ unseen' \subseteq JobIds
           /\ \A i \in JobIds : snap'[i] = IF i = j /\ ~Terminal(j) THEN s
                                                                   ELSE snap[i]
  BY DEF Update, TypeOK

\* Every new snapshot the workers and cancel produce is one.
LEMMA SnapshotTypes ==
    ASSUME TypeOK, NEW j \in JobIds
    PROVE  /\ \A st \in States : [snap[j] EXCEPT !.state = st] \in Snapshot
           /\ [snap[j] EXCEPT !.state = "Hashing", !.total = Pieces] \in Snapshot
           /\ snap[j].done < Pieces =>
                [snap[j] EXCEPT !.done = PiecesDone(@)] \in Snapshot
           /\ \A b \in {"none", "bytes"} :
                [snap[j] EXCEPT !.state = "Finished", !.done = snap[j].total,
                                !.torrent = b] \in Snapshot
<1>1. snap[j] \in Snapshot
  BY DEF TypeOK
<1>2. \A st \in States : [snap[j] EXCEPT !.state = st] \in Snapshot
  BY <1>1 DEF Snapshot
<1>3. [snap[j] EXCEPT !.state = "Hashing", !.total = Pieces] \in Snapshot
  <2>1. Pieces \in 0 .. Pieces /\ "Hashing" \in States
    BY PiecesAssumption DEF States
  <2> QED
    BY <1>1, <2>1 DEF Snapshot
<1>4. snap[j].done < Pieces =>
        [snap[j] EXCEPT !.done = PiecesDone(@)] \in Snapshot
  <2>1. snap[j].done \in 0 .. Pieces
    BY <1>1 DEF Snapshot
  <2>2. snap[j].done < Pieces => snap[j].done + 1 \in 0 .. Pieces
    BY <2>1, PiecesAssumption
  <2> QED
    BY <1>1, <2>2 DEF Snapshot, PiecesDone
<1>5. \A b \in {"none", "bytes"} :
         [snap[j] EXCEPT !.state = "Finished", !.done = snap[j].total,
                         !.torrent = b] \in Snapshot
  <2>1. "Finished" \in States /\ snap[j].total \in 0 .. Pieces
    BY <1>1 DEF States, Snapshot
  <2> QED
    BY <1>1, <2>1 DEF Snapshot
<1> QED
  BY <1>2, <1>3, <1>4, <1>5

(***************************************************************************)
(* Type correctness.                                                       *)
(***************************************************************************)

\* The same without the new state of the snapshot being known.
LEMMA UpdateType ==
    ASSUME TypeOK, NEW j \in JobIds, NEW s, s \in Snapshot \/ Terminal(j),
           Update(j, s)
    PROVE  snap' \in [JobIds -> Snapshot] /\ unseen' \subseteq JobIds
  BY DEF Update, TypeOK

LEMMA TypeManager ==
    ASSUME TypeOK, NEW j \in JobIds,
           \/ get \/ cancel_all \/ join_workers \/ Exit \/ CancelNext
           \/ start(j) \/ cancelJob(j) \/ TtlElapses(j) \/ watch(j)
           \/ StreamNext(j)
    PROVE  TypeOK'
<1> USE DEF table, canceller, worker, stream
<1>1. SeenNow \in [JobIds -> {"no", "fresh", "old"}] /\ Kept \subseteq JobIds
  BY DEF SeenNow, Kept, TypeOK
<1>2. CASE get
  BY <1>1, <1>2 DEF get, TypeOK
<1>3. CASE cancel_all
  BY <1>3 DEF cancel_all, TypeOK
<1>4. CASE join_workers \/ Exit
  BY <1>4 DEF join_workers, Exit, TypeOK
<1>5. ASSUME NEW i \in JobIds, CancelFlag(i)
      PROVE  TypeOK'
  BY <1>5 DEF CancelFlag, TypeOK
<1>6. CASE CancelCommit
  <2>1. armed \in JobIds
    BY <1>6 DEF CancelCommit, TypeOK
  <2>2. [snap[armed] EXCEPT !.state = "Cancelled"] \in Snapshot
    BY <2>1, SnapshotTypes DEF States
  <2>3. snap' \in [JobIds -> Snapshot] /\ unseen' \subseteq JobIds
    BY <1>6, <2>1, <2>2, UpdateType DEF CancelCommit
  <2> QED
    BY <1>6, <2>3 DEF CancelCommit, TypeOK
<1>7. CASE CancelReturn
  BY <1>7 DEF CancelReturn, TypeOK
<1>8. CASE start(j)
  <2>1. [snap[j] EXCEPT !.state = "Listing"] \in Snapshot
    BY SnapshotTypes DEF States
  <2>2. snap' \in [JobIds -> Snapshot]
    BY <1>8, <2>1 DEF start, TypeOK
  <2> QED
    BY <1>1, <1>8, <2>2 DEF start, TypeOK, WorkerStates
<1>9. CASE cancelJob(j) \/ TtlElapses(j)
  BY <1>9 DEF cancelJob, TtlElapses, TypeOK
<1>10. CASE watch(j) \/ StreamChanged(j)
  BY <1>10 DEF watch, StreamChanged, TypeOK
<1>11. CASE StreamYield(j)
  <2>1. snap[j].state \in States
    BY DEF TypeOK, Snapshot
  <2> QED
    BY <1>11, <2>1 DEF StreamYield, TypeOK
<1> QED
  BY <1>2, <1>3, <1>4, <1>5, <1>6, <1>7, <1>8, <1>9, <1>10, <1>11
  DEF CancelNext, StreamNext

\* What every step of a worker leaves alone, and where it can take it.
LEMMA WorkerFrame ==
    ASSUME TypeOK, NEW j \in JobIds, WorkerNext(j)
    PROVE  /\ UNCHANGED <<table, canceller, stream, cancel, shut>>
           /\ wpc' \in [JobIds -> WorkerStates]
           /\ \A i \in JobIds : i # j => wpc'[i] = wpc[i]
           /\ Running(j) /\ wpc'[j] # "none"
<1>1. UNCHANGED <<table, canceller, stream, cancel, shut>>
  BY DEF WorkerNext, BuildFails, BuildHashes, HashPiece, HashEnds, CheckCancel,
     WriteOutput, CommitFinished, CommitFailed, Discard
<1>2. PICK from \in WorkerStates, to \in WorkerStates :
         Step(j, from, to) /\ from \notin {"none", "done"} /\ to # "none"
  BY DEF WorkerNext, BuildFails, BuildHashes, HashPiece, HashEnds, CheckCancel,
     WriteOutput, CommitFinished, CommitFailed, Discard, AfterBuild, AfterError,
     AfterLostCommit, WorkerStates
<1> QED
  BY <1>1, <1>2 DEF Step, Running, TypeOK

LEMMA TypeWorker ==
    ASSUME TypeOK, NEW j \in JobIds, WorkerNext(j)
    PROVE  TypeOK'
<1> USE DEF table, canceller, worker, stream
<1>1. snap' \in [JobIds -> Snapshot] /\ unseen' \subseteq JobIds
  <2>1. CASE BuildHashes(j)
    BY <2>1, SnapshotTypes, UpdateType DEF BuildHashes
  <2>2. CASE HashPiece(j)
    <3>1. [snap[j] EXCEPT !.done = PiecesDone(@)] \in Snapshot \/ Terminal(j)
      BY <2>2, SnapshotTypes DEF HashPiece
    <3> QED
      BY <2>2, <3>1, UpdateType DEF HashPiece
  <2>3. CASE CommitFinished(j)
    BY <2>3, SnapshotTypes, UpdateType DEF CommitFinished
  <2>4. CASE CommitFailed(j)
    BY <2>4, SnapshotTypes, UpdateType DEF CommitFailed, States
  <2>5. CASE BuildFails(j) \/ HashEnds(j) \/ CheckCancel(j) \/ WriteOutput(j)
               \/ Discard(j)
    BY <2>5 DEF BuildFails, HashEnds, CheckCancel, WriteOutput, Discard, TypeOK
  <2> QED
    BY <2>1, <2>2, <2>3, <2>4, <2>5 DEF WorkerNext
<1>2. result' \in [JobIds -> {"ok", "err"}]
  BY DEF WorkerNext, BuildFails, BuildHashes, HashPiece, HashEnds, CheckCancel,
     WriteOutput, CommitFinished, CommitFailed, Discard, TypeOK
<1>3. file' \in [Paths -> JobIds \cup {NoJob}]
  BY DEF WorkerNext, BuildFails, BuildHashes, HashPiece, HashEnds, CheckCancel,
     WriteOutput, CommitFinished, CommitFailed, Discard, TypeOK
<1> QED
  BY <1>1, <1>2, <1>3, WorkerFrame DEF TypeOK

(***************************************************************************)
(* Stopping.                                                               *)
(***************************************************************************)

\* A step of the manager or of a stream, and what it does to a snapshot: only
\* start and a commit of cancel change one, and neither a terminal one.
LEMMA SnapManager ==
    ASSUME Stoppable, NEW j \in JobIds,
           \/ get \/ cancel_all \/ join_workers \/ Exit \/ CancelNext
           \/ start(j) \/ cancelJob(j) \/ TtlElapses(j) \/ watch(j)
           \/ StreamNext(j)
    PROVE  \A i \in JobIds :
             \/ snap'[i] = snap[i]
             \/ /\ ~Terminal(i) /\ wpc'[i] # "none"
                /\ snap'[i].torrent = snap[i].torrent
                /\ snap'[i].state # "Finished"
<1> USE DEF table, canceller, worker, stream, Stoppable
<1>1. \A i \in JobIds : wpc[i] = "none" => ~Terminal(i)
  BY DEF Terminal, is_terminal
<1>2. CASE start(j)
  <2>1. \A i \in JobIds \ {j} : snap'[i] = snap[i]
    BY <1>2 DEF start, TypeOK
  <2>2. snap'[j] = [snap[j] EXCEPT !.state = "Listing"]
    BY <1>2 DEF start, TypeOK
  <2>3. snap'[j].torrent = snap[j].torrent /\ snap'[j].state # "Finished"
    BY <2>2 DEF TypeOK, Snapshot
  <2>4. wpc[j] = "none" /\ wpc'[j] = "build"
    BY <1>2 DEF start, TypeOK
  <2> QED
    BY <1>1, <2>1, <2>3, <2>4
<1>3. CASE CancelCommit
  <2> DEFINE s == [snap[armed] EXCEPT !.state = "Cancelled"]
  <2>1. armed \in JobIds /\ Update(armed, s)
    BY <1>3 DEF CancelCommit, TypeOK
  <2>2. s \in Snapshot
    BY <2>1, SnapshotTypes DEF States
  <2>3. \A i \in JobIds : snap'[i] = IF i = armed /\ ~Terminal(armed) THEN s
                                                                 ELSE snap[i]
    BY <2>1, <2>2, UpdateEffect
  <2>4. s.torrent = snap[armed].torrent /\ s.state # "Finished"
    BY <2>1 DEF TypeOK, Snapshot
  <2>5. wpc'[armed] # "none"
    BY <1>3, <2>1 DEF CancelCommit
  <2> QED
    BY <2>3, <2>4, <2>5
<1>4. CASE ~(start(j) \/ CancelCommit)
  <2>1. snap' = snap
    BY <1>4 DEF get, cancel_all, join_workers, Exit, CancelNext, CancelFlag,
       CancelReturn, cancelJob, TtlElapses, watch, StreamNext, StreamYield,
       StreamChanged
  <2> QED
    BY <2>1
<1> QED
  BY <1>2, <1>3, <1>4

\* The same of a worker's steps; it reports Finished when it commits.
LEMMA SnapWorker ==
    ASSUME TypeOK, NEW j \in JobIds, WorkerNext(j)
    PROVE  /\ \A i \in JobIds : i # j => snap'[i] = snap[i]
           /\ \/ snap'[j] = snap[j]
              \/ /\ ~Terminal(j)
                 /\ \/ /\ snap'[j].torrent = snap[j].torrent
                       /\ snap'[j].state # "Finished"
                       /\ wpc[j] # "commit"
                    \/ /\ snap'[j].state = "Finished"
                       /\ wpc[j] = "commit" /\ wpc'[j] = "done"
                       /\ snap'[j].torrent = IF Output[j] = InMemory
                                             THEN "bytes" ELSE "none"
<1> USE DEF worker
<1>1. snap[j] \in Snapshot
  BY DEF TypeOK
<1>2. ASSUME NEW s, Update(j, s)
      PROVE  /\ \A i \in JobIds : i # j => snap'[i] = snap[i]
             /\ snap'[j] = IF Terminal(j) THEN snap[j] ELSE s
  BY <1>2 DEF Update, TypeOK
<1>3. CASE BuildHashes(j)
  <2> DEFINE s == [snap[j] EXCEPT !.state = "Hashing", !.total = Pieces]
  <2>1. Update(j, s) /\ wpc[j] = "build"
    BY <1>3 DEF BuildHashes, Step
  <2>2. s.torrent = snap[j].torrent /\ s.state # "Finished"
    BY <1>1 DEF Snapshot
  <2> QED
    BY <1>2, <2>1, <2>2
<1>4. CASE HashPiece(j)
  <2> DEFINE s == [snap[j] EXCEPT !.done = PiecesDone(@)]
  <2>1. Update(j, s) /\ wpc[j] = "hash"
    BY <1>4 DEF HashPiece, Step
  <2>2. s.torrent = snap[j].torrent /\ s.state = snap[j].state
    BY <1>1 DEF Snapshot
  <2>3. ~Terminal(j) => snap[j].state # "Finished"
    BY DEF Terminal, is_terminal
  <2> QED
    BY <1>2, <2>1, <2>2, <2>3
<1>5. CASE CommitFinished(j)
  <2> DEFINE b == IF Output[j] = InMemory THEN "bytes" ELSE "none"
             s == [snap[j] EXCEPT !.state = "Finished", !.done = snap[j].total,
                                  !.torrent = b]
  <2>1. Update(j, s) /\ wpc[j] = "commit" /\ (~Terminal(j) => wpc'[j] = "done")
    BY <1>5 DEF CommitFinished, Step, TypeOK
  <2>2. s.torrent = b /\ s.state = "Finished"
    BY <1>1 DEF Snapshot
  <2> QED
    BY <1>2, <2>1, <2>2
<1>6. CASE CommitFailed(j)
  <2> DEFINE s == [snap[j] EXCEPT !.state = "Failed"]
  <2>1. Update(j, s) /\ wpc[j] = "fail"
    BY <1>6 DEF CommitFailed, Step
  <2>2. s.torrent = snap[j].torrent /\ s.state # "Finished"
    BY <1>1 DEF Snapshot
  <2> QED
    BY <1>2, <2>1, <2>2
<1>7. CASE BuildFails(j) \/ HashEnds(j) \/ CheckCancel(j) \/ WriteOutput(j)
             \/ Discard(j)
  <2>1. snap' = snap
    BY <1>7 DEF BuildFails, HashEnds, CheckCancel, WriteOutput, Discard
  <2> QED
    BY <2>1
<1> QED
  BY <1>3, <1>4, <1>5, <1>6, <1>7 DEF WorkerNext

LEMMA StoppableInit == Init => Stoppable
<1> SUFFICES ASSUME Init PROVE Stoppable
  OBVIOUS
<1>1. [state |-> "none", done |-> 0, total |-> 0, torrent |-> "none"]
         \in Snapshot
  BY PiecesAssumption DEF Snapshot, States
<1>2. TypeOK
  BY <1>1 DEF Init, TypeOK, WorkerStates, States
<1>3. \A j \in JobIds : snap[j].state = "none" /\ ~Running(j) /\ j # armed
  BY NoJobAssumption DEF Init, Running
<1> QED
  BY <1>2, <1>3 DEF Init, Stoppable, RunningWorkerIsJoinable

LEMMA StoppableStep ==
    ASSUME Stoppable, [Next]_vars
    PROVE  Stoppable'
<1> USE DEF table, canceller, worker, stream
<1>1. ASSUME NEW j \in JobIds, WorkerNext(j)
      PROVE  Stoppable'
  <2>1. TypeOK'
    BY <1>1, TypeWorker DEF Stoppable
  <2>2. /\ UNCHANGED <<table, canceller, stream, cancel, shut>>
        /\ \A i \in JobIds : i # j => wpc'[i] = wpc[i] /\ snap'[i] = snap[i]
        /\ Running(j) /\ wpc'[j] # "none"
    BY <1>1, WorkerFrame, SnapWorker DEF Stoppable
  <2>3. \A i \in JobIds : Running(i)' => Running(i)
    BY <2>2 DEF Running
  <2> QED
    BY <2>1, <2>2, <2>3 DEF Stoppable, RunningWorkerIsJoinable
<1>2. ASSUME NEW j \in JobIds,
             \/ get \/ cancel_all \/ join_workers \/ Exit \/ CancelNext
             \/ start(j) \/ cancelJob(j) \/ TtlElapses(j) \/ watch(j)
             \/ StreamNext(j)
      PROVE  Stoppable'
  <2>1. TypeOK'
    BY <1>2, TypeManager DEF Stoppable
  <2>2. \A i \in JobIds : Running(i) /\ shut = "run" => i \in Kept
    BY DEF Stoppable, RunningWorkerIsJoinable, Kept, Droppable
  <2>3. Kept \subseteq entries
    BY DEF Kept
  <2>4. \A i \in JobIds : wpc'[i] = "none" => snap'[i].state = snap[i].state
    BY <1>2, SnapManager
  <2>5. CASE start(j)
    <3>1. manager = "open" /\ manager' = "open"
      BY <2>5 DEF start, MayStart
    <3>2. /\ \A i \in JobIds : i # j => wpc'[i] = wpc[i]
          /\ wpc'[j] = "build"
          /\ entries' = Kept \cup {j} /\ handle' = handle \cup {j}
          /\ UNCHANGED <<canceller, shut>>
      BY <2>5 DEF start, Stoppable, TypeOK
    <3>3. RunningWorkerIsJoinable'
      BY <2>2, <3>2 DEF Stoppable, RunningWorkerIsJoinable, Running
    <3> QED
      BY <2>1, <2>3, <2>4, <3>1, <3>2, <3>3 DEF Stoppable
  <2>6. CASE ~start(j)
    <3>1. UNCHANGED wpc
      BY <1>2, <2>6 DEF get, cancel_all, join_workers, Exit, CancelNext,
         CancelFlag, CancelCommit, CancelReturn, cancelJob, TtlElapses, watch,
         StreamNext, StreamYield, StreamChanged
    <3>2. \A i \in JobIds : Running(i)' <=> Running(i)
      BY <3>1 DEF Running
    <3>3. CASE get
      BY <2>1, <2>2, <2>3, <2>4, <3>1, <3>2, <3>3 DEF get, Stoppable,
         RunningWorkerIsJoinable
    <3>4. CASE cancel_all
      BY <2>1, <2>4, <3>1, <3>2, <3>4 DEF cancel_all, Stoppable, TypeOK,
         RunningWorkerIsJoinable
    <3>5. CASE join_workers \/ Exit
      BY <2>1, <2>4, <3>1, <3>2, <3>5 DEF join_workers, Exit, Stoppable,
         RunningWorkerIsJoinable
    <3>6. ASSUME NEW i \in JobIds, CancelFlag(i)
          PROVE  Stoppable'
      BY <2>1, <2>4, <3>1, <3>2, <3>6 DEF CancelFlag, Stoppable,
         RunningWorkerIsJoinable
    <3>7. CASE CancelCommit
      BY <2>1, <2>4, <3>1, <3>2, <3>7, NoJobAssumption DEF CancelCommit,
         Stoppable, RunningWorkerIsJoinable
    <3>8. CASE CancelReturn
      BY <2>1, <2>4, <3>1, <3>2, <3>8 DEF CancelReturn, Stoppable,
         RunningWorkerIsJoinable
    <3>9. CASE cancelJob(j)
      BY <2>1, <2>4, <3>1, <3>2, <3>9 DEF cancelJob, Stoppable,
         RunningWorkerIsJoinable
    <3>10. CASE TtlElapses(j) \/ watch(j) \/ StreamYield(j) \/ StreamChanged(j)
      BY <2>1, <2>4, <3>1, <3>2, <3>10 DEF TtlElapses, watch, StreamYield,
         StreamChanged, Stoppable, RunningWorkerIsJoinable
    <3> QED
      BY <1>2, <2>6, <3>3, <3>4, <3>5, <3>6, <3>7, <3>8, <3>9, <3>10
      DEF CancelNext, StreamNext
  <2> QED
    BY <2>5, <2>6
<1>3. CASE UNCHANGED vars
  BY <1>3 DEF vars, Stoppable, TypeOK, RunningWorkerIsJoinable, Running
<1>4. CASE JobIds = {}
  <2>1. CASE Next
    <3>1. CASE CancelCommit
      BY <1>4, <3>1 DEF CancelCommit, Stoppable, TypeOK
    <3>2. CASE get \/ cancel_all \/ join_workers \/ Exit \/ CancelReturn
      BY <1>4, <3>2 DEF get, cancel_all, join_workers, Exit, CancelReturn, Kept,
         SeenNow, Stoppable, TypeOK, RunningWorkerIsJoinable
    <3> QED
      BY <1>4, <2>1, <3>1, <3>2 DEF Next, CancelNext
  <2> QED
    BY <1>3, <2>1
<1> QED
  BY <1>1, <1>2, <1>3, <1>4 DEF Next

(***************************************************************************)
(* Outputs.                                                                *)
(***************************************************************************)
LEMMA OutputsInit == Init => Outputs
<1> SUFFICES ASSUME Init PROVE Outputs
  OBVIOUS
<1>1. \A j \in JobIds : /\ snap[j].state = "none" /\ snap[j].torrent = "none"
                        /\ wpc[j] = "none"
  BY DEF Init
<1>2. \A p \in Paths : file[p] = NoJob
  BY DEF Init
<1> QED
  BY <1>1, <1>2 DEF Outputs, FinishedHasOutput

LEMMA OutputsManager ==
    ASSUME Stoppable, Outputs, NEW j \in JobIds,
           \/ get \/ cancel_all \/ join_workers \/ Exit \/ CancelNext
           \/ start(j) \/ cancelJob(j) \/ TtlElapses(j) \/ watch(j)
           \/ StreamNext(j)
    PROVE  Outputs'
<1> USE DEF table, canceller, worker, stream
<1>1. UNCHANGED file
  BY DEF get, cancel_all, join_workers, Exit, CancelNext, CancelFlag,
     CancelCommit, CancelReturn, start, cancelJob, TtlElapses, watch,
     StreamNext, StreamYield, StreamChanged
<1>2. \A i \in JobIds :
         wpc'[i] = wpc[i] \/ (wpc[i] = "none" /\ wpc'[i] = "build")
  BY DEF get, cancel_all, join_workers, Exit, CancelNext, CancelFlag,
     CancelCommit, CancelReturn, start, cancelJob, TtlElapses, watch,
     StreamNext, StreamYield, StreamChanged, Stoppable, TypeOK
<1>3. \A i \in JobIds : snap[i].state = "Finished" => Terminal(i)
  BY DEF Terminal, is_terminal
<1>4. \A i \in JobIds :
         /\ snap[i].state = "Finished" => snap'[i] = snap[i]
         /\ snap'[i].state = "Finished" => snap'[i] = snap[i]
         /\ snap'[i].torrent = "bytes" => snap'[i] = snap[i]
  BY <1>3, SnapManager DEF Outputs
<1>5. \A p \in Paths : file[p] # NoJob => file[p] \in JobIds
  BY DEF Stoppable, TypeOK
<1> QED
  BY <1>1, <1>2, <1>4, <1>5 DEF Outputs, FinishedHasOutput

LEMMA OutputsWorker ==
    ASSUME OwnPaths, Stoppable, Outputs, NEW j \in JobIds, WorkerNext(j)
    PROVE  Outputs'
<1>1. \A p \in Paths : file[p] # NoJob => file[p] \in JobIds
  BY DEF Stoppable, TypeOK
<1>2. \A i \in JobIds \ {j} : wpc'[i] = wpc[i] /\ snap'[i] = snap[i]
  BY WorkerFrame, SnapWorker DEF Stoppable
<1>3. /\ wpc \in [JobIds -> WorkerStates] /\ file \in [Paths -> JobIds \cup {NoJob}]
      /\ snap \in [JobIds -> Snapshot]
  BY DEF Stoppable, TypeOK
<1>4. /\ Output[j] # InMemory => Output[j] \in Paths
      /\ \A p \in Paths : p # InMemory
      /\ j # NoJob
  BY OutputAssumption, NoJobAssumption
<1>5. \A i \in JobIds : snap[i].state = "Finished" => Terminal(i)
  BY DEF Terminal, is_terminal
<1>6. CASE BuildFails(j) \/ BuildHashes(j) \/ HashPiece(j) \/ HashEnds(j)
             \/ CommitFailed(j)
  <2>1. /\ wpc[j] \in {"build", "hash", "fail"}
        /\ wpc'[j] \in {"hash", "check", "done"} /\ UNCHANGED file
    BY <1>3, <1>6 DEF BuildFails, BuildHashes, HashPiece, HashEnds,
       CommitFailed, Step
  <2>2. /\ \A p \in Paths : file[p] # j
        /\ snap'[j].state # "Finished" /\ snap'[j].torrent # "bytes"
    BY <1>4, <2>1, SnapWorker DEF Outputs, Stoppable
  <2> QED
    BY <1>1, <1>2, <2>1, <2>2 DEF Outputs, FinishedHasOutput
<1>7. CASE CheckCancel(j)
  <2>1. /\ wpc[j] = "check" /\ UNCHANGED <<file, snap>>
        /\ wpc'[j] \in {"done", "fail", "commit", "write"}
        /\ wpc'[j] = "commit" => Output[j] = InMemory
        /\ wpc'[j] = "write" => Output[j] # InMemory
    BY <1>3, <1>7 DEF CheckCancel, Step, AfterBuild, AfterError
  <2>2. (\A p \in Paths : file[p] # j) /\ snap[j].state # "Finished"
    BY <1>4, <2>1 DEF Outputs
  <2> QED
    BY <1>1, <1>2, <2>1, <2>2 DEF Outputs, FinishedHasOutput
<1>8. CASE WriteOutput(j)
  <2>1. /\ wpc[j] = "write" /\ UNCHANGED snap
        /\ \/ wpc'[j] = "commit" /\ file' = [file EXCEPT ![Output[j]] = j]
           \/ wpc'[j] = "fail" /\ file' = file
    BY <1>3, <1>8 DEF WriteOutput, Step
  <2>2. /\ \A p \in Paths : file[p] # j
        /\ snap[j].state # "Finished" /\ Output[j] \in Paths
    BY <1>4, <2>1 DEF Outputs
  <2>3. \A i \in JobIds \ {j} : Output[i] # Output[j]
    BY <1>4, <2>2 DEF OwnPaths
  <2>4. CASE file' = file /\ wpc'[j] = "fail"
    BY <1>1, <1>2, <2>1, <2>2, <2>4 DEF Outputs, FinishedHasOutput
  <2>5. CASE file' = [file EXCEPT ![Output[j]] = j] /\ wpc'[j] = "commit"
    <3>1. /\ file'[Output[j]] = j
          /\ \A p \in Paths \ {Output[j]} : file'[p] = file[p]
      BY <1>3, <2>2, <2>5
    <3>2. \A i \in JobIds \ {j} : Output[i] # InMemory => Output[i] \in Paths
      BY OutputAssumption
    <3> QED
      BY <1>1, <1>2, <1>4, <2>1, <2>2, <2>3, <2>5, <3>1, <3>2 DEF Outputs,
         FinishedHasOutput
  <2> QED
    BY <2>1, <2>4, <2>5
<1>9. CASE CommitFinished(j)
  <2>1. /\ wpc[j] = "commit" /\ UNCHANGED file
        /\ ~Terminal(j) => wpc'[j] = "done"
        /\ Terminal(j) => wpc'[j] = IF Output[j] = InMemory THEN "done"
                                                            ELSE "discard"
    BY <1>3, <1>9 DEF CommitFinished, Step, AfterLostCommit
  <2>2. /\ snap[j].state # "Finished"
        /\ Output[j] # InMemory => file[Output[j]] = j
        /\ Output[j] = InMemory => \A p \in Paths : file[p] # j
    BY <1>4, <2>1 DEF Outputs
  <2>3. CASE Terminal(j)
    <3>1. snap'[j] = snap[j]
      BY <2>3, SnapWorker DEF Stoppable
    <3> QED
      BY <1>1, <1>2, <2>1, <2>2, <2>3, <3>1 DEF Outputs, FinishedHasOutput
  <2>4. CASE ~Terminal(j)
    <3>1. /\ snap'[j].state = "Finished" /\ wpc'[j] = "done"
          /\ Output[j] = InMemory => snap'[j].torrent = "bytes"
      <4> DEFINE b == IF Output[j] = InMemory THEN "bytes" ELSE "none"
      <4>1. snap'[j] = [snap[j] EXCEPT !.state = "Finished",
                                       !.done = snap[j].total, !.torrent = b]
        BY <1>3, <1>9, <2>4 DEF CommitFinished, Update
      <4>2. snap[j] \in Snapshot
        BY <1>3
      <4> QED
        BY <2>1, <2>4, <4>1, <4>2 DEF Snapshot
    <3> QED
      BY <1>1, <1>2, <2>1, <2>2, <3>1 DEF Outputs, FinishedHasOutput
  <2> QED
    BY <2>3, <2>4
<1>10. CASE Discard(j)
  <2>1. /\ wpc[j] = "discard" /\ wpc'[j] = "done" /\ UNCHANGED snap
        /\ file' = [file EXCEPT ![Output[j]] = NoJob]
    BY <1>3, <1>10 DEF Discard, Step
  <2>2. snap[j].state # "Finished" /\ Output[j] \in Paths
    BY <1>4, <2>1 DEF Outputs
  <2>3. /\ file'[Output[j]] = NoJob
        /\ \A p \in Paths \ {Output[j]} : file'[p] = file[p]
    BY <1>3, <2>1, <2>2
  <2>4. \A i \in JobIds \ {j} :
           Output[i] # Output[j] /\ (Output[i] # InMemory => Output[i] \in Paths)
    BY <1>4, <2>2, OutputAssumption DEF OwnPaths
  <2> QED
    BY <1>1, <1>2, <2>1, <2>2, <2>3, <2>4 DEF Outputs, FinishedHasOutput
<1> QED
  BY <1>6, <1>7, <1>8, <1>9, <1>10 DEF WorkerNext

(***************************************************************************)
(* The progress streams.                                                   *)
(***************************************************************************)

\* A snapshot that changes wakes the stream, and an end stays.
LEMMA Wakes ==
    ASSUME Stoppable, Next
    PROVE  \A i \in JobIds :
             /\ Terminal(i) => Terminal(i)'
             /\ ~Terminal(i) /\ Terminal(i)' => i \in unseen'
             /\ wpc[i] # "none" => wpc'[i] # "none"
<1> USE DEF table, canceller, worker, stream
<1>1. ASSUME NEW j \in JobIds, WorkerNext(j), NEW i \in JobIds
      PROVE  /\ Terminal(i) => Terminal(i)'
             /\ ~Terminal(i) /\ Terminal(i)' => i \in unseen'
             /\ wpc[i] # "none" => wpc'[i] # "none"
  <2>1. /\ i # j => snap'[i] = snap[i] /\ wpc'[i] = wpc[i]
        /\ Terminal(i) => snap'[i] = snap[i]
        /\ wpc'[j] # "none"
    BY <1>1, SnapWorker, WorkerFrame DEF Stoppable
  <2>2. i = j => snap'[i] = snap[i] \/ i \in unseen'
    BY <1>1 DEF WorkerNext, BuildFails, BuildHashes, HashPiece, HashEnds, CheckCancel,
       WriteOutput, CommitFinished, CommitFailed, Discard, Update
  <2> QED
    BY <2>1, <2>2 DEF Terminal
<1>2. ASSUME NEW j \in JobIds, NEW i \in JobIds,
             \/ get \/ cancel_all \/ join_workers \/ Exit \/ CancelNext
             \/ start(j) \/ cancelJob(j) \/ TtlElapses(j) \/ watch(j)
             \/ StreamNext(j)
      PROVE  /\ Terminal(i) => Terminal(i)'
             /\ ~Terminal(i) /\ Terminal(i)' => i \in unseen'
             /\ wpc[i] # "none" => wpc'[i] # "none"
  <2>1. snap'[i] = snap[i] \/ (~Terminal(i) /\ wpc'[i] # "none")
    BY <1>2, SnapManager
  <2>2. wpc[i] # "none" => wpc'[i] # "none"
    BY <1>2 DEF get, cancel_all, join_workers, Exit, CancelNext, CancelFlag, CancelCommit,
       CancelReturn, start, cancelJob, TtlElapses, watch, StreamNext, StreamYield,
       StreamChanged, Stoppable, TypeOK
  <2>3. CASE start(j)
    <3>1. i # j => snap'[i] = snap[i]
      BY <2>3 DEF start, Stoppable, TypeOK
    <3>2. snap'[j].state = "Listing"
      BY <2>3 DEF start, Stoppable, TypeOK, Snapshot
    <3> QED
      BY <2>1, <2>2, <3>1, <3>2 DEF Terminal, is_terminal
  <2>4. CASE CancelCommit
    <3>1. snap'[i] = snap[i] \/ i \in unseen'
      BY <2>4 DEF CancelCommit, Update, Stoppable, TypeOK
    <3> QED
      BY <2>1, <2>2, <3>1 DEF Terminal
  <2>5. CASE ~(start(j) \/ CancelCommit)
    <3>1. snap' = snap
      BY <1>2, <2>5 DEF get, cancel_all, join_workers, Exit, CancelNext, CancelFlag,
         CancelReturn, cancelJob, TtlElapses, watch, StreamNext, StreamYield, StreamChanged
    <3> QED
      BY <2>2, <3>1 DEF Terminal
  <2> QED
    BY <2>3, <2>4, <2>5
<1> QED
  BY <1>1, <1>2 DEF Next

\* Only the entry of a job that has ended is dropped.
LEMMA EntriesKept ==
    ASSUME Stoppable, Next
    PROVE  /\ \A i \in entries \ entries' : Terminal(i)
           /\ \A i \in JobIds : wpc[i] = "none" /\ wpc'[i] # "none" => i \in entries'
<1> USE DEF table, canceller, worker, stream
<1>1. \A i \in entries \ Kept : Terminal(i)
  BY DEF Kept, Droppable
<1>2. ASSUME NEW j \in JobIds, start(j)
      PROVE  /\ \A i \in entries \ entries' : Terminal(i)
             /\ \A i \in JobIds : wpc[i] = "none" /\ wpc'[i] # "none" => i \in entries'
  BY <1>1, <1>2 DEF start, Stoppable, TypeOK
<1>3. ASSUME NEW j \in JobIds, WorkerNext(j)
      PROVE  /\ \A i \in entries \ entries' : Terminal(i)
             /\ \A i \in JobIds : wpc[i] = "none" /\ wpc'[i] # "none" => i \in entries'
  BY <1>3, WorkerFrame DEF Stoppable, Running
<1>4. CASE get
  BY <1>1, <1>4 DEF get
<1>5. ASSUME \A j \in JobIds : ~start(j) /\ ~WorkerNext(j), ~get
      PROVE  UNCHANGED <<entries, wpc>>
  BY <1>5 DEF Next, cancel_all, join_workers, Exit, CancelNext, CancelFlag, CancelCommit,
     CancelReturn, cancelJob, TtlElapses, watch, StreamNext, StreamYield, StreamChanged
<1> QED
  BY <1>2, <1>3, <1>4, <1>5

\* What a stream does.
LEMMA SubSteps ==
    ASSUME Stoppable, Next, NEW i \in JobIds
    PROVE  /\ sub[i] = "none" /\ sub'[i] # "none" => i \in entries
           /\ sub'[i] = "wait" /\ i \notin unseen' =>
                \/ sub[i] = "wait" /\ i \notin unseen
                \/ ~Terminal(i) /\ ~Terminal(i)'
<1> USE DEF table, canceller, worker, stream
<1>1. ASSUME NEW j \in JobIds, watch(j) \/ StreamChanged(j)
      PROVE  /\ sub[i] = "none" /\ sub'[i] # "none" => i \in entries
             /\ sub'[i] = "wait" => sub[i] = "wait"
             /\ unseen' = unseen
  BY <1>1 DEF watch, StreamChanged, Stoppable, TypeOK
<1>2. ASSUME NEW j \in JobIds, StreamYield(j)
      PROVE  /\ sub[i] = "none" /\ sub'[i] # "none" => i \in entries
             /\ sub'[i] = "wait" /\ i \notin unseen' =>
                  \/ sub[i] = "wait" /\ i \notin unseen
                  \/ ~Terminal(i) /\ ~Terminal(i)'
  <2>1. Terminal(i)' = Terminal(i)
    BY <1>2 DEF StreamYield, Terminal
  <2>2. /\ i = j => sub[i] = "yield" /\ sub'[i] = IF Terminal(i) THEN "done" ELSE "wait"
        /\ i # j => sub'[i] = sub[i] /\ (i \in unseen' <=> i \in unseen)
    BY <1>2 DEF StreamYield, Stoppable, TypeOK
  <2> QED
    BY <2>1, <2>2
<1>3. ASSUME \A j \in JobIds : ~watch(j) /\ ~StreamNext(j)
      PROVE  sub' = sub /\ unseen \subseteq unseen'
  BY <1>3 DEF Next, WorkerNext, BuildFails, BuildHashes, HashPiece, HashEnds, CheckCancel,
     WriteOutput, CommitFinished, CommitFailed, Discard, Update, get, cancel_all,
     join_workers, Exit, CancelNext, CancelFlag, CancelCommit, CancelReturn, cancelJob,
     TtlElapses, start
<1> QED
  BY <1>1, <1>2, <1>3 DEF StreamNext

LEMMA WatchingStep ==
    ASSUME Stoppable, Watching, [Next]_vars
    PROVE  Watching'
<1>1. CASE UNCHANGED vars
  BY <1>1 DEF vars, table, worker, stream, Watching, Terminal
<1>2. CASE Next
  <2> SUFFICES ASSUME NEW i \in JobIds
               PROVE  /\ wpc'[i] # "none" /\ i \notin entries' => Terminal(i)'
                      /\ sub'[i] # "none" => wpc'[i] # "none"
                      /\ sub'[i] = "wait" /\ i \notin unseen' => ~Terminal(i)'
    BY DEF Watching
  <2>1. /\ Terminal(i) => Terminal(i)'
        /\ ~Terminal(i) /\ Terminal(i)' => i \in unseen'
        /\ wpc[i] # "none" => wpc'[i] # "none"
    BY <1>2, Wakes
  <2>2. /\ i \in entries \ entries' => Terminal(i)
        /\ wpc[i] = "none" /\ wpc'[i] # "none" => i \in entries'
    BY <1>2, EntriesKept
  <2>3. /\ sub[i] = "none" /\ sub'[i] # "none" => i \in entries
        /\ sub'[i] = "wait" /\ i \notin unseen' =>
             \/ sub[i] = "wait" /\ i \notin unseen
             \/ ~Terminal(i) /\ ~Terminal(i)'
    BY <1>2, SubSteps
  <2>4. i \in entries => wpc[i] # "none"
    BY DEF Stoppable
  <2> QED
    BY <2>1, <2>2, <2>3, <2>4 DEF Watching
<1> QED
  BY <1>1, <1>2

(***************************************************************************)
(* The theorems.                                                           *)
(***************************************************************************)

\* The inductive invariant of start, prune, cancel_all and join_workers: no
\* worker is outside the reach of the manager.
THEOREM StoppableInvariant == Spec => []Stoppable
<1>1. Init => Stoppable
  BY StoppableInit
<1>2. Stoppable /\ [Next]_vars => Stoppable'
  BY StoppableStep
<1> QED
  BY <1>1, <1>2, PTL DEF Spec

\* Every variable of the manager, the jobs and the streams keeps its type.
THEOREM TypeCorrect == Spec => []TypeOK
<1>1. Stoppable => TypeOK
  BY DEF Stoppable
<1> QED
  BY <1>1, StoppableInvariant, PTL

\* cancel_all reaches every worker, and a job cannot be started behind it.
THEOREM StopIsComplete == Spec => []StopReachesAll
<1>1. Stoppable => StopReachesAll
  BY DEF Stoppable, StopReachesAll
<1> QED
  BY <1>1, StoppableInvariant, PTL

\* prune never drops the entry, and with it the handle, of a running worker.
THEOREM PruneKeepsRunning == Spec => []RunningWorkerIsJoinable
<1>1. Stoppable => RunningWorkerIsJoinable
  BY DEF Stoppable
<1> QED
  BY <1>1, StoppableInvariant, PTL

\* commit_terminal and the guarded progress updates: the first terminal state
\* of a job is its last.
THEOREM TerminalIsFinal == Spec => FirstTerminalWins
<1>1. Stoppable /\ [Next]_vars
         => [\A j \in JobIds : Terminal(j) => snap'[j] = snap[j]]_vars
  <2> SUFFICES ASSUME Stoppable, Next, NEW i \in JobIds, Terminal(i)
               PROVE  snap'[i] = snap[i]
    OBVIOUS
  <2>1. ASSUME NEW j \in JobIds, WorkerNext(j)
        PROVE  snap'[i] = snap[i]
    BY <2>1, SnapWorker DEF Stoppable
  <2>2. ASSUME NEW j \in JobIds,
               \/ get \/ cancel_all \/ join_workers \/ Exit \/ CancelNext
               \/ start(j) \/ cancelJob(j) \/ TtlElapses(j) \/ watch(j)
               \/ StreamNext(j)
        PROVE  snap'[i] = snap[i]
    BY <2>2, SnapManager
  <2> QED
    BY <2>1, <2>2 DEF Next
<1> QED
  BY <1>1, StoppableInvariant, PTL DEF Spec, FirstTerminalWins

\* The inductive invariant of run_job's end: what is at a path belongs to a
\* worker that will commit or discard it, or to a job that reported Finished.
THEOREM OutputsInvariant == OwnPaths => (Spec => []Outputs)
<1> SUFFICES ASSUME OwnPaths PROVE Spec => []Outputs
  OBVIOUS
<1>1. Init => Outputs
  BY OutputsInit
<1>2. Stoppable /\ Outputs /\ [Next]_vars => Outputs'
  <2> SUFFICES ASSUME Stoppable, Outputs, [Next]_vars PROVE Outputs'
    OBVIOUS
  <2>1. CASE UNCHANGED vars
    BY <2>1 DEF vars, worker, Outputs, FinishedHasOutput
  <2>2. ASSUME NEW j \in JobIds, WorkerNext(j)
        PROVE  Outputs'
    BY <2>2, OutputsWorker
  <2>3. ASSUME NEW j \in JobIds,
               \/ get \/ cancel_all \/ join_workers \/ Exit \/ CancelNext
               \/ start(j) \/ cancelJob(j) \/ TtlElapses(j) \/ watch(j)
               \/ StreamNext(j)
        PROVE  Outputs'
    BY <2>3, OutputsManager
  <2>4. CASE JobIds = {}
    <3>1. Stoppable'
      BY StoppableStep
    <3>2. \A p \in Paths : file'[p] = NoJob
      BY <2>4, <3>1 DEF Stoppable, TypeOK
    <3> QED
      BY <2>4, <3>2 DEF Outputs, FinishedHasOutput
  <2> QED
    BY <2>1, <2>2, <2>3, <2>4 DEF Next
<1> QED
  BY <1>1, <1>2, StoppableInvariant, PTL DEF Spec

\* Where no two jobs share a path, a job reported Finished has its output.
THEOREM FinishedIsThere == OwnPaths => (Spec => []FinishedHasOutput)
<1>1. Outputs => FinishedHasOutput
  BY DEF Outputs
<1> QED
  BY <1>1, OutputsInvariant, PTL

\* Where no two jobs share a path, a cancelled or failed job whose worker has
\* ended has left nothing, whichever of cancel and completion came first.
THEOREM NothingLeftOver == OwnPaths => (Spec => []NoOutputUnlessFinished)
<1>1. Stoppable /\ Outputs => NoOutputUnlessFinished
  <2> SUFFICES ASSUME Stoppable, Outputs, NEW j \in JobIds, wpc[j] = "done",
                      snap[j].state # "Finished"
               PROVE  snap[j].torrent = "none" /\ \A p \in Paths : file[p] # j
    BY DEF NoOutputUnlessFinished
  <2>1. snap[j].torrent \in {"none", "bytes"}
    BY DEF Stoppable, TypeOK, Snapshot
  <2> QED
    BY <2>1, NoJobAssumption DEF Outputs
<1> QED
  BY <1>1, OutputsInvariant, StoppableInvariant, PTL

\* A progress stream that waits with nothing left to yield still has a sender,
\* also if the job ends and is pruned between two polls: it has not been told
\* of an end, and only the entry of a job that has ended is dropped
\* (subscription.rs:202, prune).
THEOREM StreamsAreNotCut == Spec => []StreamNeverCut
<1>1. Init => Watching
  BY DEF Init, Watching
<1>2. Stoppable /\ Watching /\ [Next]_vars => Watching'
  BY WatchingStep
<1>3. Watching => StreamNeverCut
  BY DEF Watching, StreamNeverCut, ChannelClosed
<1> QED
  BY <1>1, <1>2, <1>3, StoppableInvariant, PTL DEF Spec
===============================================================================
