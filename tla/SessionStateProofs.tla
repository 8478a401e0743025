-------------------------- MODULE SessionStateProofs --------------------------
(***************************************************************************)
(* Proofs about SessionState: what session.state holds never moves back    *)
(* and is never older than what a client was told, for any number of       *)
(* calls, settings, changes and restarts.                                  *)
(*                                                                         *)
(* The argument follows the lock.  Only its holder can put a snapshot in   *)
(* the queue, so the queued snapshots grow from the stored one to the      *)
(* newest; a holder whose write is pending owns the last of them, and the  *)
(* others lie below the session it would roll back to.                     *)
(***************************************************************************)
EXTENDS SessionState, SequenceTheorems, TLAPS

Leq(a, b) == \A p \in Parts : a[p] <= b[p]

\* Everything queued or stored, except what w queued, is below val.
Covers(val, w) ==
    /\ Leq(Stored, val)
    /\ \A i \in 1..Len(queue) :
         queue[i].kind = "state" /\ queue[i].by # w => Leq(queue[i].st.val, val)

(***************************************************************************)
(* The inductive invariant.                                                *)
(***************************************************************************)

\* Exactly the writers in the critical section hold the lock.
LockInv == \A w \in Writers : lock = w <=> wpc[w] \in Holding

\* Stamps are given out by the clock.
ClockInv == \A p \in Parts : session.val[p] <= clock

\* The queued snapshots grow, from the stored one.
ChainInv ==
    \A i \in 1..Len(queue) : queue[i].kind = "state" =>
        /\ Leq(Stored, queue[i].st.val)
        /\ \A j \in 1..Len(queue) :
             i < j /\ queue[j].kind = "state" => Leq(queue[i].st.val, queue[j].st.val)

\* With the lock free, nothing stored or queued is ahead of the session.
FreeInv == lock = Nobody => Covers(session.val, Nobody)

\* What the holder of the lock may rely on: the session was only raised
\* since, everyone else's snapshots are below what it would roll back to, its
\* own is the last in the queue until it is answered, and a positive answer
\* means that it is stored.
Ordered ==
    Leq(held.previous.val, held.snap.val) /\ Leq(held.snap.val, session.val)

NoneOf(w) == \A i \in 1..Len(queue) : queue[i].by # w

OwnIsLast(w) ==
    \A i \in 1..Len(queue) : queue[i].kind = "state" /\ queue[i].by = w =>
        /\ queue[i].st = held.snap
        /\ \A j \in 1..Len(queue) : i < j => queue[j].kind # "state"

IsStored ==
    Stored = held.snap.val /\ \A i \in 1..Len(queue) : queue[i].kind # "state"

Marked(c) ==
    held.snap.val[target[c]] = stamp[c] /\ held.previous.val[target[c]] < stamp[c]

\* A writer that has not sent yet has nothing queued.
UnsentInv ==
    \A w \in Writers : wpc[w] \in {"idle", "lock", "saved", "sending"} => NoneOf(w)

HolderInv ==
    \A w \in Writers : lock = w =>
        /\ Ordered
        /\ wpc[w] # "acked" => Covers(held.previous.val, w)
        /\ wpc[w] \in {"nacked", "failed"} => NoneOf(w)
        /\ wpc[w] = "acking" => OwnIsLast(w)
        /\ wpc[w] = "acked" => IsStored
        /\ w \in Calls => Marked(w)

\* A file that does not load counts as the state a session starts with.
DiskInv == disk.kind # "valid" => disk.st = Fresh

\* The final checkpoint belongs to the shutdown.
IdleInv == sd = "run" => wpc[Final] = "idle"

AckInv == Leq(acked, Stored)

CoreInv ==
    /\ TypeOK /\ LockInv /\ ClockInv /\ ChainInv /\ UnsentInv /\ FreeInv
    /\ HolderInv /\ DiskInv /\ IdleInv /\ AckInv

PinInv ==
    sd # "off" => session.mask = "pinned" /\ (lock # Nobody => held.previous.mask = "pinned")

\* The stamp of a failed call is nowhere.
Failed(c) == wpc[c] = "err" /\ stamp[c] # 0 /\ c \notin unrolled

Nowhere(c) ==
    /\ session.val[target[c]] # stamp[c]
    /\ Stored[target[c]] # stamp[c]
    /\ lock # Nobody => /\ held.previous.val[target[c]] # stamp[c]
                        /\ held.snap.val[target[c]] # stamp[c]
    /\ \A i \in 1..Len(queue) : queue[i].st.val[target[c]] # stamp[c]

FreshInv ==
    \A c \in Calls :
        /\ stamp[c] <= clock
        /\ wpc[c] \in {"idle", "lock"} => stamp[c] = 0
        /\ Failed(c) => Nowhere(c)

(***************************************************************************)
(* The queue.                                                              *)
(***************************************************************************)

\* The persister takes the head; the rest moves up.
LEMMA QueueTail ==
    ASSUME TypeOK, queue # <<>>, queue' = Tail(queue)
    PROVE  /\ queue' \in Seq(Ops) /\ Len(queue') = Len(queue) - 1
           /\ Len(queue) \in Nat \ {0}
           /\ Head(queue) = queue[1] /\ queue[1] \in Ops
           /\ \A i \in 1..Len(queue') :
                i \in Nat /\ i + 1 \in 1..Len(queue) /\ queue'[i] = queue[i + 1]
<1>1. queue \in Seq(Ops)
  BY DEF TypeOK
<1> QED
  BY <1>1, HeadTailProperties

\* A writer or the pump appends.
LEMMA QueueAppend ==
    ASSUME TypeOK, NEW op \in Ops, queue' = Append(queue, op)
    PROVE  /\ queue' \in Seq(Ops) /\ Len(queue') = Len(queue) + 1
           /\ Len(queue) \in Nat
           /\ queue'[Len(queue) + 1] = op
           /\ \A i \in 1..Len(queue) : queue'[i] = queue[i]
           /\ \A i \in 1..Len(queue') :
                i \in 1..Len(queue) \/ i = Len(queue) + 1
<1>1. queue \in Seq(Ops)
  BY DEF TypeOK
<1> QED
  BY <1>1, AppendProperties

(***************************************************************************)
(* Type correctness.                                                       *)
(***************************************************************************)

\* A fresh session, the locals of a writer that holds none, and the
\* operations put into the queue have their types.
LEMMA ConstantTypes ==
    ASSUME TypeOK
    PROVE  /\ Fresh \in State /\ NoLocals \in [previous : State, snap : State]
           /\ ResumeOp \in Ops
           /\ \A w \in Writers : StateOp(w) \in Ops
<1>1. Fresh \in State
  BY DEF Fresh, State, Masks
<1>2. held.snap \in State
  BY DEF TypeOK
<1> QED
  BY <1>1, <1>2 DEF NoLocals, ResumeOp, StateOp, Ops

\* What the queued operations and the stamps in the other variables are.
LEMMA QueueTypes ==
    ASSUME TypeOK
    PROVE  /\ Len(queue) \in Nat
           /\ \A i \in 1..Len(queue) :
                /\ queue[i].st \in State /\ queue[i].st.val \in [Parts -> Nat]
                /\ \/ queue[i].kind = "state" /\ queue[i].by \in Writers
                   \/ /\ queue[i].kind = "resume" /\ queue[i].by = Nobody
                      /\ queue[i] = ResumeOp
<1>1. queue \in Seq(Ops) /\ Fresh \in State
  BY ConstantTypes DEF TypeOK
<1>2. ASSUME NEW i \in 1..Len(queue) PROVE queue[i] \in Ops
  BY <1>1
<1>3. ASSUME NEW op \in Ops
      PROVE  /\ op.st \in State
             /\ \/ op.kind = "state" /\ op.by \in Writers
                \/ op.kind = "resume" /\ op.by = Nobody /\ op = ResumeOp
  <2>1. CASE op = ResumeOp
    BY <1>1, <2>1 DEF ResumeOp
  <2>2. CASE op \in [kind : {"state"}, by : Writers, st : State]
    BY <2>2
  <2> QED
    BY <2>1, <2>2 DEF Ops
<1>4. ASSUME NEW st \in State PROVE st.val \in [Parts -> Nat]
  BY DEF State
<1>5. Len(queue) \in Nat
  BY <1>1
<1> QED
  BY <1>2, <1>3, <1>4, <1>5

LEMMA ValueTypes ==
    ASSUME TypeOK
    PROVE  /\ Stored \in [Parts -> Nat] /\ session.val \in [Parts -> Nat]
           /\ held.previous.val \in [Parts -> Nat]
           /\ held.snap.val \in [Parts -> Nat]
           /\ clock \in Nat /\ Nobody \notin Writers
  BY WritersAssumption DEF TypeOK, State, Stored

LEMMA TypeInit == Init => TypeOK
<1> SUFFICES ASSUME Init PROVE TypeOK
  OBVIOUS
<1>1. Fresh \in State /\ [Fresh EXCEPT !.mask = "other"] \in State
  BY DEF Fresh, State, Masks
<1>2. disk \in [kind : {"absent", "corrupt", "valid"}, st : State]
  BY <1>1 DEF Init, Absent, Corrupt, File
<1>3. queue \in Seq(Ops) /\ Len(queue) <= QueueCap
  BY BoundsAssumption DEF Init
<1> QED
  BY <1>1, <1>2, <1>3, PartsAssumption
  DEF Init, TypeOK, NoLocals, Phases, Parts, Writers

LEMMA StampType ==
    \A f \in [Parts -> Nat] : \A p : \A n \in Nat :
        [f EXCEPT ![p] = n] \in [Parts -> Nat]
  OBVIOUS

\* What a change does to the parts of the session, and to its alert mask.
LEMMA DhtEffect ==
    ASSUME TypeOK, DhtLearns
    PROVE  /\ session'.val \in [Parts -> Nat] /\ session'.mask = session.mask
           /\ session' = [val |-> session'.val, mask |-> session'.mask]
           /\ session'.val = [session.val EXCEPT ![Dht] = clock + 1]
<1>1. session = [val |-> session.val, mask |-> session.mask]
      /\ session.val \in [Parts -> Nat] /\ clock \in Nat
  BY DEF TypeOK, State
<1>2. session' = [session EXCEPT !.val = [session.val EXCEPT ![Dht] = clock + 1]]
  BY DEF DhtLearns
<1>3. session' = [val |-> [session.val EXCEPT ![Dht] = clock + 1],
                  mask |-> session.mask]
  BY <1>1, <1>2
<1>4. [session.val EXCEPT ![Dht] = clock + 1] \in [Parts -> Nat]
  <2>1. clock + 1 \in Nat
    BY <1>1
  <2> QED
    BY <1>1, <2>1, StampType
<1> QED
  BY <1>3, <1>4

LEMMA ApplyEffect ==
    ASSUME TypeOK, NEW c \in Calls, Apply(c)
    PROVE  /\ session'.val = [session.val EXCEPT ![target[c]] = clock + 1]
           /\ session'.val \in [Parts -> Nat]
           /\ session'.mask \in {session.mask, "pinned"} /\ session'.mask \in Masks
           /\ session' = [val |-> session'.val, mask |-> session'.mask]
<1>1. session = [val |-> session.val, mask |-> session.mask]
      /\ session.val \in [Parts -> Nat] /\ clock \in Nat /\ session.mask \in Masks
  BY DEF TypeOK, State
<1>2. PICK touched \in BOOLEAN : session' = Changed(c, touched)
  BY DEF Apply
<1> DEFINE val == [session.val EXCEPT ![target[c]] = clock + 1]
           mask == IF target[c] = Filter THEN session.mask ELSE PackMask(touched)
<1>3. session' = [[session EXCEPT !.val = val] EXCEPT !.mask = mask]
  BY <1>1, <1>2 DEF Changed
<1>4. session' = [val |-> val, mask |-> mask]
  BY <1>1, <1>3
<1>5. val \in [Parts -> Nat]
  <2>1. clock + 1 \in Nat
    BY <1>1
  <2> QED
    BY <1>1, <2>1, StampType
<1>6. mask \in {session.mask, "pinned"} /\ mask \in Masks
  BY <1>1 DEF PackMask, Masks
<1> QED
  BY <1>4, <1>5, <1>6

LEMMA TypeEngine ==
    ASSUME TypeOK,
           \/ Start \/ DhtLearns \/ StartCheckpoint \/ PumpSends
           \/ PersistResume \/ PersistState
           \/ BeginShutdown \/ TakeSession \/ DropSender \/ PersisterJoined
           \/ Crash
    PROVE  TypeOK'
<1> USE DEF engineVars, callVars, history
<1>0. Fresh \in State /\ NoLocals \in [previous : State, snap : State]
  BY ConstantTypes
<1>1. CASE Start
  <2>1. session' \in State
    BY <1>1 DEF Start, Repinned, State, Masks, TypeOK
  <2>2. disk' \in [kind : {"absent", "corrupt", "valid"}, st : State]
    BY <1>0, <1>1 DEF Start, Quarantined, Absent, TypeOK
  <2>3. queue' \in Seq(Ops) /\ Len(queue') <= QueueCap
    BY <1>1, BoundsAssumption DEF Start
  <2> QED
    BY <1>0, <1>1, <2>1, <2>2, <2>3 DEF Start, TypeOK, Phases
<1>2. CASE DhtLearns
  <2>1. session' \in State
    BY <1>2, DhtEffect DEF State, Masks, TypeOK
  <2> QED
    BY <1>2, <2>1 DEF DhtLearns, TypeOK
<1>3. CASE StartCheckpoint
  BY <1>3 DEF StartCheckpoint, TypeOK, Active
<1>4. CASE PumpSends
  <2>1. queue' \in Seq(Ops) /\ Len(queue') <= QueueCap
    BY <1>4, QueueAppend, ConstantTypes, BoundsAssumption DEF PumpSends
  <2> QED
    BY <1>4, <2>1 DEF PumpSends, TypeOK
<1>5. CASE PersistResume
  <2>1. queue' \in Seq(Ops) /\ Len(queue') <= QueueCap
    BY <1>5, QueueTail, BoundsAssumption DEF PersistResume, TypeOK
  <2> QED
    BY <1>5, <2>1 DEF PersistResume, TypeOK
<1>6. CASE PersistState
  <2>1. queue' \in Seq(Ops) /\ Len(queue') <= QueueCap /\ Head(queue).st \in State
    BY <1>6, QueueTail, QueueTypes, BoundsAssumption DEF PersistState, TypeOK
  <2>2. disk' \in [kind : {"absent", "corrupt", "valid"}, st : State]
    BY <1>6, <2>1 DEF PersistState, File, TypeOK
  <2>3. wpc' \in [Writers -> {"idle"} \cup Active \cup Ended]
    BY <1>6 DEF PersistState, Answer, TypeOK, Active, Holding
  <2> QED
    BY <1>6, <2>1, <2>2, <2>3 DEF PersistState, TypeOK
<1>7. CASE BeginShutdown
  BY <1>7 DEF BeginShutdown, TypeOK, Active, Phases
<1>8. CASE TakeSession
  BY <1>8 DEF TakeSession, TypeOK, Phases
<1>9. CASE DropSender
  BY <1>9 DEF DropSender, TypeOK, Phases
<1>10. CASE PersisterJoined
  BY <1>10 DEF PersisterJoined, TypeOK, Phases
<1>11. CASE Crash
  <2>1. queue' \in Seq(Ops) /\ Len(queue') <= QueueCap
    BY <1>11, BoundsAssumption DEF Crash
  <2> QED
    BY <1>0, <1>11, <2>1 DEF Crash, TypeOK, Phases, Ended
<1> QED
  BY <1>1, <1>2, <1>3, <1>4, <1>5, <1>6, <1>7, <1>8, <1>9, <1>10, <1>11

LEMMA TypeWriter ==
    ASSUME TypeOK, NEW w \in Writers,
           Locks(w) \/ GetSender(w) \/ Send(w) \/ Return(w) \/ Fails(w) \/ Drop(w)
    PROVE  TypeOK'
<1> USE DEF engineVars, callVars, history
<1>0. NoLocals \in [previous : State, snap : State]
  BY ConstantTypes
<1>1. CASE w \in Calls /\ Refused(w)
  BY <1>1 DEF Refused, TypeOK, Ended
<1>2. CASE w \in Calls /\ Apply(w)
  <2>1. /\ session'.val \in [Parts -> Nat] /\ session'.mask \in Masks
        /\ session' = [val |-> session'.val, mask |-> session'.mask]
    BY <1>2, ApplyEffect
  <2>2. session' \in State
    BY <2>1 DEF State
  <2>3. held' \in [previous : State, snap : State] /\ clock' \in Nat
        /\ stamp' \in [Calls -> Nat]
    BY <1>2, <2>2 DEF Apply, TypeOK
  <2>4. wpc' \in [Writers -> {"idle"} \cup Active \cup Ended]
    BY <1>2 DEF Apply, Serialized, TypeOK, Active, Holding
  <2> QED
    BY <1>2, <2>2, <2>3, <2>4 DEF Apply, TypeOK
<1>3. CASE w \notin Calls /\ Snapshot(w)
  BY <1>3 DEF Snapshot, Serialized, TypeOK, Active, Holding
<1>4. CASE GetSender(w)
  BY <1>4 DEF GetSender, TypeOK, Active, Holding
<1>5. CASE Send(w)
  <2>1. queue' \in Seq(Ops) /\ Len(queue') <= QueueCap
    BY <1>5, QueueAppend, ConstantTypes, BoundsAssumption DEF Send
  <2> QED
    BY <1>5, <2>1 DEF Send, TypeOK, Active, Holding
<1>6. CASE Return(w)
  <2>1. held.snap.val \in [Parts -> Nat]
    BY DEF TypeOK, State
  <2>2. final' \in [Parts -> Nat] /\ acked' \in [Parts -> Nat]
    BY <1>6, <2>1 DEF Return, TypeOK
  <2> QED
    BY <1>0, <1>6, <2>2 DEF Return, TypeOK, Ended
<1>7. CASE w \in Calls /\ RollBack(w)
  <2>1. Restored(w) \in State
    BY DEF Restored, RestoredNames, State, TypeOK
  <2>2. session' \in State /\ unrolled' \subseteq Calls
    BY <1>7, <2>1 DEF RollBack, TypeOK
  <2> QED
    BY <1>0, <1>7, <2>2 DEF RollBack, TypeOK, Ended
<1>8. CASE w \notin Calls /\ GiveUp(w)
  BY <1>0, <1>8 DEF GiveUp, TypeOK, Ended
<1>9. CASE Drop(w)
  BY <1>0, <1>9 DEF Drop, Release, TypeOK, Ended
<1> QED
  BY <1>1, <1>2, <1>3, <1>4, <1>5, <1>6, <1>7, <1>8, <1>9 DEF Locks, Fails

LEMMA TypeNext == TypeOK /\ [Next]_vars => TypeOK'
<1> SUFFICES ASSUME TypeOK, [Next]_vars PROVE TypeOK'
  OBVIOUS
<1>1. ASSUME NEW c \in Calls, NEW p \in Parts \ {Dht}, Request(c, p) PROVE TypeOK'
  BY <1>1 DEF Request, TypeOK, Active, Writers, engineVars, history
<1>2. CASE UNCHANGED vars
  BY <1>2 DEF vars, TypeOK, engineVars, callVars, history
<1> QED
  BY <1>1, <1>2, TypeEngine, TypeWriter DEF Next

\* Every variable keeps its type.
THEOREM TypeCorrect == Spec => []TypeOK
  BY TypeInit, TypeNext, PTL DEF Spec

(***************************************************************************)
(* Stamps are compared part by part.                                       *)
(***************************************************************************)
LEMMA LeqReflexive == \A a \in [Parts -> Nat] : Leq(a, a)
  BY DEF Leq

LEMMA LeqTransitive ==
    \A a, b, c \in [Parts -> Nat] : Leq(a, b) /\ Leq(b, c) => Leq(a, c)
  BY DEF Leq

\* A new stamp only raises.
LEMMA LeqRaised ==
    ASSUME NEW a \in [Parts -> Nat], NEW b \in [Parts -> Nat], NEW p, NEW n \in Nat,
           Leq(a, b), \A q \in Parts : b[q] <= n
    PROVE  Leq(a, [b EXCEPT ![p] = n + 1])
<1> SUFFICES ASSUME NEW q \in Parts PROVE a[q] <= [b EXCEPT ![p] = n + 1][q]
  BY DEF Leq
<1>1. a[q] <= b[q] /\ b[q] <= n /\ a[q] \in Nat /\ b[q] \in Nat
  BY DEF Leq
<1>2. [b EXCEPT ![p] = n + 1][q] = IF q = p THEN n + 1 ELSE b[q]
  OBVIOUS
<1> QED
  BY <1>1, <1>2

\* Wherever the lock is, the file is not ahead of the session.
LEMMA StoredBelowSession ==
    ASSUME CoreInv PROVE Leq(Stored, session.val)
<1> USE DEF CoreInv
<1>0. /\ Stored \in [Parts -> Nat] /\ session.val \in [Parts -> Nat]
      /\ held.previous.val \in [Parts -> Nat] /\ held.snap.val \in [Parts -> Nat]
  BY ValueTypes
<1>1. CASE lock = Nobody
  BY <1>1 DEF FreeInv, Covers
<1>2. CASE lock # Nobody
  <2>1. lock \in Writers
    BY <1>2 DEF TypeOK
  <2>2. Leq(held.previous.val, held.snap.val) /\ Leq(held.snap.val, session.val)
    BY <2>1 DEF HolderInv, Ordered
  <2>3. CASE wpc[lock] = "acked"
    BY <1>0, <2>1, <2>2, <2>3 DEF HolderInv, IsStored
  <2>4. CASE wpc[lock] # "acked"
    <3>1. Leq(Stored, held.previous.val)
      BY <2>1, <2>4 DEF HolderInv, Covers
    <3> QED
      BY <1>0, <2>2, <3>1, LeqTransitive
  <2> QED
    BY <2>3, <2>4
<1> QED
  BY <1>1, <1>2

LEMMA CoreInit == Init => CoreInv
<1> SUFFICES ASSUME Init PROVE CoreInv
  OBVIOUS
<1>1. TypeOK
  BY TypeInit
<1>2. /\ Len(queue) = 0 /\ 1..Len(queue) = {}
      /\ disk.st.val = [p \in Parts |-> 0] /\ session.val = [p \in Parts |-> 0]
      /\ disk.kind # "valid" => disk.st = Fresh
  BY DEF Init, Absent, Corrupt, File, Fresh
<1>3. LockInv
  BY WritersAssumption DEF Init, LockInv, Holding
<1>4. ClockInv /\ AckInv /\ FreeInv
  BY <1>2 DEF Init, ClockInv, AckInv, FreeInv, Covers, Leq, Stored
<1>5. ChainInv /\ UnsentInv
  BY <1>2 DEF ChainInv, UnsentInv, NoneOf
<1>6. HolderInv
  BY WritersAssumption DEF Init, HolderInv
<1> QED
  BY <1>1, <1>2, <1>3, <1>4, <1>5, <1>6 DEF Init, CoreInv, DiskInv, IdleInv

\* Steps that move writers about without touching what the lock protects.
LEMMA CoreQuiet ==
    ASSUME CoreInv, TypeOK', IdleInv',
           UNCHANGED <<session, disk, queue, lock, held, clock, acked, stamp>>,
           \A w \in Writers :
             /\ \/ wpc'[w] = wpc[w]
                \/ wpc[w] \notin Holding /\ wpc'[w] \notin Holding
                \/ wpc[w] = "saved" /\ wpc'[w] \in {"sending", "failed"}
             /\ wpc'[w] \in {"idle", "lock"} => wpc[w] \in {"idle", "lock"},
           \A c \in Calls : lock = c => target'[c] = target[c]
    PROVE  CoreInv'
<1> USE DEF CoreInv
<1>1. LockInv'
  BY DEF LockInv, Holding
<1>2. ClockInv' /\ ChainInv' /\ DiskInv' /\ AckInv'
  BY DEF ClockInv, ChainInv, DiskInv, AckInv, Stored, Leq
<1>3. UnsentInv'
  <2> SUFFICES ASSUME NEW w \in Writers,
                      wpc'[w] \in {"idle", "lock", "saved", "sending"}
               PROVE  NoneOf(w)'
    BY DEF UnsentInv
  <2>1. wpc[w] \in {"idle", "lock", "saved", "sending"}
    BY DEF Holding
  <2> QED
    BY <2>1 DEF UnsentInv, NoneOf
<1>4. FreeInv'
  BY DEF FreeInv, Covers, Stored, Leq
<1>5. HolderInv'
  <2> SUFFICES ASSUME NEW w \in Writers, lock = w
               PROVE  /\ Ordered'
                      /\ wpc'[w] # "acked" => Covers(held.previous.val, w)'
                      /\ wpc'[w] \in {"nacked", "failed"} => NoneOf(w)'
                      /\ wpc'[w] = "acking" => OwnIsLast(w)'
                      /\ wpc'[w] = "acked" => IsStored'
                      /\ w \in Calls => Marked(w)'
    BY DEF HolderInv
  <2>1. \/ wpc'[w] = wpc[w]
        \/ wpc[w] = "saved" /\ wpc'[w] \in {"sending", "failed"}
    BY DEF LockInv
  <2>2. /\ Ordered => Ordered'
        /\ NoneOf(w) => NoneOf(w)'
        /\ Covers(held.previous.val, w) => Covers(held.previous.val, w)'
        /\ OwnIsLast(w) => OwnIsLast(w)'
        /\ IsStored => IsStored'
    BY DEF Ordered, Covers, NoneOf, OwnIsLast, IsStored, Stored, Leq
  <2>3. w \in Calls /\ Marked(w) => Marked(w)'
    BY DEF Marked
  <2>4. wpc[w] = "saved" => NoneOf(w)
    BY DEF UnsentInv
  <2> QED
    BY <2>1, <2>2, <2>3, <2>4 DEF HolderInv
<1> QED
  BY <1>1, <1>2, <1>3, <1>4, <1>5

LEMMA CoreQuietSteps ==
    ASSUME CoreInv, TypeOK',
           \/ StartCheckpoint \/ BeginShutdown \/ TakeSession \/ DropSender
           \/ PersisterJoined
           \/ \E c \in Calls, p \in Parts \ {Dht} : Request(c, p)
           \/ \E c \in Calls : Refused(c)
           \/ \E w \in Writers : GetSender(w)
    PROVE  CoreInv'
<1> USE DEF CoreInv, engineVars, callVars, history
<1>0. Live \in Writers /\ Final \in Writers /\ Live # Final
      /\ Final \notin Calls /\ Calls \subseteq Writers
      /\ wpc \in [Writers -> {"idle"} \cup Active \cup Ended]
  BY WritersAssumption DEF Writers, Checkpoints, TypeOK
<1>1. CASE StartCheckpoint
  BY <1>0, <1>1, CoreQuiet DEF StartCheckpoint, IdleInv, Holding
<1>2. CASE BeginShutdown
  BY <1>0, <1>2, CoreQuiet DEF BeginShutdown, IdleInv, Holding
<1>3. CASE TakeSession \/ DropSender \/ PersisterJoined
  BY <1>3, CoreQuiet DEF TakeSession, DropSender, PersisterJoined, IdleInv
<1>4. ASSUME NEW c \in Calls, NEW p \in Parts, Request(c, p) PROVE CoreInv'
  <2>1. \A d \in Calls : lock = d => target'[d] = target[d]
    BY <1>0, <1>4 DEF Request, LockInv, Holding, TypeOK
  <2> QED
    BY <1>0, <1>4, <2>1, CoreQuiet DEF Request, IdleInv, Holding
<1>5. ASSUME NEW c \in Calls, Refused(c) PROVE CoreInv'
  BY <1>0, <1>5, CoreQuiet DEF Refused, IdleInv, Holding
<1>6. ASSUME NEW w \in Writers, GetSender(w) PROVE CoreInv'
  BY <1>0, <1>6, CoreQuiet DEF GetSender, IdleInv, Holding
<1> QED
  BY <1>1, <1>2, <1>3, <1>4, <1>5, <1>6

\* A new engine starts from what is stored.
LEMMA CoreStart ==
    ASSUME CoreInv, TypeOK', Start PROVE CoreInv'
<1> USE DEF CoreInv, engineVars, callVars, history
<1>1. /\ Stored \in [Parts -> Nat] /\ session.val \in [Parts -> Nat]
      /\ Nobody \notin Writers
  BY ValueTypes
<1>2. Stored' = Stored /\ DiskInv'
  BY DEF Start, Quarantined, Absent, DiskInv, Stored
<1>3. session'.val = Stored
  BY DEF Start, Repinned, Stored, TypeOK, State
<1>4. Len(queue') = 0 /\ 1..Len(queue') = {}
  BY DEF Start
<1>5. LockInv'
  BY <1>1 DEF Start, LockInv, Active, Holding, Writers
<1>6. ClockInv'
  BY <1>1, <1>3, StoredBelowSession DEF Start, ClockInv, Leq, TypeOK
<1>7. ChainInv' /\ UnsentInv'
  BY <1>4 DEF ChainInv, UnsentInv, NoneOf
<1>8. FreeInv'
  BY <1>1, <1>2, <1>3, <1>4, LeqReflexive DEF FreeInv, Covers
<1>9. HolderInv'
  BY <1>1 DEF Start, HolderInv
<1>10. IdleInv' /\ AckInv'
  BY <1>2 DEF Start, IdleInv, AckInv, Leq, Writers, Checkpoints
<1> QED
  BY <1>2, <1>5, <1>6, <1>7, <1>8, <1>9, <1>10

LEMMA CoreCrash ==
    ASSUME CoreInv, TypeOK', Crash PROVE CoreInv'
<1> USE DEF CoreInv, engineVars, callVars, history
<1>1. Nobody \notin Writers
  BY WritersAssumption
<1>2. Len(queue') = 0 /\ 1..Len(queue') = {}
  BY DEF Crash
<1>3. LockInv'
  BY <1>1 DEF Crash, LockInv, Active, Holding
<1>4. ChainInv' /\ UnsentInv'
  BY <1>2 DEF ChainInv, UnsentInv, NoneOf
<1>5. FreeInv'
  BY <1>2, StoredBelowSession DEF Crash, FreeInv, Covers, Stored, Leq
<1>6. HolderInv'
  BY <1>1 DEF Crash, HolderInv
<1>7. ClockInv' /\ DiskInv' /\ IdleInv' /\ AckInv'
  BY DEF Crash, ClockInv, DiskInv, IdleInv, AckInv, Stored, Leq
<1> QED
  BY <1>3, <1>4, <1>5, <1>6, <1>7

\* What covers a session covers a raised one.
LEMMA CoversMonotone ==
    ASSUME TypeOK, NEW a \in [Parts -> Nat], NEW b \in [Parts -> Nat], NEW w,
           Leq(a, b), Covers(a, w)
    PROVE  Covers(b, w)
<1>1. Stored \in [Parts -> Nat]
      /\ \A i \in 1..Len(queue) : queue[i].st.val \in [Parts -> Nat]
  BY ValueTypes, QueueTypes
<1> QED
  BY <1>1, LeqTransitive DEF Covers

\* libtorrent's own changes raise the session.
LEMMA CoreDht ==
    ASSUME CoreInv, TypeOK', DhtLearns PROVE CoreInv'
<1> USE DEF CoreInv, engineVars, callVars, history
<1>1. /\ session.val \in [Parts -> Nat] /\ held.snap.val \in [Parts -> Nat]
      /\ clock \in Nat
  BY ValueTypes
<1>2. session'.val = [session.val EXCEPT ![Dht] = clock + 1]
      /\ session'.val \in [Parts -> Nat]
  BY DhtEffect
<1>3. \A q \in Parts : session.val[q] <= clock
  BY DEF ClockInv
<1>4. ClockInv'
  BY <1>1, <1>2, <1>3 DEF DhtLearns, ClockInv
<1>5. Leq(session.val, session'.val)
  BY <1>1, <1>2, <1>3, LeqReflexive, LeqRaised
<1>6. UNCHANGED <<disk, sd, queue, lock, wpc, target, stamp, held, acked>>
  BY DEF DhtLearns
<1>7. LockInv' /\ ChainInv' /\ UnsentInv' /\ DiskInv' /\ IdleInv' /\ AckInv'
  BY <1>6 DEF LockInv, ChainInv, UnsentInv, NoneOf, DiskInv, IdleInv, AckInv,
              Stored, Leq
<1>8. FreeInv'
  <2> SUFFICES ASSUME lock = Nobody PROVE Covers(session.val, Nobody)'
    BY <1>6 DEF FreeInv
  <2>1. Covers(session'.val, Nobody)
    BY <1>1, <1>2, <1>5, CoversMonotone DEF FreeInv
  <2> QED
    BY <1>6, <2>1 DEF Covers, Stored, Leq
<1>9. HolderInv'
  <2> SUFFICES ASSUME NEW w \in Writers, lock = w
               PROVE  /\ Ordered'
                      /\ wpc[w] # "acked" => Covers(held.previous.val, w)'
                      /\ wpc[w] \in {"nacked", "failed"} => NoneOf(w)'
                      /\ wpc[w] = "acking" => OwnIsLast(w)'
                      /\ wpc[w] = "acked" => IsStored'
                      /\ w \in Calls => Marked(w)'
    BY <1>6 DEF HolderInv
  <2>1. Ordered'
    <3>1. Leq(held.previous.val, held.snap.val) /\ Leq(held.snap.val, session.val)
      BY DEF HolderInv, Ordered
    <3>2. Leq(held.snap.val, session'.val)
      BY <1>1, <1>2, <1>5, <3>1, LeqTransitive
    <3> QED
      BY <1>6, <3>1, <3>2 DEF Ordered, Leq
  <2>2. /\ NoneOf(w) => NoneOf(w)'
        /\ Covers(held.previous.val, w) => Covers(held.previous.val, w)'
        /\ OwnIsLast(w) => OwnIsLast(w)'
        /\ IsStored => IsStored'
        /\ w \in Calls /\ Marked(w) => Marked(w)'
    BY <1>6 DEF Covers, NoneOf, OwnIsLast, IsStored, Marked, Stored, Leq
  <2> QED
    BY <2>1, <2>2 DEF HolderInv
<1> QED
  BY <1>4, <1>7, <1>8, <1>9

\* Resume writes come and go beside the snapshots, which keep their order.
LEMMA CoreResume ==
    ASSUME CoreInv, TypeOK', PumpSends \/ PersistResume PROVE CoreInv'
<1> USE DEF CoreInv, engineVars, callVars, history
<1>1. UNCHANGED <<session, disk, sd, lock, wpc, target, stamp, held, clock, acked>>
  BY DEF PumpSends, PersistResume
<1>2. Nobody \notin Writers /\ Len(queue) \in Nat /\ Len(queue') \in Nat
  BY WritersAssumption DEF TypeOK
<1>3. PICK d \in {0, 1} :
        \A i \in 1..Len(queue') :
            \/ queue'[i].kind # "state" /\ queue'[i].by = Nobody
            \/ i + d \in 1..Len(queue) /\ queue'[i] = queue[i + d]
  <2>1. CASE PumpSends
    <3>1. \A i \in 1..Len(queue') :
            queue'[i] = ResumeOp \/ (i \in 1..Len(queue) /\ queue'[i] = queue[i])
      BY <2>1, QueueAppend, ConstantTypes DEF PumpSends
    <3>2. ResumeOp.kind # "state" /\ ResumeOp.by = Nobody
      BY DEF ResumeOp
    <3>3. \A i \in 1..Len(queue) : i + 0 = i
      BY <1>2
    <3> QED
      BY <3>1, <3>2, <3>3
  <2>2. CASE PersistResume
    <3>1. \A i \in 1..Len(queue') : i + 1 \in 1..Len(queue) /\ queue'[i] = queue[i + 1]
      BY <2>2, QueueTail DEF PersistResume
    <3> QED
      BY <3>1
  <2> QED
    BY <2>1, <2>2
<1>4. LockInv' /\ ClockInv' /\ DiskInv' /\ IdleInv' /\ AckInv'
  BY <1>1 DEF LockInv, ClockInv, DiskInv, IdleInv, AckInv, Stored, Leq
<1>5. \A i \in 1..Len(queue') : queue'[i].kind = "state" =>
        i + d \in 1..Len(queue) /\ queue'[i] = queue[i + d]
  BY <1>3
<1>6. \A w \in Writers : NoneOf(w) => NoneOf(w)'
  BY <1>2, <1>3 DEF NoneOf
<1>7. UnsentInv'
  BY <1>1, <1>6 DEF UnsentInv
<1>8. ChainInv'
  <2> SUFFICES ASSUME NEW i \in 1..Len(queue'), queue'[i].kind = "state"
               PROVE  /\ Leq(Stored, queue'[i].st.val)
                      /\ \A j \in 1..Len(queue') : i < j /\ queue'[j].kind = "state"
                           => Leq(queue'[i].st.val, queue'[j].st.val)
    BY <1>1 DEF ChainInv, Stored, Leq
  <2>1. i + d \in 1..Len(queue) /\ queue'[i] = queue[i + d]
    BY <1>5
  <2>2. Leq(Stored, queue'[i].st.val)
    BY <2>1 DEF ChainInv
  <2>3. ASSUME NEW j \in 1..Len(queue'), i < j, queue'[j].kind = "state"
        PROVE  Leq(queue'[i].st.val, queue'[j].st.val)
    <3>1. j + d \in 1..Len(queue) /\ queue'[j] = queue[j + d]
      BY <1>5, <2>3
    <3>2. i + d < j + d
      BY <1>2, <2>3
    <3> QED
      BY <2>1, <3>1, <3>2, <2>3 DEF ChainInv
  <2> QED
    BY <2>2, <2>3
<1>9. ASSUME NEW a, NEW w, Covers(a, w)
      PROVE  /\ Leq(Stored, a)
             /\ \A i \in 1..Len(queue') :
                  queue'[i].kind = "state" /\ queue'[i].by # w => Leq(queue'[i].st.val, a)
  BY <1>5, <1>9 DEF Covers
<1>10. FreeInv'
  BY <1>1, <1>9 DEF FreeInv, Covers, Stored, Leq
<1>11. ASSUME NEW w \in Writers, OwnIsLast(w) PROVE OwnIsLast(w)'
  <2> SUFFICES ASSUME NEW i \in 1..Len(queue'),
                      queue'[i].kind = "state", queue'[i].by = w
               PROVE  /\ queue'[i].st = held.snap
                      /\ \A j \in 1..Len(queue') : i < j => queue'[j].kind # "state"
    BY <1>1 DEF OwnIsLast
  <2>1. i + d \in 1..Len(queue) /\ queue'[i] = queue[i + d]
    BY <1>5
  <2>2. ASSUME NEW j \in 1..Len(queue'), i < j, queue'[j].kind = "state"
        PROVE  FALSE
    <3>1. j + d \in 1..Len(queue) /\ queue'[j] = queue[j + d]
      BY <1>5, <2>2
    <3>2. i + d < j + d
      BY <1>2, <2>2
    <3> QED
      BY <1>11, <2>1, <2>2, <3>1, <3>2 DEF OwnIsLast
  <2> QED
    BY <1>11, <2>1, <2>2 DEF OwnIsLast
<1>12. HolderInv'
  <2> SUFFICES ASSUME NEW w \in Writers, lock = w
               PROVE  /\ Ordered'
                      /\ wpc[w] # "acked" => Covers(held.previous.val, w)'
                      /\ wpc[w] \in {"nacked", "failed"} => NoneOf(w)'
                      /\ wpc[w] = "acking" => OwnIsLast(w)'
                      /\ wpc[w] = "acked" => IsStored'
                      /\ w \in Calls => Marked(w)'
    BY <1>1 DEF HolderInv
  <2>1. Ordered'
    BY <1>1 DEF HolderInv, Ordered, Leq
  <2>2. wpc[w] # "acked" => Covers(held.previous.val, w)'
    <3>1. wpc[w] # "acked" => Covers(held.previous.val, w)
      BY DEF HolderInv
    <3> QED
      BY <1>1, <1>9, <3>1 DEF Covers, Stored, Leq
  <2>3. wpc[w] = "acked" => IsStored'
    BY <1>1, <1>5 DEF HolderInv, IsStored, Stored
  <2>4. w \in Calls => Marked(w)'
    BY <1>1 DEF HolderInv, Marked
  <2> QED
    BY <1>6, <1>11, <2>1, <2>2, <2>3, <2>4 DEF HolderInv
<1> QED
  BY <1>4, <1>7, <1>8, <1>10, <1>12

\* The persister stores the oldest snapshot, or fails to.
LEMMA CorePersist ==
    ASSUME CoreInv, TypeOK', PersistState PROVE CoreInv'
<1> USE DEF CoreInv, engineVars, callVars, history
<1> DEFINE h == queue[1]
<1>1. UNCHANGED <<session, sd, lock, target, stamp, held, clock, acked>>
  BY DEF PersistState
<1>2. /\ Len(queue) \in Nat \ {0} /\ Len(queue') = Len(queue) - 1
      /\ \A i \in 1..Len(queue') :
           i \in Nat /\ i + 1 \in 1..Len(queue) /\ queue'[i] = queue[i + 1]
      /\ Head(queue) = h /\ 1 \in 1..Len(queue)
  BY QueueTail DEF PersistState
<1>3. /\ h.kind = "state" /\ h.by \in Writers /\ h.st.val \in [Parts -> Nat]
      /\ \A i \in 1..Len(queue) :
           /\ queue[i].st.val \in [Parts -> Nat]
           /\ queue[i].kind = "state" \/ queue[i].by = Nobody
  BY <1>2, QueueTypes DEF PersistState
<1>4. /\ Stored \in [Parts -> Nat] /\ session.val \in [Parts -> Nat]
      /\ acked \in [Parts -> Nat] /\ Nobody \notin Writers
      /\ held.previous.val \in [Parts -> Nat] /\ held.snap.val \in [Parts -> Nat]
  BY ValueTypes DEF TypeOK
<1>5. \/ disk' = File(h.st) /\ wpc' = Answer(h.by, "acked")
      \/ disk' = disk /\ wpc' = Answer(h.by, "nacked")
  BY <1>2 DEF PersistState
<1>6. \/ Stored' = h.st.val /\ wpc' = Answer(h.by, "acked")
      \/ Stored' = Stored /\ wpc' = Answer(h.by, "nacked")
  BY <1>5 DEF Stored, File
<1>7. wpc \in [Writers -> {"idle"} \cup Active \cup Ended]
  BY DEF TypeOK
<1>8. \A w \in Writers :
        \/ wpc'[w] = wpc[w] /\ (w = h.by => wpc[w] # "acking")
        \/ /\ w = h.by /\ wpc[w] = "acking"
           /\ \/ wpc'[w] = "acked" /\ Stored' = h.st.val
              \/ wpc'[w] = "nacked" /\ Stored' = Stored
  BY <1>3, <1>6, <1>7 DEF Answer
<1>9. Leq(Stored, Stored')
  BY <1>2, <1>3, <1>4, <1>6, LeqReflexive DEF ChainInv
<1>10. LockInv'
  BY <1>1, <1>8 DEF LockInv, Holding
<1>11. ClockInv' /\ DiskInv' /\ IdleInv'
  <2>1. Final \in Writers
    BY DEF Writers, Checkpoints
  <2> QED
    BY <1>1, <1>5, <1>8, <2>1 DEF ClockInv, DiskInv, IdleInv, File
<1>12. AckInv'
  BY <1>1, <1>3, <1>4, <1>6, <1>9, LeqTransitive DEF AckInv, Leq
<1>13. \A w \in Writers : NoneOf(w) => NoneOf(w)'
  BY <1>2 DEF NoneOf
<1>14. UnsentInv'
  BY <1>8, <1>13 DEF UnsentInv
<1>15. ChainInv'
  <2> SUFFICES ASSUME NEW i \in 1..Len(queue'), queue'[i].kind = "state"
               PROVE  /\ Leq(Stored', queue'[i].st.val)
                      /\ \A j \in 1..Len(queue') : i < j /\ queue'[j].kind = "state"
                           => Leq(queue'[i].st.val, queue'[j].st.val)
    BY DEF ChainInv, Leq
  <2>1. i \in Nat /\ i + 1 \in 1..Len(queue) /\ queue'[i] = queue[i + 1] /\ 1 < i + 1
    BY <1>2
  <2>2. Leq(Stored', queue'[i].st.val)
    BY <1>2, <1>3, <1>6, <2>1 DEF ChainInv
  <2>3. ASSUME NEW j \in 1..Len(queue'), i < j, queue'[j].kind = "state"
        PROVE  Leq(queue'[i].st.val, queue'[j].st.val)
    <3>1. j + 1 \in 1..Len(queue) /\ queue'[j] = queue[j + 1] /\ i + 1 < j + 1
      BY <1>2, <2>1, <2>3
    <3> QED
      BY <2>1, <3>1, <2>3 DEF ChainInv
  <2> QED
    BY <2>2, <2>3
<1>16. ASSUME NEW a, NEW w, Covers(a, w), Stored' = Stored \/ h.by # w
       PROVE  /\ Leq(Stored', a)
              /\ \A i \in 1..Len(queue') :
                   queue'[i].kind = "state" /\ queue'[i].by # w => Leq(queue'[i].st.val, a)
  BY <1>2, <1>3, <1>6, <1>16 DEF Covers
<1>17. FreeInv'
  <2> SUFFICES ASSUME lock = Nobody PROVE Covers(session.val, Nobody)'
    BY <1>1 DEF FreeInv
  <2>1. Covers(session.val, Nobody) /\ h.by # Nobody
    BY <1>3, <1>4 DEF FreeInv
  <2> QED
    BY <1>1, <1>16, <2>1 DEF Covers, Leq
<1>18. HolderInv'
  <2> SUFFICES ASSUME NEW w \in Writers, lock = w
               PROVE  /\ Ordered'
                      /\ wpc'[w] # "acked" => Covers(held.previous.val, w)'
                      /\ wpc'[w] \in {"nacked", "failed"} => NoneOf(w)'
                      /\ wpc'[w] = "acking" => OwnIsLast(w)'
                      /\ wpc'[w] = "acked" => IsStored'
                      /\ w \in Calls => Marked(w)'
    BY <1>1 DEF HolderInv
  <2>1. Ordered' /\ (w \in Calls => Marked(w)')
    BY <1>1 DEF HolderInv, Ordered, Marked, Leq
  <2>2. wpc[w] \in Holding /\ wpc[w] # "acked"
    <3>1. wpc[w] # "acked"
      BY <1>2, <1>3 DEF HolderInv, IsStored
    <3> QED
      BY <3>1 DEF LockInv
  <2>3. Covers(held.previous.val, w)
    BY <2>2 DEF HolderInv
  <2>4. CASE h.by = w
    <3>1. wpc[w] = "acking"
      BY <1>2, <2>2, <2>4 DEF HolderInv, UnsentInv, NoneOf, Holding
    <3>2. h.st = held.snap /\ \A j \in 1..Len(queue) : 1 < j => queue[j].kind # "state"
      BY <1>2, <1>3, <2>4, <3>1 DEF HolderInv, OwnIsLast
    <3>3. \A i \in 1..Len(queue') : queue'[i].kind # "state" /\ queue'[i].by = Nobody
      BY <1>2, <1>3, <3>2
    <3>4. NoneOf(w)'
      BY <1>4, <3>3 DEF NoneOf
    <3>5. CASE wpc'[w] = "acked" /\ Stored' = h.st.val
      BY <1>1, <2>1, <3>2, <3>3, <3>5 DEF IsStored
    <3>6. CASE wpc'[w] = "nacked" /\ Stored' = Stored
      <4>1. Covers(held.previous.val, w)'
        BY <1>1, <1>16, <2>3, <3>6 DEF Covers, Leq
      <4> QED
        BY <2>1, <3>4, <3>6, <4>1
    <3> QED
      BY <1>8, <2>4, <3>1, <3>5, <3>6
  <2>5. CASE h.by # w
    <3>1. wpc'[w] = wpc[w]
      BY <1>8, <2>5
    <3>2. Covers(held.previous.val, w)'
      BY <1>1, <1>16, <2>3, <2>5 DEF Covers, Leq
    <3>3. OwnIsLast(w) => OwnIsLast(w)'
      <4> SUFFICES ASSUME OwnIsLast(w), NEW i \in 1..Len(queue'),
                          queue'[i].kind = "state", queue'[i].by = w
                   PROVE  /\ queue'[i].st = held.snap
                          /\ \A j \in 1..Len(queue') : i < j => queue'[j].kind # "state"
        BY <1>1 DEF OwnIsLast
      <4>1. i \in Nat /\ i + 1 \in 1..Len(queue) /\ queue'[i] = queue[i + 1]
        BY <1>2
      <4>2. \A j \in 1..Len(queue') : i < j =>
              j + 1 \in 1..Len(queue) /\ queue'[j] = queue[j + 1] /\ i + 1 < j + 1
        BY <1>2, <4>1
      <4> QED
        BY <4>1, <4>2 DEF OwnIsLast
    <3> QED
      BY <1>13, <2>1, <2>2, <3>1, <3>2, <3>3 DEF HolderInv
  <2> QED
    BY <2>4, <2>5
<1> QED
  BY <1>10, <1>11, <1>12, <1>14, <1>15, <1>17, <1>18

\* A writer takes the lock and its snapshot.
LEMMA CoreTake ==
    ASSUME CoreInv, TypeOK', NEW w \in Writers, wpc[w] = "lock", lock = Nobody,
           lock' = w, wpc' \in Serialized(w),
           held' = [previous |-> session, snap |-> session'],
           UNCHANGED <<disk, sd, queue, acked>>,
           Leq(session.val, session'.val), ClockInv', w \in Calls => Marked(w)'
    PROVE  CoreInv'
<1> USE DEF CoreInv
<1>1. /\ session.val \in [Parts -> Nat] /\ session'.val \in [Parts -> Nat]
      /\ Nobody \notin Writers
  BY ValueTypes DEF TypeOK, State
<1>2. /\ wpc'[w] \in {"saved", "failed"}
      /\ \A v \in Writers \ {w} : wpc'[v] = wpc[v] /\ wpc[v] \notin Holding
  BY <1>1 DEF Serialized, TypeOK, LockInv
<1>3. NoneOf(w) /\ NoneOf(w)'
  BY DEF UnsentInv, NoneOf
<1>4. LockInv'
  BY <1>2 DEF LockInv, Holding
<1>5. ChainInv' /\ DiskInv' /\ AckInv'
  BY DEF ChainInv, DiskInv, AckInv, Stored, Leq
<1>6. UnsentInv'
  BY <1>2, <1>3 DEF UnsentInv, NoneOf, Holding
<1>7. IdleInv'
  BY <1>2 DEF IdleInv, Writers, Checkpoints
<1>8. FreeInv'
  BY <1>1 DEF FreeInv
<1>9. HolderInv'
  <2>1. Ordered'
    BY <1>1, LeqReflexive DEF Ordered, Leq
  <2>2. Covers(session.val, Nobody)
    BY DEF FreeInv
  <2>3. Covers(session.val, w)
    <3>1. \A i \in 1..Len(queue) : queue[i].kind = "state" => queue[i].by # Nobody
      BY <1>1, QueueTypes
    <3> QED
      BY <2>2, <3>1 DEF Covers
  <2>4. Covers(held.previous.val, w)'
    BY <2>3 DEF Covers, Stored, Leq
  <2> QED
    BY <1>1, <1>2, <1>3, <2>1, <2>4 DEF HolderInv
<1> QED
  BY <1>4, <1>5, <1>6, <1>7, <1>8, <1>9

LEMMA CoreApply ==
    ASSUME CoreInv, TypeOK', NEW c \in Calls, Apply(c) PROVE CoreInv'
<1> USE DEF CoreInv, history
<1>1. session.val \in [Parts -> Nat] /\ clock \in Nat
  BY ValueTypes
<1>2. session'.val = [session.val EXCEPT ![target[c]] = clock + 1]
      /\ session'.val \in [Parts -> Nat]
  BY ApplyEffect
<1>3. \A q \in Parts : session.val[q] <= clock
  BY DEF ClockInv
<1>4. ClockInv'
  BY <1>1, <1>2, <1>3 DEF Apply, ClockInv
<1>5. Leq(session.val, session'.val)
  <2>1. Leq(session.val, session.val)
    BY <1>1, LeqReflexive
  <2>2. Leq(session.val, [session.val EXCEPT ![target[c]] = clock + 1])
    BY <1>1, <1>3, <2>1, LeqRaised
  <2> QED
    BY <1>2, <2>2
<1>6. Marked(c)'
  <2>1. target[c] \in Parts /\ target' = target /\ stamp'[c] = clock + 1
    BY DEF Apply, TypeOK
  <2>2. session'.val[target[c]] = clock + 1 /\ session.val[target[c]] < clock + 1
    BY <1>1, <1>2, <1>3, <2>1
  <2> QED
    BY <2>1, <2>2 DEF Apply, Marked
<1>7. c \in Writers
  BY DEF Writers
<1> QED
  BY <1>4, <1>5, <1>6, <1>7, CoreTake DEF Apply, LockFree

LEMMA CoreSnapshot ==
    ASSUME CoreInv, TypeOK', NEW w \in Writers, w \notin Calls, Snapshot(w)
    PROVE  CoreInv'
<1> USE DEF CoreInv, callVars, history
<1>1. session.val \in [Parts -> Nat] /\ session' = session
  BY ValueTypes DEF Snapshot
<1>2. Leq(session.val, session'.val)
  BY <1>1, LeqReflexive
<1>3. ClockInv'
  BY DEF Snapshot, ClockInv
<1> QED
  BY <1>1, <1>2, <1>3, CoreTake DEF Snapshot, LockFree

\* A writer leaves, with the session covering what it leaves behind.
LEMMA CoreRelease ==
    ASSUME CoreInv, TypeOK', NEW w \in Writers, NEW r \in Ended, lock = w,
           lock' = Nobody, wpc' = [wpc EXCEPT ![w] = r],
           UNCHANGED <<disk, sd, queue>>,
           Covers(session'.val, Nobody), ClockInv', AckInv'
    PROVE  CoreInv'
<1> USE DEF CoreInv
<1>1. /\ Nobody \notin Writers /\ wpc[w] \in Holding
      /\ \A v \in Writers \ {w} : wpc'[v] = wpc[v] /\ wpc[v] \notin Holding
      /\ wpc'[w] \notin Holding \cup {"idle", "lock"}
  BY WritersAssumption DEF LockInv, TypeOK, Holding, Ended
<1>2. LockInv'
  BY <1>1 DEF LockInv
<1>3. ChainInv' /\ DiskInv'
  BY DEF ChainInv, DiskInv, Stored, Leq
<1>4. UnsentInv'
  BY <1>1 DEF UnsentInv, NoneOf, Holding
<1>5. IdleInv'
  BY <1>1 DEF IdleInv, Holding, Writers, Checkpoints
<1>6. FreeInv'
  BY DEF FreeInv, Covers, Stored, Leq
<1>7. HolderInv'
  BY <1>1 DEF HolderInv
<1> QED
  BY <1>2, <1>3, <1>4, <1>5, <1>6, <1>7

\* Whatever the holder does, the session covers the file and the queue.
LEMMA HolderCovered ==
    ASSUME CoreInv, NEW w \in Writers, lock = w PROVE Covers(session.val, Nobody)
<1> USE DEF CoreInv
<1>1. /\ Stored \in [Parts -> Nat] /\ session.val \in [Parts -> Nat]
      /\ held.previous.val \in [Parts -> Nat] /\ held.snap.val \in [Parts -> Nat]
      /\ \A i \in 1..Len(queue) : queue[i].st.val \in [Parts -> Nat]
  BY ValueTypes, QueueTypes
<1>2. Leq(held.previous.val, held.snap.val) /\ Leq(held.snap.val, session.val)
  BY DEF HolderInv, Ordered
<1>3. Leq(held.previous.val, session.val)
  BY <1>1, <1>2, LeqTransitive
<1>4. Leq(Stored, session.val)
  BY StoredBelowSession
<1>5. ASSUME NEW i \in 1..Len(queue), queue[i].kind = "state"
      PROVE  Leq(queue[i].st.val, session.val)
  <2>1. wpc[w] \in Holding /\ wpc[w] # "acked"
    BY <1>5 DEF HolderInv, IsStored, LockInv
  <2>2. CASE queue[i].by # w
    BY <1>1, <1>3, <1>5, <2>1, <2>2, LeqTransitive DEF HolderInv, Covers
  <2>3. CASE queue[i].by = w
    <3>1. wpc[w] = "acking"
      BY <2>1, <2>3 DEF HolderInv, UnsentInv, NoneOf, Holding
    <3>2. queue[i].st = held.snap
      BY <1>5, <2>3, <3>1 DEF HolderInv, OwnIsLast
    <3> QED
      BY <1>2, <3>2
  <2> QED
    BY <2>2, <2>3
<1> QED
  BY <1>4, <1>5 DEF Covers

LEMMA CoreSend ==
    ASSUME CoreInv, TypeOK', NEW w \in Writers, Send(w) PROVE CoreInv'
<1> USE DEF CoreInv, callVars, history
<1> DEFINE n == Len(queue) + 1
<1>1. UNCHANGED <<session, disk, sd, lock, target, stamp, held, clock, acked>>
  BY DEF Send
<1>2. /\ Len(queue) \in Nat /\ Len(queue') = n /\ n \in 1..Len(queue')
      /\ queue'[n] = StateOp(w)
      /\ \A i \in 1..Len(queue) : queue'[i] = queue[i] /\ i \in 1..Len(queue') /\ i < n
      /\ \A i \in 1..Len(queue') : i \in 1..Len(queue) \/ i = n
  BY ConstantTypes, QueueAppend DEF Send
<1>3. /\ lock = w /\ wpc[w] = "sending" /\ wpc'[w] = "acking"
      /\ \A v \in Writers \ {w} : wpc'[v] = wpc[v] /\ wpc[v] \notin Holding
  BY DEF Send, LockInv, TypeOK, Holding
<1>4. /\ Stored \in [Parts -> Nat] /\ Nobody \notin Writers
      /\ held.previous.val \in [Parts -> Nat] /\ held.snap.val \in [Parts -> Nat]
      /\ \A i \in 1..Len(queue) : queue[i].st.val \in [Parts -> Nat]
  BY ValueTypes, QueueTypes
<1>5. NoneOf(w) /\ Covers(held.previous.val, w) /\ Ordered
  BY <1>3 DEF UnsentInv, HolderInv
<1>6. Covers(held.snap.val, w)
  BY <1>4, <1>5, CoversMonotone DEF Ordered
<1>7. /\ StateOp(w).kind = "state" /\ StateOp(w).by = w /\ StateOp(w).st = held.snap
  BY DEF StateOp
<1>8. LockInv'
  BY <1>1, <1>3 DEF LockInv, Holding
<1>9. ClockInv' /\ DiskInv' /\ AckInv'
  BY <1>1 DEF ClockInv, DiskInv, AckInv, Stored, Leq
<1>10. IdleInv'
  BY <1>1, <1>3 DEF IdleInv, Writers, Checkpoints
<1>11. UnsentInv'
  BY <1>2, <1>3, <1>7 DEF UnsentInv, NoneOf
<1>12. ChainInv'
  <2> SUFFICES ASSUME NEW i \in 1..Len(queue'), queue'[i].kind = "state"
               PROVE  /\ Leq(Stored, queue'[i].st.val)
                      /\ \A j \in 1..Len(queue') : i < j /\ queue'[j].kind = "state"
                           => Leq(queue'[i].st.val, queue'[j].st.val)
    BY <1>1 DEF ChainInv, Stored, Leq
  <2>1. CASE i = n
    <3>1. Leq(Stored, queue'[i].st.val)
      BY <1>2, <1>6, <1>7, <2>1 DEF Covers
    <3>2. \A j \in 1..Len(queue') : ~(i < j)
      BY <1>2, <2>1
    <3> QED
      BY <3>1, <3>2
  <2>2. CASE i \in 1..Len(queue)
    <3>1. queue'[i] = queue[i] /\ Leq(Stored, queue'[i].st.val)
      BY <1>2, <2>2 DEF ChainInv
    <3>2. Leq(queue'[i].st.val, held.snap.val)
      BY <1>5, <1>6, <2>2, <3>1 DEF NoneOf, Covers
    <3> QED
      BY <1>2, <1>7, <2>2, <3>1, <3>2 DEF ChainInv
  <2> QED
    BY <1>2, <2>1, <2>2
<1>13. FreeInv'
  BY <1>1, <1>3, <1>4 DEF FreeInv
<1>14. HolderInv'
  <2>1. Ordered' /\ (w \in Calls => Marked(w)')
    BY <1>1, <1>3 DEF HolderInv, Ordered, Marked, Leq
  <2>2. Covers(held.previous.val, w)'
    BY <1>1, <1>2, <1>5, <1>7 DEF Covers, Stored, Leq
  <2>3. OwnIsLast(w)'
    <3>1. \A i \in 1..Len(queue') : queue'[i].by = w => i = n
      BY <1>2, <1>5 DEF NoneOf
    <3>2. \A j \in 1..Len(queue') : ~(n < j)
      BY <1>2
    <3> QED
      BY <1>1, <1>2, <1>7, <3>1, <3>2 DEF OwnIsLast
  <2> QED
    BY <1>1, <1>3, <2>1, <2>2, <2>3 DEF HolderInv
<1> QED
  BY <1>8, <1>9, <1>10, <1>11, <1>12, <1>13, <1>14

LEMMA CoreReturn ==
    ASSUME CoreInv, TypeOK', NEW w \in Writers, Return(w) PROVE CoreInv'
<1> USE DEF CoreInv, callVars
<1>1. UNCHANGED <<session, disk, sd, queue, clock, stamp, target>>
  BY DEF Return
<1>2. lock = w
  BY DEF Return, LockInv, Holding
<1>3. Covers(session'.val, Nobody) /\ ClockInv'
  BY <1>1, <1>2, HolderCovered DEF ClockInv
<1>4. AckInv'
  <2>1. /\ Stored = held.snap.val /\ Stored' = Stored
        /\ w \in Calls => held.snap.val[target[w]] = stamp[w]
    BY <1>1, <1>2 DEF Return, HolderInv, IsStored, Marked, Stored
  <2>2. \A p \in Parts : Stored[p] \in Nat /\ acked[p] <= Stored[p]
    BY ValueTypes DEF AckInv, Leq
  <2>3. acked' = IF w \in Calls THEN [acked EXCEPT ![target[w]] = stamp[w]] ELSE acked
    BY DEF Return
  <2>4. acked \in [Parts -> Nat]
    BY DEF TypeOK
  <2>5. \A p \in Parts : acked'[p] <= Stored[p]
    BY <2>1, <2>2, <2>3, <2>4
  <2> QED
    BY <2>1, <2>5 DEF AckInv, Leq
<1> QED
  BY <1>1, <1>2, <1>3, <1>4, CoreRelease DEF Return, Ended

\* What a rollback restores is not below what was there before the call.
LEMMA RollBackEffect ==
    ASSUME CoreInv, NEW c \in Calls, RollBack(c), c \in Writers
    PROVE  /\ session'.val \in [Parts -> Nat]
           /\ \A p \in Parts : session'.val[p] \in {held.previous.val[p], session.val[p]}
           /\ session'.mask \in {held.previous.mask, session.mask}
           /\ session' # session => session' = Restored(c)
           /\ session' = Restored(c) \/ (session' = session /\ c \in unrolled')
<1> USE DEF CoreInv
<1>1. /\ session = [val |-> session.val, mask |-> session.mask]
      /\ session.val \in [Parts -> Nat] /\ held.previous.val \in [Parts -> Nat]
  BY DEF TypeOK, State
<1>2. session' = Restored(c) \/ (session' = session /\ c \in unrolled')
  BY DEF RollBack
<1>3. /\ Restored(c).val \in [Parts -> Nat]
      /\ \A p \in Parts : Restored(c).val[p] \in {held.previous.val[p], session.val[p]}
      /\ Restored(c).mask \in {held.previous.mask, session.mask}
  <2>1. CASE target[c] = Filter
    <3>1. Restored(c) = [val |-> [session.val EXCEPT ![Filter] = held.previous.val[Filter]],
                         mask |-> session.mask]
      BY <1>1, <2>1 DEF Restored
    <3>2. Filter \in Parts
      BY DEF Parts
    <3> QED
      BY <1>1, <3>1, <3>2
  <2>2. CASE target[c] # Filter
    BY <1>1, <2>2 DEF Restored, RestoredNames
  <2> QED
    BY <2>1, <2>2
<1> QED
  BY <1>1, <1>2, <1>3

LEMMA CoreRollBack ==
    ASSUME CoreInv, TypeOK', NEW c \in Calls, RollBack(c) PROVE CoreInv'
<1> USE DEF CoreInv, callVars
<1>0. c \in Writers
  BY DEF Writers
<1>1. UNCHANGED <<disk, sd, queue, clock, acked>> /\ lock = c
  BY <1>0 DEF RollBack, LockInv, Holding
<1>2. /\ session.val \in [Parts -> Nat] /\ held.previous.val \in [Parts -> Nat]
      /\ held.snap.val \in [Parts -> Nat] /\ clock \in Nat
  BY ValueTypes
<1>3. /\ session'.val \in [Parts -> Nat]
      /\ \A p \in Parts : session'.val[p] \in {held.previous.val[p], session.val[p]}
  BY <1>0, RollBackEffect
<1>4. Leq(held.previous.val, held.snap.val) /\ Leq(held.snap.val, session.val)
  BY <1>0, <1>1 DEF HolderInv, Ordered
<1>5. Leq(held.previous.val, session.val)
  BY <1>2, <1>4, LeqTransitive
<1>6. Leq(held.previous.val, session'.val) /\ ClockInv'
  <2>1. \A p \in Parts : /\ held.previous.val[p] <= session.val[p]
                         /\ session.val[p] <= clock
                         /\ held.previous.val[p] \in Nat /\ session.val[p] \in Nat
    BY <1>2, <1>5 DEF Leq, ClockInv
  <2>2. \A p \in Parts : held.previous.val[p] <= session'.val[p] /\ session'.val[p] <= clock
    BY <1>2, <1>3, <2>1
  <2> QED
    BY <1>1, <2>2 DEF Leq, ClockInv
<1>7. Covers(session'.val, Nobody)
  <2>1. NoneOf(c) /\ Covers(held.previous.val, c)
    BY <1>0, <1>1 DEF RollBack, HolderInv
  <2>2. Covers(session'.val, c)
    BY <1>2, <1>3, <1>6, <2>1, CoversMonotone
  <2> QED
    BY <2>1, <2>2 DEF NoneOf, Covers
<1>8. AckInv'
  BY <1>1 DEF AckInv, Stored, Leq
<1> QED
  BY <1>0, <1>1, <1>6, <1>7, <1>8, CoreRelease DEF RollBack, Ended

LEMMA CoreLeave ==
    ASSUME CoreInv, TypeOK', NEW w \in Writers, GiveUp(w) \/ Drop(w) PROVE CoreInv'
<1> USE DEF CoreInv, callVars, history
<1>1. UNCHANGED <<session, disk, sd, queue, clock, stamp, target, acked>>
  BY DEF GiveUp, Drop
<1>2. ClockInv' /\ AckInv'
  BY <1>1 DEF ClockInv, AckInv, Stored, Leq
<1>3. CASE lock = w
  <2>1. Covers(session'.val, Nobody)
    BY <1>1, <1>3, HolderCovered
  <2> QED
    BY <1>1, <1>2, <1>3, <2>1, CoreRelease DEF GiveUp, Drop, Release, Ended
<1>4. CASE lock # w
  <2>1. wpc[w] \notin Holding
    BY <1>4 DEF LockInv
  <2>2. wpc[w] = "lock" /\ wpc' = [wpc EXCEPT ![w] = "dropped"]
        /\ UNCHANGED <<lock, held>>
    BY <1>4, <2>1 DEF GiveUp, Drop, Release, Holding
  <2>3. IdleInv'
    BY <1>1, <2>2 DEF IdleInv, TypeOK, Writers, Checkpoints
  <2> QED
    BY <1>1, <2>1, <2>2, <2>3, CoreQuiet DEF TypeOK, Holding
<1> QED
  BY <1>3, <1>4

LEMMA CoreNext == CoreInv /\ [Next]_vars => CoreInv'
<1> SUFFICES ASSUME CoreInv, [Next]_vars PROVE CoreInv'
  OBVIOUS
<1>1. TypeOK'
  BY TypeNext DEF CoreInv
<1>2. CASE UNCHANGED vars
  <2>1. IdleInv'
    BY <1>2 DEF vars, engineVars, CoreInv, IdleInv
  <2> QED
    BY <1>1, <1>2, <2>1, CoreQuiet DEF vars, engineVars, callVars, history
<1>3. ASSUME NEW w \in Writers, Locks(w) \/ Fails(w) PROVE CoreInv'
  BY <1>1, <1>3, CoreQuietSteps, CoreApply, CoreSnapshot, CoreRollBack, CoreLeave
  DEF Locks, Fails
<1>4. ASSUME NEW w \in Writers, GetSender(w) \/ Send(w) \/ Return(w) \/ Drop(w)
      PROVE  CoreInv'
  BY <1>1, <1>4, CoreQuietSteps, CoreSend, CoreReturn, CoreLeave
<1> QED
  BY <1>1, <1>2, <1>3, <1>4, CoreQuietSteps, CoreStart, CoreCrash, CoreDht, CoreResume,
     CorePersist DEF Next

\* The lock orders the snapshots: what is queued grows from what is stored,
\* and the session is never behind either.
THEOREM SnapshotsOrdered == Spec => []CoreInv
  BY CoreInit, CoreNext, PTL DEF Spec

(***************************************************************************)
(* Refinement: the engine and its file implement DurableState.             *)
(***************************************************************************)

\* The steps that leave the file and what was acknowledged alone.
LEMMA NeitherStep ==
    ASSUME CoreInv, [Next]_vars, ~PersistState, ~\E w \in Calls : Return(w)
    PROVE  Stored' = Stored /\ acked' = acked
<1> USE DEF engineVars, callVars, history
<1>1. CASE Start
  BY <1>1 DEF Start, Quarantined, Absent, CoreInv, DiskInv, Stored
<1>2. CASE \/ DhtLearns \/ StartCheckpoint \/ PumpSends \/ PersistResume
           \/ BeginShutdown \/ TakeSession \/ DropSender \/ PersisterJoined \/ Crash
           \/ UNCHANGED vars
  BY <1>2 DEF DhtLearns, StartCheckpoint, PumpSends, PersistResume, BeginShutdown,
              TakeSession, DropSender, PersisterJoined, Crash, vars, Stored
<1>3. ASSUME NEW c \in Calls, NEW p \in Parts, Request(c, p)
      PROVE  Stored' = Stored /\ acked' = acked
  BY <1>3 DEF Request, Stored
<1>4. ASSUME NEW w \in Writers, Locks(w) \/ Fails(w)
      PROVE  Stored' = Stored /\ acked' = acked
  BY <1>4 DEF Locks, Fails, Refused, Apply, Snapshot, RollBack, GiveUp, Stored
<1>5. ASSUME NEW w \in Writers, GetSender(w) \/ Send(w) \/ Drop(w)
      PROVE  Stored' = Stored /\ acked' = acked
  BY <1>5 DEF GetSender, Send, Drop, Stored
<1>6. ASSUME NEW w \in Writers, w \notin Calls, Return(w)
      PROVE  Stored' = Stored /\ acked' = acked
  BY <1>6 DEF Return, Stored
<1> QED
  BY <1>1, <1>2, <1>3, <1>4, <1>5, <1>6 DEF Next

\* The persister only moves the file forward.
LEMMA PersistStores ==
    ASSUME CoreInv, TypeOK', PersistState
    PROVE  Leq(Stored, Stored') /\ Stored' \in [Parts -> Nat] /\ acked' = acked
<1>1. TypeOK /\ ChainInv
  BY DEF CoreInv
<1>2. 1 \in 1..Len(queue) /\ Head(queue) = queue[1] /\ queue[1].kind = "state"
  BY <1>1, QueueTail DEF PersistState
<1>3. Stored \in [Parts -> Nat] /\ queue[1].st.val \in [Parts -> Nat]
  BY <1>1, <1>2, ValueTypes, QueueTypes
<1>4. Stored' = queue[1].st.val \/ Stored' = Stored
  BY <1>2 DEF PersistState, Stored, File
<1>5. Leq(Stored, queue[1].st.val)
  BY <1>1, <1>2 DEF ChainInv
<1> QED
  BY <1>3, <1>4, <1>5, LeqReflexive DEF PersistState, history

LEMMA DurableInitial == Init => Durable!DurableInit
  BY DEF Init, Durable!DurableInit, Stored, Absent, Corrupt, File, Fresh

LEMMA DurableStep ==
    CoreInv /\ [Next]_vars => [Durable!DurableNext]_(Durable!durableVars)
<1> SUFFICES ASSUME CoreInv, [Next]_vars
             PROVE  Durable!DurableNext \/ UNCHANGED Durable!durableVars
  OBVIOUS
<1>1. TypeOK' /\ TypeOK
  BY TypeNext DEF CoreInv
<1>2. CASE PersistState
  <2>1. Durable!Store
    BY <1>1, <1>2, PersistStores DEF Durable!Store, Leq
  <2> QED
    BY <2>1 DEF Durable!DurableNext
<1>3. ASSUME NEW c \in Calls, Return(c) PROVE Durable!DurableNext
  <2>1. c \in Writers /\ lock = c /\ target[c] \in Parts
    BY <1>1, <1>3 DEF CoreInv, LockInv, Holding, Return, Writers, TypeOK
  <2>2. Stored = held.snap.val /\ held.snap.val[target[c]] = stamp[c]
    BY <1>3, <2>1 DEF CoreInv, HolderInv, IsStored, Marked, Return
  <2>3. acked' = [acked EXCEPT ![target[c]] = stamp[c]] /\ Stored' = Stored
    BY <1>3 DEF Return, Stored
  <2>4. acked \in [Parts -> Nat] /\ acked' \in [Parts -> Nat]
        /\ Stored \in [Parts -> Nat]
    BY <1>1, ValueTypes DEF TypeOK
  <2>5. acked[target[c]] <= Stored[target[c]]
    BY <2>1 DEF CoreInv, AckInv, Leq
  <2>6. Durable!Acknowledge(target[c])
    BY <2>1, <2>2, <2>3, <2>4, <2>5 DEF Durable!Acknowledge
  <2> QED
    BY <2>1, <2>6 DEF Durable!DurableNext
<1>4. CASE ~PersistState /\ ~\E w \in Calls : Return(w)
  BY <1>4, NeitherStep DEF Durable!durableVars
<1> QED
  BY <1>2, <1>3, <1>4

\* The engine implements the durable state: session.state never moves back,
\* and a call returns Ok only when its change, or a later one, is stored.
THEOREM Implementation == Spec => ImplementsDurable
  BY CoreInit, CoreNext, DurableInitial, DurableStep, PTL
  DEF Spec, ImplementsDurable, Durable!DurableSpec

\* Nothing a client was told is missing from the file, at any time, so a
\* crash loses no acknowledged change.
THEOREM AcknowledgedIsStored == Spec => []Durable!AckedIsStored
<1>1. CoreInv => Durable!AckedIsStored
  BY DEF CoreInv, AckInv, Leq, Durable!AckedIsStored
<1> QED
  BY <1>1, CoreInit, CoreNext, PTL DEF Spec

(***************************************************************************)
(* The final checkpoint and the alert mask.                                *)
(***************************************************************************)

LEMMA FinalStep ==
    ASSUME CoreInv, TypeOK', FinalStateKept, [Next]_vars PROVE FinalStateKept'
<1> USE DEF engineVars, callVars, history
<1>0. /\ Final \in Writers /\ Final \notin Calls
      /\ final \in [Parts -> Nat] /\ Stored \in [Parts -> Nat]
      /\ Stored' \in [Parts -> Nat]
      /\ wpc \in [Writers -> {"idle"} \cup Active \cup Ended]
  BY ValueTypes, WritersAssumption DEF CoreInv, TypeOK, Writers, Checkpoints, State, Stored
<1>1. CASE Return(Final)
  <2>1. lock = Final /\ Stored = held.snap.val /\ final' = held.snap.val
    BY <1>0, <1>1 DEF CoreInv, LockInv, Holding, HolderInv, IsStored, Return
  <2>2. Stored' = Stored
    BY <1>1 DEF Return, Stored
  <2> QED
    BY <1>0, <2>1, <2>2 DEF FinalStateKept
<1>2. CASE Start
  BY <1>0, <1>2 DEF Start, FinalStateKept, Checkpoints
<1>3. CASE PersistState
  <2>1. Leq(Stored, Stored') /\ final' = final
    BY <1>3, PersistStores DEF PersistState
  <2>2. wpc'[Final] = "ok" => wpc[Final] = "ok"
    BY <1>0, <1>3 DEF PersistState, Answer
  <2> QED
    BY <1>0, <2>1, <2>2 DEF FinalStateKept, Leq
<1>4. CASE ~PersistState /\ ~Start /\ ~Return(Final)
  <2>1. Stored' = Stored
    <3>1. CASE \E w \in Calls : Return(w)
      BY <3>1 DEF Return, Stored
    <3> QED
      BY <1>4, <3>1, NeitherStep
  <2>2. final' = final /\ (wpc'[Final] = "ok" => wpc[Final] = "ok")
    <3>1. CASE \/ DhtLearns \/ StartCheckpoint \/ PumpSends \/ PersistResume
               \/ BeginShutdown \/ TakeSession \/ DropSender \/ PersisterJoined
               \/ Crash \/ UNCHANGED vars
      BY <1>0, <3>1 DEF DhtLearns, StartCheckpoint, PumpSends, PersistResume,
         BeginShutdown, TakeSession, DropSender, PersisterJoined, Crash, vars
    <3>2. ASSUME NEW c \in Calls, NEW p \in Parts, Request(c, p)
          PROVE  final' = final /\ (wpc'[Final] = "ok" => wpc[Final] = "ok")
      BY <1>0, <3>2 DEF Request
    <3>3. ASSUME NEW w \in Writers, Locks(w) \/ Fails(w)
          PROVE  final' = final /\ (wpc'[Final] = "ok" => wpc[Final] = "ok")
      BY <1>0, <3>3 DEF Locks, Fails, Refused, Apply, Snapshot, Serialized, RollBack,
         GiveUp
    <3>4. ASSUME NEW w \in Writers, GetSender(w) \/ Send(w) \/ Drop(w)
          PROVE  final' = final /\ (wpc'[Final] = "ok" => wpc[Final] = "ok")
      BY <1>0, <3>4 DEF GetSender, Send, Drop
    <3>5. ASSUME NEW w \in Writers, Return(w)
          PROVE  final' = final /\ (wpc'[Final] = "ok" => wpc[Final] = "ok")
      BY <1>0, <1>4, <3>5 DEF Return
    <3> QED
      BY <1>4, <3>1, <3>2, <3>3, <3>4, <3>5 DEF Next
  <2> QED
    BY <2>1, <2>2 DEF FinalStateKept
<1> QED
  BY <1>1, <1>2, <1>3, <1>4

\* Once the final checkpoint was answered Ok no call in flight puts an older
\* snapshot over it.
THEOREM FinalIsKept == Spec => []FinalStateKept
<1>1. Init => FinalStateKept
  BY DEF Init, FinalStateKept, Writers, Checkpoints
<1>2. CoreInv /\ FinalStateKept /\ [Next]_vars => FinalStateKept'
  BY FinalStep, TypeNext DEF CoreInv
<1> QED
  BY <1>1, <1>2, CoreInit, CoreNext, PTL DEF Spec

LEMMA PinStep ==
    ASSUME CoreInv, TypeOK', PinInv, [Next]_vars PROVE PinInv'
<1> USE DEF engineVars, callVars, history
<1>1. CASE Start
  BY <1>1 DEF Start, Repinned, PinInv, CoreInv, TypeOK, State
<1>2. CASE DhtLearns
  BY <1>2, DhtEffect DEF DhtLearns, PinInv, CoreInv
<1>3. CASE \/ StartCheckpoint \/ PumpSends \/ PersistResume \/ PersistState
           \/ BeginShutdown \/ TakeSession \/ DropSender \/ PersisterJoined
           \/ Crash \/ UNCHANGED vars
  BY <1>3 DEF StartCheckpoint, PumpSends, PersistResume, PersistState, BeginShutdown,
     TakeSession, DropSender, PersisterJoined, Crash, vars, PinInv
<1>4. ASSUME NEW c \in Calls, NEW p \in Parts, Request(c, p) PROVE PinInv'
  BY <1>4 DEF Request, PinInv
<1>5. ASSUME NEW c \in Calls, Refused(c) PROVE PinInv'
  BY <1>5 DEF Refused, PinInv
<1>6. ASSUME NEW c \in Calls, Apply(c) PROVE PinInv'
  <2>1. session'.mask \in {session.mask, "pinned"}
    BY <1>6, ApplyEffect DEF CoreInv
  <2> QED
    BY <1>6, <2>1 DEF Apply, PinInv
<1>7. ASSUME NEW w \in Writers, Snapshot(w) PROVE PinInv'
  BY <1>7 DEF Snapshot, PinInv
<1>8. ASSUME NEW c \in Calls, RollBack(c) PROVE PinInv'
  <2>1. c \in Writers /\ lock = c /\ Nobody \notin Writers
    BY <1>8, WritersAssumption DEF RollBack, CoreInv, LockInv, Holding, Writers
  <2>2. session'.mask \in {held.previous.mask, session.mask}
    BY <1>8, <2>1, RollBackEffect
  <2> QED
    BY <1>8, <2>1, <2>2 DEF RollBack, PinInv
<1>9. ASSUME NEW w \in Writers,
             GetSender(w) \/ Send(w) \/ Return(w) \/ GiveUp(w) \/ Drop(w)
      PROVE  PinInv'
  BY <1>9 DEF GetSender, Send, Return, GiveUp, Drop, Release, PinInv
<1> QED
  BY <1>1, <1>2, <1>3, <1>4, <1>5, <1>6, <1>7, <1>8, <1>9 DEF Next, Locks, Fails

\* While an engine runs the session has the daemon's alert mask, whatever the
\* file or a client's pack said.
THEOREM MaskIsPinned == Spec => []AlertsPinned
<1>1. Init => PinInv
  BY DEF Init, PinInv
<1>2. CoreInv /\ PinInv /\ [Next]_vars => PinInv'
  BY PinStep, TypeNext DEF CoreInv
<1>3. PinInv => AlertsPinned
  BY DEF PinInv, AlertsPinned
<1> QED
  BY <1>1, <1>2, <1>3, CoreInit, CoreNext, PTL DEF Spec

(***************************************************************************)
(* A failed call changed nothing.                                          *)
(***************************************************************************)

\* Steps that neither add a value nor fail a call.
LEMMA FreshQuiet ==
    ASSUME CoreInv, TypeOK', FreshInv,
           UNCHANGED <<stamp, unrolled>>, clock <= clock',
           \A c \in Calls : /\ wpc'[c] \in {"idle", "lock"} => wpc[c] \in {"idle", "lock"}
                            /\ wpc'[c] = "err" => wpc[c] = "err" /\ target'[c] = target[c],
           \A c \in Calls : Failed(c) /\ Nowhere(c) => Nowhere(c)'
    PROVE  FreshInv'
<1>1. clock \in Nat /\ clock' \in Nat /\ stamp \in [Calls -> Nat]
  BY DEF CoreInv, TypeOK
<1>2. ASSUME NEW c \in Calls PROVE stamp'[c] <= clock'
  BY <1>1 DEF FreshInv
<1>3. ASSUME NEW c \in Calls, wpc'[c] \in {"idle", "lock"} PROVE stamp'[c] = 0
  BY <1>3 DEF FreshInv
<1>4. ASSUME NEW c \in Calls, Failed(c)' PROVE Nowhere(c)'
  BY <1>4 DEF FreshInv, Failed
<1> QED
  BY <1>2, <1>3, <1>4 DEF FreshInv

LEMMA FreshEngine ==
    ASSUME CoreInv, TypeOK', FreshInv,
           \/ Start \/ DhtLearns \/ StartCheckpoint \/ PumpSends
           \/ PersistResume \/ PersistState
           \/ BeginShutdown \/ TakeSession \/ DropSender \/ PersisterJoined
           \/ Crash \/ UNCHANGED vars
    PROVE  FreshInv'
<1> USE DEF engineVars, callVars, history
<1>0. /\ clock \in Nat /\ Calls \subseteq Writers /\ Live \notin Calls /\ Final \notin Calls
      /\ stamp \in [Calls -> Nat] /\ target \in [Calls -> Parts \ {Dht}]
      /\ wpc \in [Writers -> {"idle"} \cup Active \cup Ended] /\ TypeOK
      /\ session.val \in [Parts -> Nat]
  BY WritersAssumption, ValueTypes DEF CoreInv, TypeOK, Writers, Checkpoints
<1>1. CASE Start
  <2>1. Stored' = Stored /\ session'.val = Stored
    <3>1. Stored' = Stored
      BY <1>1 DEF Start, Quarantined, Absent, CoreInv, DiskInv, Stored
    <3>2. session'.val = Stored
      BY <1>0, <1>1 DEF Start, Repinned, Stored, TypeOK, State
    <3> QED
      BY <3>1, <3>2
  <2>2. 1..Len(queue') = {}
    BY <1>1 DEF Start
  <2> QED
    BY <1>0, <1>1, <2>1, <2>2, FreshQuiet DEF Start, Nowhere, Checkpoints
<1>2. CASE DhtLearns
  <2>1. session'.val = [session.val EXCEPT ![Dht] = clock + 1]
    BY <1>0, <1>2, DhtEffect
  <2>2. \A c \in Calls : session'.val[target[c]] = session.val[target[c]]
    BY <1>0, <2>1
  <2> QED
    BY <1>0, <1>2, <2>2, FreshQuiet DEF DhtLearns, Nowhere, Stored
<1>3. CASE StartCheckpoint \/ BeginShutdown
  BY <1>0, <1>3, FreshQuiet DEF StartCheckpoint, BeginShutdown, Nowhere, Stored
<1>4. CASE TakeSession \/ DropSender \/ PersisterJoined \/ UNCHANGED vars
  BY <1>0, <1>4, FreshQuiet
  DEF TakeSession, DropSender, PersisterJoined, vars, Nowhere, Stored
<1>5. CASE Crash
  <2>1. 1..Len(queue') = {} /\ lock' = Nobody
    BY <1>5 DEF Crash
  <2>2. \A c \in Calls : /\ wpc'[c] \in {"idle", "lock"} => wpc[c] \in {"idle", "lock"}
                         /\ wpc'[c] = "err" => wpc[c] = "err"
    BY <1>0, <1>5 DEF Crash
  <2> QED
    BY <1>0, <1>5, <2>1, <2>2, FreshQuiet DEF Crash, Nowhere, Stored
<1>6. CASE PumpSends
  <2>1. \A i \in 1..Len(queue') :
          queue'[i] = ResumeOp \/ (i \in 1..Len(queue) /\ queue'[i] = queue[i])
    BY <1>0, <1>6, QueueAppend, ConstantTypes DEF PumpSends
  <2>2. \A c \in Calls : ResumeOp.st.val[target[c]] = 0
    BY <1>0 DEF ResumeOp, Fresh
  <2>3. \A c \in Calls : Failed(c) /\ Nowhere(c) => Nowhere(c)'
    BY <1>6, <2>1, <2>2 DEF PumpSends, Nowhere, Failed, Stored
  <2> QED
    BY <1>0, <1>6, <2>3, FreshQuiet DEF PumpSends
<1>7. CASE PersistResume
  <2>1. \A i \in 1..Len(queue') : i + 1 \in 1..Len(queue) /\ queue'[i] = queue[i + 1]
    BY <1>0, <1>7, QueueTail DEF PersistResume
  <2> QED
    BY <1>0, <1>7, <2>1, FreshQuiet DEF PersistResume, Nowhere, Stored
<1>8. CASE PersistState
  <2>1. /\ \A i \in 1..Len(queue') : i + 1 \in 1..Len(queue) /\ queue'[i] = queue[i + 1]
        /\ 1 \in 1..Len(queue) /\ Head(queue) = queue[1]
    BY <1>0, <1>8, QueueTail DEF PersistState
  <2>2. Stored' = queue[1].st.val \/ Stored' = Stored
    BY <1>8, <2>1 DEF PersistState, Stored, File
  <2>3. \A c \in Calls : Nowhere(c) => Nowhere(c)'
    BY <1>8, <2>1, <2>2 DEF PersistState, Nowhere
  <2>4. \A c \in Calls : /\ wpc'[c] \in {"idle", "lock"} => wpc[c] \in {"idle", "lock"}
                         /\ wpc'[c] = "err" => wpc[c] = "err"
    BY <1>0, <1>8 DEF PersistState, Answer
  <2> QED
    BY <1>0, <1>8, <2>3, <2>4, FreshQuiet DEF PersistState
<1> QED
  BY <1>1, <1>2, <1>3, <1>4, <1>5, <1>6, <1>7, <1>8

\* A new change carries a stamp of its own.
LEMMA FreshApply ==
    ASSUME CoreInv, TypeOK', FreshInv, NEW c \in Calls, Apply(c)
    PROVE  FreshInv'
<1> USE DEF history
<1>1. /\ clock \in Nat /\ c \in Writers /\ Calls \subseteq Writers
      /\ stamp \in [Calls -> Nat] /\ target \in [Calls -> Parts \ {Dht}]
      /\ wpc \in [Writers -> {"idle"} \cup Active \cup Ended]
      /\ session.val \in [Parts -> Nat]
  BY ValueTypes DEF CoreInv, TypeOK, Writers
<1>2. session'.val = [session.val EXCEPT ![target[c]] = clock + 1]
  BY ApplyEffect DEF CoreInv
<1>3. /\ wpc'[c] \in {"saved", "failed"} /\ stamp'[c] = clock + 1 /\ clock' = clock + 1
      /\ \A d \in Calls \ {c} : wpc'[d] = wpc[d] /\ stamp'[d] = stamp[d]
      /\ UNCHANGED <<disk, queue, target, unrolled>>
  BY <1>1 DEF Apply, Serialized
<1>4. ASSUME NEW d \in Calls \ {c}, Nowhere(d), Failed(d) PROVE Nowhere(d)'
  <2>1. stamp[d] <= clock /\ stamp[d] \in Nat /\ target[d] \in Parts
    BY <1>1 DEF FreshInv
  <2>2. session.val[target[d]] # stamp[d] /\ session'.val[target[d]] # stamp[d]
    BY <1>1, <1>2, <1>4, <2>1 DEF Nowhere
  <2>3. held' = [previous |-> session, snap |-> session']
    BY DEF Apply
  <2> QED
    BY <1>3, <1>4, <2>2, <2>3 DEF Nowhere, Stored
<1>5. \A d \in Calls : stamp'[d] <= clock'
  BY <1>1, <1>3 DEF FreshInv
<1>6. \A d \in Calls : wpc'[d] \in {"idle", "lock"} => stamp'[d] = 0
  BY <1>3 DEF FreshInv
<1>7. \A d \in Calls : Failed(d)' => Nowhere(d)'
  BY <1>3, <1>4 DEF FreshInv, Failed
<1> QED
  BY <1>5, <1>6, <1>7 DEF FreshInv

\* The rollback takes the call's own stamp out of the session, and nothing
\* with that stamp was stored or is queued.
LEMMA FreshRollBack ==
    ASSUME CoreInv, TypeOK', FreshInv, NEW c \in Calls, RollBack(c)
    PROVE  FreshInv'
<1> USE DEF callVars
<1>1. /\ c \in Writers /\ Calls \subseteq Writers /\ TypeOK
      /\ stamp \in [Calls -> Nat] /\ target \in [Calls -> Parts \ {Dht}]
      /\ wpc \in [Writers -> {"idle"} \cup Active \cup Ended]
      /\ session.val \in [Parts -> Nat] /\ held.previous.val \in [Parts -> Nat]
      /\ Stored \in [Parts -> Nat] /\ Nobody \notin Writers
  BY ValueTypes DEF CoreInv, TypeOK, Writers
<1>2. /\ wpc' = [wpc EXCEPT ![c] = "err"] /\ lock' = Nobody
      /\ unrolled \subseteq unrolled' /\ unrolled' \subseteq unrolled \cup {c}
      /\ UNCHANGED <<disk, queue, stamp, target, clock>>
  BY DEF RollBack
<1>3. lock = c /\ wpc[c] \in {"nacked", "failed"}
  BY <1>1 DEF RollBack, CoreInv, LockInv, Holding
<1>4. /\ \A p \in Parts : session'.val[p] \in {held.previous.val[p], session.val[p]}
      /\ session' = Restored(c) \/ (session' = session /\ c \in unrolled')
  BY <1>1, RollBackEffect
<1>5. ASSUME NEW d \in Calls \ {c}, Failed(d)' PROVE Nowhere(d)'
  <2>1. Failed(d) /\ target[d] \in Parts
    BY <1>1, <1>2, <1>5 DEF Failed
  <2>2. Nowhere(d)
    BY <2>1 DEF FreshInv
  <2>3. session'.val[target[d]] # stamp[d]
    BY <1>1, <1>3, <1>4, <2>1, <2>2 DEF Nowhere
  <2> QED
    BY <1>2, <2>2, <2>3 DEF Nowhere, Stored
<1>6. ASSUME Failed(c)' PROVE Nowhere(c)'
  <2>1. session' = Restored(c) /\ target[c] \in Parts /\ target[c] # Dht
    BY <1>1, <1>4, <1>6 DEF Failed
  <2>2. /\ held.previous.val[target[c]] < stamp[c] /\ NoneOf(c)
        /\ Covers(held.previous.val, c)
    BY <1>1, <1>3 DEF CoreInv, HolderInv, Marked
  <2>3. Restored(c).val[target[c]] = held.previous.val[target[c]]
    <3>1. session = [val |-> session.val, mask |-> session.mask]
      BY DEF CoreInv, TypeOK, State
    <3>2. CASE target[c] = Filter
      <4>1. Restored(c) = [val |-> [session.val EXCEPT ![Filter] = held.previous.val[Filter]],
                           mask |-> session.mask]
        BY <3>1, <3>2 DEF Restored
      <4> QED
        BY <1>1, <2>1, <3>2, <4>1
    <3>3. CASE target[c] # Filter
      BY <2>1, <3>3 DEF Restored, RestoredNames, Parts
    <3> QED
      BY <3>2, <3>3
  <2>4. Stored[target[c]] <= held.previous.val[target[c]]
    BY <2>1, <2>2 DEF Covers, Leq
  <2>5. ASSUME NEW i \in 1..Len(queue) PROVE queue[i].st.val[target[c]] # stamp[c]
    <3>1. /\ queue[i].st.val \in [Parts -> Nat]
          /\ queue[i].kind = "state" \/ queue[i] = ResumeOp
      BY <1>1, QueueTypes
    <3>2. CASE queue[i].kind = "state"
      <4>1. queue[i].st.val[target[c]] <= held.previous.val[target[c]]
        BY <2>1, <2>2, <3>2 DEF NoneOf, Covers, Leq
      <4>2. /\ queue[i].st.val[target[c]] \in Nat /\ stamp[c] \in Nat
            /\ held.previous.val[target[c]] \in Nat
        BY <1>1, <2>1, <3>1
      <4> QED
        BY <2>2, <4>1, <4>2
    <3>3. CASE queue[i] = ResumeOp
      <4>1. queue[i].st.val[target[c]] = 0
        BY <2>1, <3>3 DEF ResumeOp, Fresh
      <4> QED
        BY <1>2, <1>6, <4>1 DEF Failed
    <3> QED
      BY <3>1, <3>2, <3>3
  <2>6. session'.val[target[c]] # stamp[c] /\ Stored[target[c]] # stamp[c]
    <3>1. /\ held.previous.val[target[c]] \in Nat /\ stamp[c] \in Nat
          /\ Stored[target[c]] \in Nat
      BY <1>1, <2>1
    <3> QED
      BY <2>1, <2>2, <2>3, <2>4, <3>1
  <2> QED
    BY <1>2, <2>5, <2>6 DEF Nowhere, Stored
<1>7. \A d \in Calls : stamp'[d] <= clock'
  BY <1>2 DEF FreshInv
<1>8. \A d \in Calls : wpc'[d] \in {"idle", "lock"} => stamp'[d] = 0
  BY <1>1, <1>2 DEF FreshInv
<1> QED
  BY <1>5, <1>6, <1>7, <1>8 DEF FreshInv

LEMMA FreshWriter ==
    ASSUME CoreInv, TypeOK', FreshInv, NEW w \in Writers,
           \/ w \in Calls /\ Refused(w)
           \/ w \notin Calls /\ (Snapshot(w) \/ GiveUp(w))
           \/ GetSender(w) \/ Send(w) \/ Return(w) \/ Drop(w)
    PROVE  FreshInv'
<1> USE DEF engineVars, callVars, history
<1>0. /\ clock \in Nat /\ Calls \subseteq Writers /\ TypeOK /\ Nobody \notin Writers
      /\ wpc \in [Writers -> {"idle"} \cup Active \cup Ended]
  BY WritersAssumption DEF CoreInv, TypeOK, Writers
<1>1. CASE w \in Calls /\ Refused(w)
  <2>1. UNCHANGED <<session, disk, queue, lock, held, target, stamp, clock, unrolled>>
        /\ wpc' = [wpc EXCEPT ![w] = "err"] /\ stamp[w] = 0
    BY <1>1 DEF Refused, FreshInv
  <2>2. \A c \in Calls : Nowhere(c) => Nowhere(c)'
    BY <2>1 DEF Nowhere, Stored
  <2>3. \A c \in Calls : Failed(c)' => Failed(c)
    BY <1>0, <2>1 DEF Failed
  <2>4. \A c \in Calls : wpc'[c] \in {"idle", "lock"} => wpc[c] \in {"idle", "lock"}
    BY <1>0, <2>1
  <2> QED
    BY <2>1, <2>2, <2>3, <2>4 DEF FreshInv
<1>2. CASE w \notin Calls /\ Snapshot(w)
  <2>1. /\ UNCHANGED <<session, disk, queue, target, stamp, clock, unrolled>>
        /\ held' = [previous |-> session, snap |-> session]
        /\ \A c \in Calls : wpc'[c] = wpc[c]
    BY <1>0, <1>2 DEF Snapshot, Serialized
  <2>2. \A c \in Calls : Nowhere(c) => Nowhere(c)'
    BY <2>1 DEF Nowhere, Stored
  <2> QED
    BY <1>0, <2>1, <2>2, FreshQuiet
<1>3. CASE Send(w)
  <2>1. /\ \A i \in 1..Len(queue') :
             queue'[i] = StateOp(w) \/ (i \in 1..Len(queue) /\ queue'[i] = queue[i])
        /\ StateOp(w).st = held.snap
    BY <1>0, <1>3, QueueAppend, ConstantTypes DEF Send, StateOp
  <2>2. lock # Nobody
    BY <1>0, <1>3 DEF Send, CoreInv, LockInv, Holding
  <2>3. \A c \in Calls : Nowhere(c) => Nowhere(c)'
    BY <1>3, <2>1, <2>2 DEF Send, Nowhere, Stored
  <2> QED
    BY <1>0, <1>3, <2>3, FreshQuiet DEF Send
<1>4. CASE GetSender(w) \/ Return(w) \/ Drop(w) \/ (w \notin Calls /\ GiveUp(w))
  <2>1. /\ UNCHANGED <<session, disk, queue, target, stamp, clock, unrolled>>
        /\ lock' = Nobody \/ (lock' = lock /\ held' = held)
    BY <1>4 DEF GetSender, Return, Drop, GiveUp, Release
  <2>2. \A c \in Calls : Nowhere(c) => Nowhere(c)'
    BY <2>1 DEF Nowhere, Stored
  <2>3. \A c \in Calls : /\ wpc'[c] \in {"idle", "lock"} => wpc[c] \in {"idle", "lock"}
                         /\ wpc'[c] = "err" => wpc[c] = "err"
    BY <1>0, <1>4 DEF GetSender, Return, Drop, GiveUp
  <2> QED
    BY <1>0, <2>1, <2>2, <2>3, FreshQuiet
<1> QED
  BY <1>1, <1>2, <1>3, <1>4

LEMMA FreshStep == CoreInv /\ FreshInv /\ [Next]_vars => FreshInv'
<1> SUFFICES ASSUME CoreInv, FreshInv, [Next]_vars PROVE FreshInv'
  OBVIOUS
<1>1. TypeOK'
  BY TypeNext DEF CoreInv
<1>2. ASSUME NEW c \in Calls, NEW p \in Parts \ {Dht}, Request(c, p) PROVE FreshInv'
  <2>1. /\ UNCHANGED <<session, disk, queue, lock, held, stamp, clock, unrolled>>
        /\ wpc' = [wpc EXCEPT ![c] = "lock"] /\ target' = [target EXCEPT ![c] = p]
        /\ wpc[c] = "idle"
    BY <1>2 DEF Request, engineVars, history
  <2>2. /\ c \in Writers /\ Calls \subseteq Writers /\ clock \in Nat
        /\ wpc \in [Writers -> {"idle"} \cup Active \cup Ended]
        /\ target \in [Calls -> Parts \ {Dht}]
    BY DEF CoreInv, TypeOK, Writers
  <2>3. \A d \in Calls : Failed(d) /\ Nowhere(d) => Nowhere(d)'
    BY <2>1, <2>2 DEF Nowhere, Failed, Stored
  <2> QED
    BY <1>1, <2>1, <2>2, <2>3, FreshQuiet
<1> QED
  BY <1>1, <1>2, FreshEngine, FreshApply, FreshRollBack, FreshWriter
  DEF Next, Locks, Fails

\* A call that returned an error changed nothing: its change is not in the
\* session, not in the file and not on its way there, whatever ran beside it,
\* unless libtorrent refused the rollback.
THEOREM FailureLeavesNothing == Spec => []FailedChangedNothing
<1>1. Init => FreshInv
  BY DEF Init, FreshInv, Failed, Writers
<1>2. FreshInv => FailedChangedNothing
  BY DEF FreshInv, Failed, Nowhere, FailedChangedNothing
<1> QED
  BY <1>1, <1>2, CoreInit, CoreNext, FreshStep, PTL DEF Spec
===============================================================================
