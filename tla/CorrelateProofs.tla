---------------------------- MODULE CorrelateProofs ----------------------------
(***************************************************************************)
(* Calls and their answers, for any calls, torrents, keys and sizes of the *)
(* event bus: a call that waits is answered, by the answer to itself, and  *)
(* two operations of a class never run at once, unless a lock was given up *)
(* early.  A removal with files that succeeds has deleted that content,    *)
(* and its own files while no more than two removals are parked at a time. *)
(***************************************************************************)
EXTENDS Correlate, FiniteSetTheorems, WellFoundedInduction, TLAPS

(***************************************************************************)
(* The inductive invariant.                                                *)
(***************************************************************************)
\* The entries of a sequence.
Elems(s) == {s[i] : i \in 1 .. Len(s)}

\* Moves and renames: one at a time, and told apart by nothing but that.
Plain == {"move_storage", "rename_file"}
Started == {"waiting", "draining"}

\* What is known of a call at each point of its way.
CallInv ==
    \A c \in Calls :
        /\ pc[c] # "idle" => job[c] \in Job
        /\ pc[c] \in {"locking", "locked", "draining"} => Serialized(job[c].op)
        /\ pc[c] = "resolving" => job[c].op = "scrape_tracker"
        /\ pc[c] \in Started => job[c].t \in added
        /\ ~Receiving(c) => rx[c] = <<>>
        /\ c \in lagged => c \in missed
        /\ c \in missed => pc[c] # "idle"
        /\ pc[c] \notin {"ok", "err"} => got[c] = NoCall

\* A torrent that has left the session does not come back.
SessionInv ==
    /\ session \subseteq alive /\ session \subseteq handles
    /\ handles \subseteq added
    /\ \A e \in Elems(alerts) : e.op = "removed" => e.t \in added \ session
    /\ \A c \in Calls : \A e \in Elems(rx[c]) :
         e.op = "removed" => e.t \in added \ handles

\* Answers are the answers to what was posted.
Sent(p) ==
    /\ pc[p[1]] # "idle" /\ job[p[1]].t \in added
    /\ p[2].t = job[p[1]].t /\ p[2].key = job[p[1]].key
    /\ p[2].op # "delete_files"
    /\ \/ p[2].op = job[p[1]].op
       \/ p[2].op = "trackers" /\ job[p[1]].op = "scrape_tracker"

Genuine(e) ==
    /\ e.of = NoCall =>
         e.op \in {"removed", "other", "delete_files", "scrape_tracker"}
    /\ e.of # NoCall =>
         /\ pc[e.of] # "idle" /\ e.key = job[e.of].key
         /\ e.t \in {job[e.of].t, NoTorrent} /\ job[e.of].t \in added
         /\ e.op \notin {"removed", "delete_files"}
         /\ \/ e.op = job[e.of].op
            \/ e.op = "trackers" /\ job[e.of].op = "scrape_tracker"

GenuineInv ==
    /\ \A p \in pending : Sent(p)
    /\ \A e \in Elems(alerts) : Genuine(e) /\ e.t \in Torrents
    /\ \A c \in Calls : \A e \in Elems(rx[c]) : Genuine(e)

\* What a call posted is answered once: the operation o of c is in one place,
\* posted, answered or shown.
Mine(c, e) == e.of = c /\ e.op = job[c].op
IsPosted(c, o, P) == \E p \in P : p[1] = c /\ p[2].op = o
IsIn(c, o, s) == \E e \in Elems(s) : e.of = c /\ e.op = o
IsShown(c, o, R) == \E d \in Calls : IsIn(c, o, R[d])

Once(c, o, P, A, R) ==
    /\ \A p, q \in P :
         p[1] = c /\ q[1] = c /\ p[2].op = o /\ q[2].op = o => p = q
    /\ \A i, j \in 1 .. Len(A) :
         /\ A[i].of = c /\ A[i].op = o /\ A[j].of = c /\ A[j].op = o
         => i = j
    /\ ~(IsPosted(c, o, P) /\ IsIn(c, o, A))
    /\ ~(IsShown(c, o, R) /\ (IsPosted(c, o, P) \/ IsIn(c, o, A)))

Before == {"idle", "resolving", "locking", "locked"}

OnceInv ==
    \A c \in Calls :
        /\ Once(c, job[c].op, pending, alerts, rx)
        /\ pc[c] \in Before =>
             /\ ~IsPosted(c, job[c].op, pending) /\ ~IsIn(c, job[c].op, alerts)
             /\ ~IsShown(c, job[c].op, rx)

\* The lock of a call is the one the table has, and held by one call.
Active(c) ==
    /\ pc[c] \in {"locking", "locked", "waiting", "draining"}
    /\ Serialized(job[c].op)
Inside(c) == Active(c) /\ Holds(c)

LockInv ==
    /\ \A c \in Calls :
         Active(c) => lock[c] \in Calls /\ op_locks[LockKey(c)] = lock[c]
    /\ \A c, d \in Calls : Inside(c) /\ Inside(d) /\ lock[c] = lock[d] => c = d

\* A move or rename that libtorrent has not finished has a call that waits
\* for it, unless an earlier one gave its lock up.
HeldInv ==
    \A c \in Calls :
        job[c].op \in Plain /\ Unfinished(c) =>
            \/ pc[c] \in Started \/ Disturbed(LockKey(c))
            \/ shutdown = "cancelled" \/ job[c].t \notin handles

\* Nothing that another call can take for its answer is under way.
StaleInv ==
    \A c, d \in Calls :
        /\ c # d /\ pc[c] \in Started /\ job[c].op \in Plain
        /\ job[d].op = job[c].op /\ job[d].t = job[c].t
        /\ Unfinished(d) \/ \E e \in Elems(rx[c]) : Mine(d, e)
        => Disturbed(LockKey(c))

GotInv ==
    \A c \in Calls :
        got[c] \notin {NoCall, c} =>
            /\ pc[got[c]] # "idle"
            /\ job[c].op \in Plain => Disturbed(LockKey(c))
            /\ job[c].op = "read_piece" => job[got[c]].key = job[c].key

\* A call that waits is still answered.
AwaitedInv ==
    \A c \in Calls :
        pc[c] = "waiting" /\ job[c].op # "delete_files" /\ c \notin missed
        => \/ Unfinished(c) \/ job[c].t \notin session
           \/ \E e \in Elems(rx[c]) : Answers(c, e)

\* Deletions are attributed to torrents of the same content.
Gone(t) == \E u \in deleted : Hashes[u] \cap Hashes[t] # {}

ContentInv ==
    /\ \A i \in 1 .. Len(pending_deletes) :
         pending_deletes[i].hashes \subseteq Hashes[pending_deletes[i].t]
    /\ \A e \in Elems(alerts) :
         e.op = "delete_files" /\ e.out = "ok" => e.t \in deleted
    /\ \A c \in Calls : \A e \in Elems(rx[c]) :
         e.op = "delete_files" /\ e.out = "ok" /\ e.t # NoTorrent => Gone(e.t)
    /\ \A c \in Calls :
         pc[c] = "ok" /\ job[c].op = "delete_files" => Gone(job[c].t)

CorrelateInv ==
    /\ TypeOK /\ CallInv /\ SessionInv /\ GenuineInv /\ OnceInv
    /\ LockInv /\ HeldInv /\ StaleInv /\ GotInv /\ AwaitedInv /\ ContentInv

(***************************************************************************)
(* Sequences, and the smallest member of a set of numbers.                 *)
(***************************************************************************)
LEMMA SeqFacts ==
    ASSUME NEW S, NEW s \in Seq(S)
    PROVE  /\ Len(s) \in Nat
           /\ \A i \in 1 .. Len(s) : s[i] \in S
           /\ \A e \in S : /\ Append(s, e) \in Seq(S)
                           /\ Len(Append(s, e)) = Len(s) + 1
                           /\ Append(s, e)[Len(s) + 1] = e
                           /\ \A i \in 1 .. Len(s) : Append(s, e)[i] = s[i]
           /\ s # <<>> => /\ Len(s) >= 1 /\ Len(Tail(s)) = Len(s) - 1
                          /\ Tail(s) \in Seq(S) /\ Head(s) \in S /\ Head(s) = s[1]
                          /\ \A i \in 1 .. Len(Tail(s)) : Tail(s)[i] = s[i + 1]
  OBVIOUS

LEMMA ElemsFacts ==
    ASSUME NEW S, NEW s \in Seq(S)
    PROVE  /\ Elems(s) \subseteq S
           /\ \A e \in S : Elems(Append(s, e)) = Elems(s) \cup {e}
           /\ s # <<>> => /\ Head(s) \in Elems(s)
                          /\ Elems(Tail(s)) \subseteq Elems(s)
                          /\ \A e \in Elems(s) : e = Head(s) \/ e \in Elems(Tail(s))
<1>1. Elems(s) \subseteq S
  BY SeqFacts DEF Elems
<1>2. ASSUME NEW e \in S PROVE Elems(Append(s, e)) = Elems(s) \cup {e}
  <2> DEFINE x == Append(s, e)
  <2>1. /\ Len(s) \in Nat /\ Len(x) = Len(s) + 1 /\ x[Len(s) + 1] = e
        /\ \A i \in 1 .. Len(s) : x[i] = s[i]
    BY SeqFacts
  <2>2. \A i \in 1 .. Len(x) : i \in 1 .. Len(s) \/ i = Len(s) + 1
    BY <2>1
  <2>3. Len(s) + 1 \in 1 .. Len(x) /\ \A i \in 1 .. Len(s) : i \in 1 .. Len(x)
    BY <2>1
  <2> HIDE DEF x
  <2> QED
    BY <2>1, <2>2, <2>3 DEF Elems, x
<1>3. ASSUME s # <<>>
      PROVE  /\ Head(s) \in Elems(s)
             /\ Elems(Tail(s)) \subseteq Elems(s)
             /\ \A e \in Elems(s) : e = Head(s) \/ e \in Elems(Tail(s))
  <2> DEFINE x == Tail(s)
  <2>1. /\ Len(s) \in Nat /\ Len(s) >= 1 /\ Len(x) = Len(s) - 1 /\ Head(s) = s[1]
        /\ \A i \in 1 .. Len(x) : x[i] = s[i + 1]
    BY <1>3, SeqFacts
  <2>2. 1 \in 1 .. Len(s) /\ \A i \in 1 .. Len(x) : i + 1 \in 1 .. Len(s)
    BY <2>1
  <2>3. \A i \in 1 .. Len(s) : i = 1 \/ (i - 1 \in 1 .. Len(x) /\ x[i - 1] = s[i])
    BY <2>1
  <2>4. Head(s) \in Elems(s)
    BY <2>1, <2>2 DEF Elems
  <2>5. Elems(x) \subseteq Elems(s)
    BY <2>1, <2>2 DEF Elems
  <2>6. ASSUME NEW i \in 1 .. Len(s) PROVE s[i] = Head(s) \/ s[i] \in Elems(x)
    BY <2>1, <2>3 DEF Elems
  <2>7. \A e \in Elems(s) : \E i \in 1 .. Len(s) : e = s[i]
    BY DEF Elems
  <2> QED
    BY <2>4, <2>5, <2>6, <2>7
<1> QED
  BY <1>1, <1>2, <1>3

LEMMA ElemsEmpty == Elems(<<>>) = {}
  BY DEF Elems

\* The subsets of S below its members are well-founded.
LEMMA MinExists ==
    ASSUME NEW S \in SUBSET Nat, S # {}
    PROVE  \E m \in S : \A n \in S : m <= n
<1> DEFINE Below(i) == S \cap 0 .. i
           T == {Below(i) : i \in S}
           R == StrictSubsetOrdering(Nat)
<1>1. T \subseteq FiniteSubsetsOf(Nat) /\ T # {}
  <2>1. \A i \in S : Below(i) \subseteq Nat /\ IsFiniteSet(Below(i))
    <3> TAKE i \in S
    <3>1. IsFiniteSet(0 .. i)
      BY FS_Interval
    <3>2. Below(i) \subseteq 0 .. i /\ Below(i) \subseteq Nat
      OBVIOUS
    <3> QED
      BY <3>1, <3>2, FS_Subset
  <2> QED
    BY <2>1 DEF FiniteSubsetsOf
<1> HIDE DEF T, R
<1>2. PICK x \in T : \A y \in T : ~(<<y, x>> \in R)
  BY <1>1, FS_StrictSubsetOrderingWellFounded, WFMin DEF R
<1>3. PICK m \in S : x = Below(m)
  BY DEF T
<1>4. ASSUME NEW n \in S, n < m PROVE FALSE
  <2>1. Below(n) \subseteq Below(m)
    BY <1>4
  <2>2. m \in Below(m) /\ m \notin Below(n)
    BY <1>4
  <2>3. Below(n) \in T
    BY DEF T
  <2>4. <<Below(n), Below(m)>> \in R
    BY <2>1, <2>2 DEF R, StrictSubsetOrdering
  <2> QED
    BY <1>2, <1>3, <2>3, <2>4
<1>5. \A n \in S : ~(n < m)
  BY <1>4
<1> QED
  BY <1>3, <1>5

\* swap_remove drops one entry and invents none.
LEMMA WithoutFacts ==
    ASSUME NEW S, NEW s \in Seq(S), NEW i \in 1 .. Len(s)
    PROVE  /\ Without(s, i) \in Seq(S)
           /\ Len(Without(s, i)) = Len(s) - 1
           /\ \A j \in 1 .. Len(Without(s, i)) : \E k \in 1 .. Len(s) :
                Without(s, i)[j] = s[k]
<1> DEFINE n == Len(s) - 1
           x == Without(s, i)
<1>1. n \in Nat /\ Len(s) \in 1 .. Len(s) /\ \A j \in 1 .. n : j \in 1 .. Len(s)
  BY SeqFacts
<1>2. x = [j \in 1 .. n |-> IF j = i THEN s[Len(s)] ELSE s[j]]
  BY DEF Without
<1>3. \A j \in 1 .. n : x[j] = s[Len(s)] \/ x[j] = s[j]
  BY <1>2
<1>4. \A j \in 1 .. Len(s) : s[j] \in S
  BY SeqFacts
<1>5. x \in [1 .. n -> S]
  BY <1>1, <1>2, <1>4
<1>6. x \in Seq(S) /\ Len(x) = n
  BY <1>1, <1>5
<1> HIDE DEF x
<1> QED
  BY <1>1, <1>3, <1>6 DEF x

\* The operations.
LEMMA OpFacts ==
    /\ DOMAIN OpTable = {"move_storage", "rename_file", "scrape_tracker", "trackers",
                         "peers", "file_progress", "read_piece", "delete_files"}
    /\ \A op \in DOMAIN OpTable : Serialized(op) <=> Class(op) \in Classes
    /\ \A op \in DOMAIN OpTable : Serialized(op) <=>
         op \in {"move_storage", "rename_file", "scrape_tracker"}
    /\ Class("scrape_tracker") = "Scrape"
    /\ \A op \in DOMAIN OpTable : Class(op) = "Scrape" => op = "scrape_tracker"
    /\ \A p \in Plain : p \in DOMAIN OpTable /\ \A op \in DOMAIN OpTable :
         Class(op) = Class(p) <=> op = p
    /\ OpTable["read_piece"].keyed
  BY DEF OpTable, Class, Serialized, Classes, Plain, move_storage, rename_file,
     scrape_tracker, trackers, peers, file_progress, read_piece, delete_files

(***************************************************************************)
(* What the helpers of the specification do.                               *)
(***************************************************************************)
DeleteEntry == [hashes : SUBSET UNION {Hashes[t] : t \in Torrents}, t : Torrents]

LEMMA PublishFacts ==
    ASSUME TypeOK, NEW e \in Event, publish(e)
    PROVE  /\ rx' \in [Calls -> Seq(Event)]
           /\ \A c \in Calls : Len(rx'[c]) <= BusCap
           /\ lagged' \subseteq Calls /\ missed' \subseteq Calls
           /\ missed \subseteq missed' /\ lagged' \subseteq lagged \cup missed'
           /\ \A c \in missed' : c \in missed \/ Receiving(c)
           /\ \A c \in Calls : ~Receiving(c) => rx'[c] = rx[c]
           /\ \A c \in Calls : Receiving(c) =>
                /\ e \in Elems(rx'[c])
                /\ \A x \in Elems(rx'[c]) : x \in Elems(rx[c]) \/ x = e
                /\ c \notin missed' => Elems(rx[c]) \subseteq Elems(rx'[c])
<1> USE DEF TypeOK
<1>1. /\ rx' = [c \in Calls |->
                IF ~Receiving(c) THEN rx[c]
                ELSE Append(IF Full(c) THEN Tail(rx[c]) ELSE rx[c], e)]
      /\ lagged' = lagged \cup {c \in Calls : Receiving(c) /\ Full(c)}
      /\ missed' = missed \cup {c \in Calls : Receiving(c) /\ Full(c)}
  BY DEF publish
<1>2. BusCap \in Nat /\ BusCap # 0
  BY BusCapAssumption
<1>3. ASSUME NEW c \in Calls
      PROVE  /\ rx'[c] \in Seq(Event) /\ Len(rx'[c]) <= BusCap
             /\ ~Receiving(c) => rx'[c] = rx[c]
             /\ Receiving(c) =>
                  /\ e \in Elems(rx'[c])
                  /\ \A x \in Elems(rx'[c]) : x \in Elems(rx[c]) \/ x = e
                  /\ c \notin missed' => Elems(rx[c]) \subseteq Elems(rx'[c])
  <2>1. rx[c] \in Seq(Event) /\ Len(rx[c]) <= BusCap /\ Len(rx[c]) \in Nat
    BY SeqFacts
  <2>2. CASE ~Receiving(c)
    BY <1>1, <2>1, <2>2
  <2>3. CASE Receiving(c) /\ Full(c)
    <3> DEFINE s == Tail(rx[c])
    <3>1. rx[c] # <<>> /\ Len(rx[c]) = BusCap
      BY <1>2, <2>3 DEF Full
    <3>2. s \in Seq(Event) /\ Len(s) = Len(rx[c]) - 1 /\ Elems(s) \subseteq Elems(rx[c])
      BY <2>1, <3>1, SeqFacts, ElemsFacts
    <3>3. rx'[c] = Append(s, e)
      BY <1>1, <2>3
    <3>4. c \in missed'
      BY <1>1, <2>3
    <3> HIDE DEF s
    <3>5. /\ Append(s, e) \in Seq(Event) /\ Len(Append(s, e)) = Len(s) + 1
          /\ Elems(Append(s, e)) = Elems(s) \cup {e}
      BY <3>2, SeqFacts, ElemsFacts
    <3>6. Len(rx'[c]) <= BusCap
      BY <1>2, <3>1, <3>2, <3>3, <3>5
    <3> QED
      BY <2>3, <3>2, <3>3, <3>4, <3>5, <3>6
  <2>4. CASE Receiving(c) /\ ~Full(c)
    <3>1. rx'[c] = Append(rx[c], e) /\ Len(rx[c]) # BusCap
      BY <1>1, <2>4 DEF Full
    <3>2. /\ Append(rx[c], e) \in Seq(Event)
          /\ Len(Append(rx[c], e)) = Len(rx[c]) + 1
          /\ Elems(Append(rx[c], e)) = Elems(rx[c]) \cup {e}
      BY <2>1, SeqFacts, ElemsFacts
    <3>3. Len(rx'[c]) <= BusCap
      BY <1>2, <2>1, <3>1, <3>2
    <3> QED
      BY <2>4, <3>1, <3>2, <3>3
  <2> QED
    BY <2>2, <2>3, <2>4
<1>4. rx' \in [Calls -> Seq(Event)]
  BY <1>1, <1>3
<1> QED
  BY <1>1, <1>3, <1>4

\* A receiver is dropped.
LEMMA UnsubscribeFacts ==
    ASSUME TypeOK, NEW c \in Calls, Unsubscribe(c)
    PROVE  /\ rx' \in [Calls -> Seq(Event)] /\ lagged' \subseteq lagged
           /\ \A d \in Calls : Len(rx'[d]) <= BusCap
           /\ rx'[c] = <<>> /\ \A d \in Calls : d # c => rx'[d] = rx[d]
<1>1. <<>> \in Seq(Event) /\ Len(<<>>) = 0 /\ BusCap \in Nat
  BY BusCapAssumption
<1> QED
  BY <1>1 DEF TypeOK, Unsubscribe

\* The lock handed out is the one others wait for, if there are others.
LEMMA EnqueueFacts ==
    ASSUME TypeOK, NEW c \in Calls, NEW j \in Job, Serialized(j.op), Enqueue(c, j)
    PROVE  /\ pc' = [pc EXCEPT ![c] = "locking"]
           /\ lock' \in [Calls -> Calls \cup {NoCall}]
           /\ op_locks' \in [Torrents \X Classes -> Calls \cup {NoCall}]
           /\ lock'[c] \in Calls
           /\ op_locks'[<<j.t, Class(j.op)>>] = lock'[c]
           /\ \A d \in Calls : d # c => lock'[d] = lock[d]
           /\ \A k \in Torrents \X Classes : op_locks'[k] = op_locks[k]
                \/ (k = <<j.t, Class(j.op)>>
                      /\ ~(op_locks[k] # NoCall /\ Referenced(op_locks[k])))
<1> DEFINE k == <<j.t, Class(j.op)>>
<1>1. k \in Torrents \X Classes
  BY OpFacts DEF Job
<1>2. op_lock(c, k) \in Calls
  BY <1>1 DEF op_lock, TypeOK
<1>3. /\ lock' = [lock EXCEPT ![c] = op_lock(c, k)]
      /\ op_locks' = [op_locks EXCEPT ![k] = op_lock(c, k)]
      /\ pc' = [pc EXCEPT ![c] = "locking"]
  BY DEF Enqueue
<1>4. op_lock(c, k) = op_locks[k] \/ ~(op_locks[k] # NoCall /\ Referenced(op_locks[k]))
  BY DEF op_lock
<1> HIDE DEF k
<1> QED
  BY <1>1, <1>2, <1>3, <1>4 DEF TypeOK, k

LEMMA ForgetFacts ==
    ASSUME TypeOK, NEW c \in Calls
    PROVE  /\ ForgetDelete(c) \in Seq(DeleteEntry)
           /\ \A i \in 1 .. Len(ForgetDelete(c)) :
                \E k \in 1 .. Len(pending_deletes) :
                    ForgetDelete(c)[i] = pending_deletes[k]
<1> DEFINE mine == {i \in 1 .. Len(pending_deletes) :
                       pending_deletes[i].t = job[c].t}
           m == CHOOSE i \in mine : \A j \in mine : i <= j
<1>1. pending_deletes \in Seq(DeleteEntry)
  BY DEF TypeOK, DeleteEntry
<1>2. CASE job[c].op = "delete_files" /\ mine # {}
  <2>1. mine \subseteq Nat
    OBVIOUS
  <2>2. \E i \in mine : \A j \in mine : i <= j
    BY <1>2, <2>1, MinExists
  <2>3. m \in mine
    BY <2>2
  <2>4. m \in 1 .. Len(pending_deletes)
    BY <2>3
  <2>5. ForgetDelete(c) = Without(pending_deletes, m)
    BY <1>2 DEF ForgetDelete
  <2> HIDE DEF m
  <2> QED
    BY <1>1, <2>4, <2>5, WithoutFacts
<1>3. CASE ~(job[c].op = "delete_files" /\ mine # {})
  <2>1. ForgetDelete(c) = pending_deletes
    BY <1>3 DEF ForgetDelete
  <2> QED
    BY <1>1, <2>1
<1> QED
  BY <1>2, <1>3

LEMMA OverlapFacts ==
    ASSUME TypeOK, NEW h, FirstOverlap(h) # 0
    PROVE  /\ FirstOverlap(h) \in 1 .. Len(pending_deletes)
           /\ pending_deletes[FirstOverlap(h)].hashes \cap h # {}
<1> DEFINE hits == {i \in 1 .. Len(pending_deletes) :
                       pending_deletes[i].hashes \cap h # {}}
           m == CHOOSE i \in hits : \A j \in hits : i <= j
<1>1. hits # {} /\ FirstOverlap(h) = m
  BY DEF FirstOverlap
<1>2. hits \subseteq Nat
  OBVIOUS
<1>3. \E i \in hits : \A j \in hits : i <= j
  BY <1>1, <1>2, MinExists
<1>4. m \in hits
  BY <1>3
<1> QED
  BY <1>1, <1>4

(***************************************************************************)
(* What the steps do to each part of the state.                            *)
(***************************************************************************)
\* The types of what the steps build.
LEMMA NewEvents ==
    /\ \A t \in Torrents \cup {NoTorrent}, op \in DOMAIN OpTable \cup {"removed", "other"},
          out \in {"ok", "failed"}, k \in Keys \cup {NoKey}, c \in Calls \cup {NoCall} :
            Alert(t, op, out, k, c) \in Event
    /\ \A e \in Event, t \in Torrents \cup {NoTorrent} : [e EXCEPT !.t = t] \in Event
    /\ \A e \in Event, t \in Torrents \cup {NoTorrent} :
         LET x == [e EXCEPT !.t = t]
         IN x.t = t /\ x.op = e.op /\ x.out = e.out /\ x.key = e.key /\ x.of = e.of
    /\ \A j \in Jobs : j \in Job /\ [j EXCEPT !.op = "trackers"] \in Job
<1>1. "trackers" \in DOMAIN OpTable
  BY OpFacts
<1> QED
  BY <1>1, JobsAssumption DEF Alert, Event, Job

\* The steps of the calls, of libtorrent and of the pump.
CallStep(c) ==
    \/ \E j \in Jobs : CallRequest(c, j) \/ CallSerialized(c, j)
                         \/ CallScrape(c, j) \/ CallDelete(c, j)
    \/ AcquireLock(c) \/ PostLocked(c) \/ RecvLagged(c) \/ RecvOther(c)
    \/ RecvTrackers(c) \/ RecvAnswer(c) \/ WaitCancelled(c) \/ Drain(c)
    \/ WaitTimeout(c) \/ CallDrop(c)

LtStep ==
    \/ \E p \in pending : LtAnswer(p)
    \/ \E t \in Torrents : LtRemove(t) \/ LtNoise(t) \/ LtExpire(t) \/ LtAdd(t)
    \/ LtDelete

LEMMA Steps ==
    Next => (\E c \in Calls : CallStep(c)) \/ LtStep \/ Pump \/ ShutdownCancel
  BY DEF Next, Make, Step, Libtorrent, CallStep, LtStep

\* Of the calls, a step of c touches c alone; the receivers only shrink.
LEMMA OneCall ==
    ASSUME TypeOK, CallInv, NEW c \in Calls, CallStep(c)
    PROVE  /\ UNCHANGED <<session, alive, added, deleting, deleted, alerts, noise,
                          handles, shutdown, missed>>
           /\ \A d \in Calls : d # c =>
                /\ pc'[d] = pc[d] /\ job'[d] = job[d] /\ lock'[d] = lock[d]
                /\ rx'[d] = rx[d] /\ got'[d] = got[d]
                /\ d \in lagged' <=> d \in lagged
           /\ lagged' \subseteq lagged
           /\ \/ rx'[c] = rx[c] \/ rx'[c] = <<>>
              \/ rx[c] # <<>> /\ rx'[c] = Tail(rx[c])
           /\ \E s : rx' = [rx EXCEPT ![c] = s]
<1> USE DEF TypeOK, Unsubscribe, Subscribed, Post, Enqueue
<1>0. rx = [rx EXCEPT ![c] = rx[c]]
  OBVIOUS
<1>1. CASE \E j \in Jobs : CallRequest(c, j) \/ CallSerialized(c, j)
                             \/ CallScrape(c, j) \/ CallDelete(c, j)
  BY <1>0, <1>1 DEF CallRequest, CallSerialized, CallScrape, CallDelete, engineVars, ltVars
<1>2. CASE AcquireLock(c) \/ PostLocked(c) \/ RecvLagged(c) \/ RecvOther(c)
  BY <1>0, <1>2 DEF AcquireLock, PostLocked, RecvLagged, RecvOther, engineVars, ltVars
<1>3. CASE RecvTrackers(c) \/ RecvAnswer(c) \/ WaitCancelled(c)
  BY <1>0, <1>3 DEF RecvTrackers, Resolve, RecvAnswer, WaitCancelled, Return, engineVars, ltVars
<1>4. CASE Drain(c) \/ WaitTimeout(c) \/ CallDrop(c)
  BY <1>0, <1>4 DEF Drain, WaitTimeout, CallDrop, engineVars, ltVars
<1> QED
  BY <1>1, <1>2, <1>3, <1>4 DEF CallStep

\* libtorrent touches no call, and the pump no operation under way.
LEMMA OtherSteps ==
    /\ LtStep => UNCHANGED <<pc, job, lock, rx, lagged, got, missed, op_locks,
                             pending_deletes, shutdown>>
    /\ Pump => UNCHANGED <<session, alive, added, pending, removing, deleting, deleted,
                           noise, op_locks, shutdown, pc, job, lock, got>>
    /\ ShutdownCancel => UNCHANGED <<ltVars, handles, pending_deletes, op_locks, callVars>>
<1>1. LtStep => UNCHANGED <<pc, job, lock, rx, lagged, got, missed, op_locks,
                             pending_deletes, shutdown>>
  BY DEF LtStep, LtAnswer, LtRemove, LtNoise, LtExpire, LtAdd, LtDelete, engineVars, callVars
<1>2. Pump => UNCHANGED <<session, alive, added, pending, removing, deleting, deleted,
                           noise, op_locks, shutdown, pc, job, lock, got>>
  BY DEF Pump, PumpPublish, PumpRemoved, PumpDeleted, engineVars
<1> QED
  BY <1>1, <1>2 DEF ShutdownCancel

\* The way of a call.
LEMMA WayOfCall ==
    ASSUME TypeOK, CallInv, NEW c \in Calls, CallStep(c)
    PROVE  /\ pc'[c] # "idle"
           /\ pc[c] # "idle" => job'[c] = job[c]
           /\ pc[c] = "idle" => /\ job'[c] \in Job
                                /\ pc'[c] \in {"locking", "resolving", "waiting", "err"}
           /\ pc'[c] = "locking" => Serialized(job'[c].op) /\ lock'[c] \in Calls
           /\ pc'[c] = "locked" => pc[c] = "locking"
           /\ pc'[c] = "resolving" => job'[c].op = "scrape_tracker"
           /\ pc'[c] = "draining" => pc[c] = "draining" \/
                (pc[c] = "waiting" /\ Serialized(job[c].op))
           /\ pc'[c] = "waiting" /\ pc[c] # "waiting" =>
                /\ job'[c].t \in handles /\ shutdown = "no" /\ rx'[c] = rx[c]
                /\ pc[c] = "locked" \/ (pc[c] = "idle" /\ ~Serialized(job'[c].op))
           /\ pc[c] = "idle" /\ pc'[c] = "resolving" => job'[c].t \in handles
           /\ pc[c] = "resolving" => pc'[c] \notin {"idle", "locked", "waiting", "ok"}
           /\ pc[c] = "dropped" => pc'[c] = "dropped"
           /\ pc'[c] \in {"idle", "resolving", "locking", "locked"} =>
                pc[c] \in {"idle", "resolving", "locking", "locked"}
           /\ pc'[c] \notin {"resolving", "waiting", "draining"} /\ pc'[c] # pc[c] =>
                rx'[c] = <<>> \/ pc[c] \in {"idle", "locking", "locked"}
           /\ lock'[c] # lock[c] => pc'[c] = "locking"
<1> USE DEF TypeOK, Unsubscribe, Subscribed, Post
<1>1. CASE \E j \in Jobs : CallRequest(c, j) \/ CallScrape(c, j) \/ CallDelete(c, j)
  <2>1. PICK j \in Jobs : CallRequest(c, j) \/ CallScrape(c, j) \/ CallDelete(c, j)
    BY <1>1
  <2>2. j \in Job /\ job'[c] = j /\ pc[c] = "idle"
    BY <2>1, JobsAssumption DEF CallRequest, CallScrape, CallDelete
  <2>3. Class(j.op) = "Scrape" => j.op = "scrape_tracker"
    BY <2>2, OpFacts DEF Job
  <2>4. j.op = "delete_files" => ~Serialized(j.op)
    BY <2>2, OpFacts DEF Job
  <2> QED
    BY <2>1, <2>2, <2>3, <2>4 DEF CallRequest, CallScrape, CallDelete, engineVars
<1>2. CASE \E j \in Jobs : CallSerialized(c, j)
  <2>1. PICK j \in Jobs : CallSerialized(c, j)
    BY <1>2
  <2>2. j \in Job /\ job'[c] = j /\ pc[c] = "idle"
    BY <2>1, JobsAssumption DEF CallSerialized
  <2>3. Serialized(j.op)
    BY <2>1 DEF CallSerialized, Serialized
  <2>4. lock'[c] \in Calls /\ pc' = [pc EXCEPT ![c] = "locking"]
    BY <2>1, <2>2, <2>3, EnqueueFacts DEF CallSerialized
  <2> QED
    BY <2>2, <2>3, <2>4
<1>3. CASE AcquireLock(c) \/ PostLocked(c) \/ RecvLagged(c) \/ RecvOther(c)
  BY <1>3 DEF AcquireLock, PostLocked, RecvLagged, RecvOther, CallInv, engineVars, Waiting
<1>4. CASE RecvTrackers(c)
  <2>1. /\ pc[c] = "resolving" /\ job[c] \in Job /\ job' = job /\ rx'[c] = <<>>
        /\ Serialized(job[c].op) /\ Resolve(c)
    BY <1>4, OpFacts DEF RecvTrackers, CallInv, Job
  <2>2. \/ lock'[c] \in Calls /\ pc' = [pc EXCEPT ![c] = "locking"]
        \/ lock' = lock /\ pc' = [pc EXCEPT ![c] = "err"]
    BY <2>1, EnqueueFacts DEF Resolve
  <2> QED
    BY <2>1, <2>2
<1>5. CASE RecvAnswer(c) \/ WaitCancelled(c)
  BY <1>5 DEF RecvAnswer, WaitCancelled, Return, CallInv, Waiting
<1>6. CASE Drain(c) \/ WaitTimeout(c) \/ CallDrop(c)
  BY <1>6 DEF Drain, WaitTimeout, CallDrop, AfterTimeout, CallInv, Waiting
<1> QED
  BY <1>1, <1>2, <1>3, <1>4, <1>5, <1>6 DEF CallStep

\* The pump takes the first alert and shows it to every receiver: an answer
\* under the uuid it is attributed to.
Shown(e) ==
    LET a == Head(alerts)
    IN /\ e \in Event /\ e.op = a.op /\ e.out = a.out /\ e.key = a.key /\ e.of = a.of
       /\ a.op \notin {"removed", "delete_files"} =>
            /\ e.t \in {a.t, NoTorrent}
            /\ a.t \in alive => e.t = a.t
       /\ a.op = "removed" => e.t = a.t
       /\ a.op = "delete_files" =>
            \/ e.t = NoTorrent
            \/ \E i \in 1 .. Len(pending_deletes) :
                 /\ pending_deletes[i].t = e.t
                 /\ pending_deletes[i].hashes \cap Hashes[a.t] # {}

LEMMA PumpStep ==
    ASSUME TypeOK, GenuineInv, Pump
    PROVE  /\ alerts # <<>> /\ Head(alerts) \in Event /\ alerts' = Tail(alerts)
           /\ Head(alerts) \in Elems(alerts)
           /\ pending_deletes' \in Seq(DeleteEntry)
           /\ \A i \in 1 .. Len(pending_deletes') :
                \E k \in 1 .. Len(pending_deletes) :
                    pending_deletes'[i] = pending_deletes[k]
           /\ handles' \subseteq handles
           /\ \A t \in handles \ handles' : \E e \in Elems(alerts) :
                e.op = "removed" /\ e.t = t
           /\ Head(alerts).op = "removed" => Head(alerts).t \notin handles'
           /\ \E e : Shown(e) /\ publish(e)
<1> DEFINE a == Head(alerts)
<1>1. alerts # <<>> /\ alerts' = Tail(alerts) /\ alerts \in Seq(Event)
  BY DEF Pump, PumpPublish, PumpRemoved, PumpDeleted, TypeOK
<1>2. a \in Event /\ a \in Elems(alerts)
  BY <1>1, ElemsFacts, SeqFacts
<1>3. a.t \in Torrents
  BY <1>2 DEF GenuineInv
<1>4. pending_deletes \in Seq(DeleteEntry)
  BY DEF TypeOK, DeleteEntry
<1> HIDE DEF a
<1>5. CASE PumpPublish
  <2> DEFINE e == [a EXCEPT !.t = torrent_of(a)]
  <2>1. torrent_of(a) \in {a.t, NoTorrent} /\ (a.t \in alive => torrent_of(a) = a.t)
    BY DEF torrent_of
  <2>2. /\ e \in Event /\ e.op = a.op /\ e.out = a.out /\ e.key = a.key /\ e.of = a.of
        /\ e.t = torrent_of(a)
    BY <1>2, <1>3, <2>1, NewEvents
  <2>3. a.op \notin {"removed", "delete_files"} /\ publish(e)
    BY <1>5 DEF PumpPublish, a
  <2> HIDE DEF e
  <2>4. Shown(e)
    BY <2>1, <2>2, <2>3 DEF Shown, a
  <2>5. UNCHANGED <<handles, pending_deletes>>
    BY <1>5 DEF PumpPublish, engineVars
  <2> QED
    BY <1>1, <1>2, <1>4, <2>3, <2>4, <2>5 DEF a
<1>6. CASE PumpRemoved
  <2>1. a.op = "removed" /\ publish(a) /\ handles' = handles \ {a.t}
        /\ pending_deletes' = pending_deletes
    BY <1>6 DEF PumpRemoved, a
  <2>2. Shown(a)
    BY <1>2, <2>1 DEF Shown, a
  <2> QED
    BY <1>1, <1>2, <1>4, <2>1, <2>2 DEF a
<1>7. CASE PumpDeleted
  <2> DEFINE i == FirstOverlap(Hashes[a.t])
  <2>1. a.op = "delete_files" /\ handles' = handles
    BY <1>7 DEF PumpDeleted, a
  <2>2. CASE i = 0
    <3> DEFINE e == [a EXCEPT !.t = NoTorrent]
    <3>1. publish(e) /\ pending_deletes' = pending_deletes
      BY <1>7, <2>2 DEF PumpDeleted, a
    <3>2. /\ e \in Event /\ e.op = a.op /\ e.out = a.out /\ e.key = a.key /\ e.of = a.of
          /\ e.t = NoTorrent
      BY <1>2, NewEvents
    <3> HIDE DEF e
    <3>3. Shown(e)
      BY <2>1, <3>2 DEF Shown, a
    <3> QED
      BY <1>1, <1>2, <1>4, <2>1, <3>1, <3>3 DEF a
  <2>3. CASE i # 0
    <3> DEFINE e == [a EXCEPT !.t = pending_deletes[i].t]
    <3>1. publish(e) /\ pending_deletes' = Without(pending_deletes, i)
      BY <1>7, <2>3 DEF PumpDeleted, a
    <3>2. /\ i \in 1 .. Len(pending_deletes)
          /\ pending_deletes[i].hashes \cap Hashes[a.t] # {}
      BY <2>3, OverlapFacts
    <3> HIDE DEF i
    <3>3. pending_deletes[i].t \in Torrents
      <4>1. pending_deletes[i] \in DeleteEntry
        BY <1>4, <3>2, SeqFacts
      <4> QED
        BY <4>1 DEF DeleteEntry
    <3>4. /\ e \in Event /\ e.op = a.op /\ e.out = a.out /\ e.key = a.key /\ e.of = a.of
          /\ e.t = pending_deletes[i].t
      BY <1>2, <3>3, NewEvents
    <3> HIDE DEF e
    <3>5. Shown(e)
      BY <2>1, <3>2, <3>4 DEF Shown, a
    <3>6. /\ pending_deletes' \in Seq(DeleteEntry)
          /\ \A m \in 1 .. Len(pending_deletes') :
                \E k \in 1 .. Len(pending_deletes) :
                    pending_deletes'[m] = pending_deletes[k]
      BY <1>4, <3>1, <3>2, WithoutFacts
    <3> QED
      BY <1>1, <1>2, <2>1, <3>1, <3>5, <3>6 DEF a
  <2> QED
    BY <2>2, <2>3
<1> QED
  BY <1>5, <1>6, <1>7 DEF Pump

\* The alerts libtorrent adds.
New(e) ==
    \/ \E p \in pending :
         /\ e.t = p[2].t /\ e.op = p[2].op /\ e.key = p[2].key /\ e.of = p[1]
         /\ pending' = pending \ {p}
    \/ /\ e.of = NoCall /\ pending' = pending
       /\ \/ e.op \in {"other", "scrape_tracker"}
          \/ e.op = "removed" /\ e.t \in session \ session'
          \/ e.op = "delete_files" /\ (e.out = "ok" => e.t \in deleted')

LEMMA LtAlerts ==
    ASSUME TypeOK, LtStep
    PROVE  /\ \/ alerts' = alerts
              \/ \E e \in Event : New(e) /\ e.t \in Torrents /\ alerts' = Append(alerts, e)
           /\ pending' = pending \/ \E p \in pending :
                /\ pending' = pending \ {p}
                /\ p[2].t \notin session \/ \E e \in Event :
                     /\ New(e) /\ alerts' = Append(alerts, e)
                     /\ e.of = p[1] /\ e.op = p[2].op
           /\ session' \cap added \subseteq session /\ session' \ session \subseteq handles'
           /\ handles \subseteq handles' /\ (handles' \ handles) \cap added = {}
           /\ added \subseteq added' /\ handles' \ handles \subseteq added'
           /\ (session \subseteq alive => session' \subseteq alive')
           /\ deleted \subseteq deleted'
<1> USE DEF TypeOK
<1>1. CASE \E p \in pending : LtAnswer(p)
  <2>1. PICK p \in pending : LtAnswer(p)
    BY <1>1
  <2>2. /\ pending' = pending \ {p} /\ p[1] \in Calls /\ p[2] \in Job
        /\ UNCHANGED <<session, alive, added, deleted, handles>>
    BY <2>1 DEF LtAnswer, engineVars
  <2>3. CASE \E out \in {"ok", "failed"} :
               alerts' = Append(alerts, Alert(p[2].t, p[2].op, out, p[2].key, p[1]))
    <3>1. PICK out \in {"ok", "failed"} :
               alerts' = Append(alerts, Alert(p[2].t, p[2].op, out, p[2].key, p[1]))
      BY <2>3
    <3> DEFINE e == Alert(p[2].t, p[2].op, out, p[2].key, p[1])
    <3>2. e \in Event /\ e.t = p[2].t /\ e.op = p[2].op /\ e.key = p[2].key /\ e.of = p[1]
      BY <2>2, NewEvents DEF Job, Alert
    <3>3. p[2].t \in Torrents
      BY <2>2 DEF Job
    <3>4. alerts' = Append(alerts, e)
      BY <3>1
    <3> HIDE DEF e
    <3>5. New(e)
      BY <2>2, <3>2 DEF New
    <3> QED
      BY <2>2, <3>2, <3>3, <3>4, <3>5
  <2>4. CASE p[2].t \notin session /\ UNCHANGED alerts
    BY <2>2, <2>4
  <2> QED
    BY <2>1, <2>3, <2>4 DEF LtAnswer
<1>2. CASE \E t \in Torrents : LtNoise(t)
  <2>1. PICK t \in Torrents : LtNoise(t)
    BY <1>2
  <2>2. UNCHANGED <<session, alive, added, deleted, handles, pending>>
    BY <2>1 DEF LtNoise, engineVars
  <2>3. PICK op \in {"other", "scrape_tracker"}, k \in Keys \cup {NoKey} :
          alerts' = Append(alerts, Alert(t, op, "ok", k, NoCall))
    BY <2>1, TrackersAssumption DEF LtNoise
  <2> DEFINE e == Alert(t, op, "ok", k, NoCall)
  <2>4. e \in Event /\ e.t = t /\ e.op = op /\ e.of = NoCall
    BY NewEvents, OpFacts DEF Alert
  <2>5. alerts' = Append(alerts, e)
    BY <2>3
  <2> HIDE DEF e
  <2>6. New(e)
    BY <2>2, <2>4 DEF New
  <2> QED
    BY <2>2, <2>4, <2>5, <2>6
<1>3. CASE \E t \in Torrents : LtRemove(t)
  <2>1. PICK t \in Torrents : LtRemove(t)
    BY <1>3
  <2>2. /\ session' = session \ {t}
        /\ UNCHANGED <<alive, added, deleted, handles, pending>>
    BY <2>1 DEF LtRemove, engineVars
  <2>3. CASE t \in session
    <3> DEFINE e == Alert(t, "removed", "ok", NoKey, NoCall)
    <3>1. e \in Event /\ e.t = t /\ e.op = "removed" /\ e.of = NoCall
      BY NewEvents DEF Alert
    <3>2. alerts' = Append(alerts, e)
      BY <2>1, <2>3 DEF LtRemove
    <3> HIDE DEF e
    <3>3. New(e)
      BY <2>2, <2>3, <3>1 DEF New
    <3> QED
      BY <2>2, <3>1, <3>2, <3>3
  <2>4. CASE t \notin session
    <3>1. alerts' = alerts
      BY <2>1, <2>4 DEF LtRemove
    <3> QED
      BY <2>2, <3>1
  <2> QED
    BY <2>3, <2>4
<1>4. CASE LtDelete
  <2>1. deleting # <<>> /\ Head(deleting) \in Torrents
    BY <1>4, SeqFacts DEF LtDelete
  <2>2. UNCHANGED <<session, alive, added, handles, pending>>
    BY <1>4 DEF LtDelete, engineVars
  <2>3. PICK out \in {"ok", "failed"} :
          /\ deleted' = IF out = "ok" THEN deleted \cup {Head(deleting)} ELSE deleted
          /\ alerts' = Append(alerts, Alert(Head(deleting), "delete_files", out,
                                            NoKey, NoCall))
    BY <1>4 DEF LtDelete
  <2> DEFINE e == Alert(Head(deleting), "delete_files", out, NoKey, NoCall)
  <2>4. e \in Event /\ e.t = Head(deleting) /\ e.op = "delete_files" /\ e.out = out
        /\ e.of = NoCall
    BY <2>1, NewEvents, OpFacts DEF Alert
  <2>5. alerts' = Append(alerts, e)
    BY <2>3
  <2>6. e.out = "ok" => e.t \in deleted'
    BY <2>3, <2>4
  <2> HIDE DEF e
  <2>7. New(e)
    BY <2>2, <2>4, <2>6 DEF New
  <2>8. deleted \subseteq deleted'
    BY <2>3
  <2> QED
    BY <2>1, <2>2, <2>4, <2>5, <2>7, <2>8
<1>5. CASE \E t \in Torrents : LtExpire(t) \/ LtAdd(t)
  BY <1>5 DEF LtExpire, LtAdd, engineVars
<1> QED
  BY <1>1, <1>2, <1>3, <1>4, <1>5 DEF LtStep

(***************************************************************************)
(* Types, and what is known of a call at each point of its way.            *)
(***************************************************************************)
LEMMA TypeInit == Init => TypeOK /\ CallInv
<1> SUFFICES ASSUME Init PROVE TypeOK /\ CallInv
  OBVIOUS
<1>1. BusCap \in Nat /\ Len(<<>>) = 0 /\ Len(<<>>) <= BusCap
  BY BusCapAssumption
<1>2. TypeOK
  BY <1>1 DEF Init, TypeOK, PcValues
<1>3. CallInv
  BY DEF Init, CallInv, Started, Receiving, Waiting
<1> QED
  BY <1>2, <1>3

\* The values a call step assigns.
LEMMA CallTypes ==
    ASSUME TypeOK, CallInv, NEW c \in Calls, CallStep(c)
    PROVE  /\ pending' \subseteq (Calls \X Job) /\ removing' \subseteq Torrents
           /\ pending_deletes' \in Seq(DeleteEntry)
           /\ op_locks' \in [Torrents \X Classes -> Calls \cup {NoCall}]
           /\ pc' \in [Calls -> PcValues] /\ job' \in [Calls -> Job \cup {NoJob}]
           /\ lock' \in [Calls -> Calls \cup {NoCall}]
           /\ got' \in [Calls -> Calls \cup {NoCall}]
           /\ \A i \in 1 .. Len(pending_deletes') :
                \/ \E k \in 1 .. Len(pending_deletes) :
                     pending_deletes'[i] = pending_deletes[k]
                \/ pending_deletes'[i].hashes \subseteq Hashes[pending_deletes'[i].t]
<1>0. pending_deletes \in Seq(DeleteEntry)
  BY DEF TypeOK, DeleteEntry
<1> DEFINE Same == \A i \in 1 .. Len(pending_deletes') :
                     \/ \E k \in 1 .. Len(pending_deletes) :
                          pending_deletes'[i] = pending_deletes[k]
                     \/ pending_deletes'[i].hashes \subseteq Hashes[pending_deletes'[i].t]
<1>1. CASE \E j \in Jobs : CallRequest(c, j) \/ CallScrape(c, j)
  <2>1. PICK j \in Jobs : CallRequest(c, j) \/ CallScrape(c, j)
    BY <1>1
  <2>2. j \in Job /\ [j EXCEPT !.op = "trackers"] \in Job
    BY NewEvents
  <2>3. pending_deletes' = pending_deletes /\ op_locks' = op_locks /\ lock' = lock
        /\ got' = got /\ removing' = removing
        /\ job' = [job EXCEPT ![c] = j]
        /\ \E x \in {"waiting", "resolving"} : pc' = [pc EXCEPT ![c] = x]
    BY <2>1 DEF CallRequest, CallScrape, Subscribed, Post, engineVars
  <2>4. pending' \subseteq (Calls \X Job)
    <3> DEFINE x == [j EXCEPT !.op = "trackers"]
    <3>1. x \in Job
      BY <2>2
    <3>2. pending' = pending \cup {<<c, j>>} \/ pending' = pending \cup {<<c, x>>}
      BY <2>1 DEF CallRequest, CallScrape, Post
    <3> HIDE DEF x
    <3> QED
      BY <2>2, <3>1, <3>2 DEF TypeOK
  <2>5. Same
    BY <2>3
  <2> QED
    BY <1>0, <2>2, <2>3, <2>4, <2>5 DEF TypeOK, PcValues, Waiting
<1>2. CASE \E j \in Jobs : CallDelete(c, j)
  <2>1. PICK j \in Jobs : CallDelete(c, j)
    BY <1>2
  <2>2. j \in Job /\ j.t \in Torrents
    BY NewEvents DEF Job
  <2>3. op_locks' = op_locks /\ lock' = lock /\ got' = got /\ pending' = pending
        /\ job' = [job EXCEPT ![c] = j]
        /\ \E x \in {"waiting", "err"} : pc' = [pc EXCEPT ![c] = x]
        /\ removing' \subseteq removing \cup {j.t}
    BY <2>1 DEF CallDelete, Subscribed
  <2>4. pending_deletes' \in Seq(DeleteEntry) /\ Same
    <3>1. CASE shutdown = "no"
      <4>1. PICK h \in (SUBSET Hashes[j.t]) \ {{}} :
              pending_deletes' = Append(pending_deletes, [hashes |-> h, t |-> j.t])
        BY <2>1, <3>1 DEF CallDelete
      <4> DEFINE x == [hashes |-> h, t |-> j.t]
      <4>2. x \in DeleteEntry /\ x.t = j.t /\ x.hashes \subseteq Hashes[x.t]
        BY <2>2 DEF DeleteEntry
      <4>3. pending_deletes' = Append(pending_deletes, x)
        BY <4>1
      <4> HIDE DEF x
      <4>4. /\ pending_deletes' \in Seq(DeleteEntry)
            /\ Len(pending_deletes) \in Nat
            /\ Len(pending_deletes') = Len(pending_deletes) + 1
            /\ pending_deletes'[Len(pending_deletes) + 1] = x
            /\ \A i \in 1 .. Len(pending_deletes) :
                 pending_deletes'[i] = pending_deletes[i]
        BY <1>0, <4>2, <4>3, SeqFacts
      <4>5. \A i \in 1 .. Len(pending_deletes') :
              i \in 1 .. Len(pending_deletes) \/ i = Len(pending_deletes) + 1
        BY <4>4
      <4> QED
        BY <4>2, <4>4, <4>5
    <3>2. CASE shutdown # "no"
      BY <1>0, <2>1, <3>2 DEF CallDelete
    <3> QED
      BY <3>1, <3>2
  <2> QED
    BY <2>2, <2>3, <2>4 DEF TypeOK, PcValues, Waiting
<1>3. CASE \E j \in Jobs : CallSerialized(c, j)
  <2>1. PICK j \in Jobs : CallSerialized(c, j)
    BY <1>3
  <2>2. j \in Job /\ Serialized(j.op) /\ Enqueue(c, j) /\ job' = [job EXCEPT ![c] = j]
        /\ pending_deletes' = pending_deletes /\ got' = got /\ removing' = removing
        /\ pending' = pending
    BY <2>1, NewEvents DEF CallSerialized, Serialized, ltVars
  <2>3. /\ pc' = [pc EXCEPT ![c] = "locking"]
        /\ lock' \in [Calls -> Calls \cup {NoCall}]
        /\ op_locks' \in [Torrents \X Classes -> Calls \cup {NoCall}]
    BY <2>2, EnqueueFacts
  <2>4. Same
    BY <2>2
  <2> QED
    BY <1>0, <2>2, <2>3, <2>4 DEF TypeOK, PcValues
<1>4. CASE AcquireLock(c) \/ PostLocked(c) \/ RecvLagged(c) \/ RecvOther(c)
  <2>1. pending_deletes' = pending_deletes /\ op_locks' = op_locks /\ lock' = lock
        /\ got' = got /\ removing' = removing /\ job' = job
    BY <1>4 DEF AcquireLock, PostLocked, RecvLagged, RecvOther, Post, engineVars, ltVars
  <2>2. pc' \in [Calls -> PcValues]
    BY <1>4 DEF AcquireLock, PostLocked, RecvLagged, RecvOther, Subscribed, TypeOK,
       PcValues, Waiting
  <2>3. pending' \subseteq (Calls \X Job)
    BY <1>4 DEF AcquireLock, PostLocked, RecvLagged, RecvOther, Post, TypeOK, ltVars,
       CallInv
  <2>4. Same
    BY <2>1
  <2> QED
    BY <1>0, <2>1, <2>2, <2>3, <2>4 DEF TypeOK
<1>5. CASE RecvTrackers(c)
  <2>1. pc[c] = "resolving" /\ job[c] \in Job /\ job[c].op = "scrape_tracker"
        /\ Serialized(job[c].op) /\ Resolve(c)
        /\ pending_deletes' = pending_deletes /\ got' = got /\ removing' = removing
        /\ pending' = pending /\ job' = job
    BY <1>5, OpFacts DEF RecvTrackers, CallInv, ltVars
  <2>2. \/ /\ pc' = [pc EXCEPT ![c] = "locking"]
           /\ lock' \in [Calls -> Calls \cup {NoCall}]
           /\ op_locks' \in [Torrents \X Classes -> Calls \cup {NoCall}]
        \/ /\ pc' = [pc EXCEPT ![c] = "err"]
           /\ UNCHANGED <<lock, op_locks>>
    BY <2>1, EnqueueFacts DEF Resolve
  <2>3. Same
    BY <2>1
  <2> QED
    BY <1>0, <2>1, <2>2, <2>3 DEF TypeOK, PcValues
<1>6. CASE RecvAnswer(c) \/ WaitCancelled(c) \/ Drain(c) \/ WaitTimeout(c) \/ CallDrop(c)
  <2>1. op_locks' = op_locks /\ lock' = lock /\ removing' = removing /\ job' = job
        /\ pending' = pending
    BY <1>6 DEF RecvAnswer, WaitCancelled, Drain, WaitTimeout, CallDrop, engineVars, ltVars
  <2>2. pc' \in [Calls -> PcValues]
    BY <1>6 DEF RecvAnswer, WaitCancelled, Return, Drain, WaitTimeout, CallDrop,
       AfterTimeout, TypeOK, PcValues, Waiting
  <2>3. got' \in [Calls -> Calls \cup {NoCall}]
    <3>1. CASE RecvAnswer(c)
      <4>1. rx[c] # <<>> /\ rx[c] \in Seq(Event) /\ got' = [got EXCEPT ![c] = Head(rx[c]).of]
        BY <3>1 DEF RecvAnswer, TypeOK
      <4>2. Head(rx[c]) \in Event
        BY <4>1, SeqFacts
      <4>3. Head(rx[c]).of \in Calls \cup {NoCall}
        BY <4>2 DEF Event
      <4> QED
        BY <4>1, <4>3 DEF TypeOK
    <3>2. CASE ~RecvAnswer(c)
      BY <1>6, <3>2 DEF WaitCancelled, Drain, WaitTimeout, CallDrop, TypeOK
    <3> QED
      BY <3>1, <3>2
  <2>4. pending_deletes' = pending_deletes \/ pending_deletes' = ForgetDelete(c)
    BY <1>6 DEF RecvAnswer, WaitCancelled, Return, Drain, WaitTimeout, CallDrop, engineVars
  <2>5. pending_deletes' \in Seq(DeleteEntry) /\ Same
    BY <1>0, <2>4, ForgetFacts
  <2> QED
    BY <2>1, <2>2, <2>3, <2>5 DEF TypeOK
<1> QED
  BY <1>1, <1>2, <1>3, <1>4, <1>5, <1>6 DEF CallStep

\* The receivers, whoever moves.
LEMMA RxStep ==
    ASSUME TypeOK, CallInv, GenuineInv, Next, NEW c \in Calls
    PROVE  /\ rx'[c] \in Seq(Event) /\ Len(rx'[c]) <= BusCap
           /\ \A e \in Elems(rx'[c]) :
                e \in Elems(rx[c]) \/ (Pump /\ Receiving(c) /\ Shown(e))
           /\ ~Receiving(c) => rx'[c] = <<>>
<1> USE DEF TypeOK
<1>0. rx \in [Calls -> Seq(Event)] /\ rx[c] \in Seq(Event) /\ Len(rx[c]) \in Nat
      /\ Len(rx[c]) <= BusCap /\ (~Receiving(c) => rx[c] = <<>>) /\ BusCap \in Nat
  BY SeqFacts, BusCapAssumption DEF CallInv
<1>1. ASSUME NEW d \in Calls, CallStep(d)
      PROVE  \/ rx'[c] = rx[c] \/ rx'[c] = <<>>
             \/ rx[c] # <<>> /\ rx'[c] = Tail(rx[c])
  BY <1>1, OneCall
<1>2. <<>> \in Seq(Event) /\ Len(<<>>) = 0 /\ Elems(<<>>) = {}
  BY ElemsEmpty
<1>3. rx[c] # <<>> => /\ Tail(rx[c]) \in Seq(Event) /\ Len(Tail(rx[c])) <= BusCap
                      /\ Elems(Tail(rx[c])) \subseteq Elems(rx[c])
  BY <1>0, SeqFacts, ElemsFacts
<1>4. CASE \E d \in Calls : CallStep(d)
  <2>1. PICK d \in Calls : CallStep(d)
    BY <1>4
  <2>2. CASE rx'[c] = rx[c]
    BY <1>0, <2>2
  <2>3. CASE rx'[c] = <<>>
    BY <1>0, <1>2, <2>3
  <2>4. CASE rx[c] # <<>> /\ rx'[c] = Tail(rx[c])
    BY <1>0, <1>3, <2>4
  <2> QED
    BY <1>1, <2>1, <2>2, <2>3, <2>4
<1>5. CASE LtStep \/ ShutdownCancel
  BY <1>0, <1>5, OtherSteps DEF callVars
<1>6. CASE Pump
  <2>1. PICK e : Shown(e) /\ publish(e)
    BY <1>6, PumpStep
  <2>2. e \in Event
    BY <2>1 DEF Shown
  <2> QED
    BY <1>0, <1>6, <2>1, <2>2, PublishFacts
<1> QED
  BY <1>4, <1>5, <1>6, Steps

LEMMA TypeStep ==
    ASSUME TypeOK, CallInv, GenuineInv, Next
    PROVE  TypeOK'
<1>1. /\ \A c \in Calls : rx'[c] \in Seq(Event) /\ Len(rx'[c]) <= BusCap
  BY RxStep
<1>2. CASE \E c \in Calls : CallStep(c)
  <2>1. PICK c \in Calls : CallStep(c)
    BY <1>2
  <2>2. rx' \in [Calls -> Seq(Event)]
    BY <1>1, <2>1, OneCall DEF TypeOK
  <2>3. lagged' \subseteq Calls /\ missed' \subseteq Calls
    BY <2>1, OneCall DEF TypeOK
  <2> QED
    BY <1>1, <2>1, <2>2, <2>3, OneCall, CallTypes DEF TypeOK, DeleteEntry
<1>3. CASE LtStep
  <2>1. alerts' \in Seq(Event)
    <3>1. alerts \in Seq(Event)
      BY DEF TypeOK
    <3>2. \A e \in Event : Append(alerts, e) \in Seq(Event)
      BY <3>1, SeqFacts
    <3> QED
      BY <1>3, <3>1, <3>2, LtAlerts
  <2>2. pending' \subseteq (Calls \X Job)
    BY <1>3, LtAlerts DEF TypeOK
  <2>3. /\ session' \subseteq Torrents /\ alive' \subseteq Torrents /\ added' \subseteq Torrents
        /\ removing' \subseteq Torrents /\ handles' \subseteq Torrents /\ noise' \in Nat
        /\ deleting' \in Seq(Torrents) /\ deleted' \subseteq Torrents
    <3>1. CASE LtDelete
      <4>1. deleting # <<>> /\ deleting \in Seq(Torrents)
        BY <3>1 DEF LtDelete, TypeOK
      <4>2. Head(deleting) \in Torrents /\ Tail(deleting) \in Seq(Torrents)
        BY <4>1, SeqFacts
      <4> QED
        BY <3>1, <4>2 DEF LtDelete, TypeOK, engineVars
    <3>2. CASE \E t \in Torrents : LtRemove(t)
      <4>1. PICK t \in Torrents : LtRemove(t)
        BY <3>2
      <4>2. Append(deleting, t) \in Seq(Torrents)
        BY SeqFacts DEF TypeOK
      <4> QED
        BY <4>1, <4>2 DEF LtRemove, TypeOK, engineVars
    <3>3. CASE \E t \in Torrents : LtNoise(t)
      BY <3>3 DEF LtNoise, TypeOK, engineVars
    <3>4. CASE \E t \in Torrents : LtExpire(t) \/ LtAdd(t)
      BY <3>4 DEF LtExpire, LtAdd, TypeOK, engineVars
    <3>5. CASE \E p \in pending : LtAnswer(p)
      BY <3>5 DEF LtAnswer, TypeOK, engineVars
    <3> QED
      BY <1>3, <3>1, <3>2, <3>3, <3>4, <3>5 DEF LtStep
  <2> QED
    BY <1>3, <2>1, <2>2, <2>3, OtherSteps DEF TypeOK
<1>4. CASE Pump
  <2>1. PICK e : Shown(e) /\ publish(e)
    BY <1>4, PumpStep
  <2>2. /\ rx' \in [Calls -> Seq(Event)]
        /\ lagged' \subseteq Calls /\ missed' \subseteq Calls
    BY <2>1, PublishFacts DEF Shown
  <2>3. alerts' \in Seq(Event)
    <3>1. alerts \in Seq(Event)
      BY DEF TypeOK
    <3>2. alerts # <<>> => Tail(alerts) \in Seq(Event)
      BY <3>1, SeqFacts
    <3> QED
      BY <1>4, <3>2, PumpStep
  <2>4. handles' \subseteq Torrents /\ pending_deletes' \in Seq(DeleteEntry)
    BY <1>4, PumpStep DEF TypeOK
  <2> QED
    BY <1>1, <1>4, <2>2, <2>3, <2>4, OtherSteps DEF TypeOK, DeleteEntry
<1>5. CASE ShutdownCancel
  BY <1>5 DEF TypeOK, ShutdownCancel, ltVars, callVars
<1> QED
  BY <1>2, <1>3, <1>4, <1>5, Steps

\* A call keeps its job, and does not become idle again.
LEMMA JobStep ==
    ASSUME TypeOK, CallInv, Next, NEW c \in Calls
    PROVE  /\ pc[c] # "idle" => pc'[c] # "idle" /\ job'[c] = job[c]
           /\ pc'[c] = "idle" => job'[c] = job[c]
           /\ pc'[c] # "idle" /\ pc[c] = "idle" => job'[c] \in Job /\ c \notin missed
           /\ pc[c] = "dropped" => pc'[c] = "dropped"
           /\ ~CallStep(c) => pc'[c] = pc[c] /\ job'[c] = job[c] /\ lock'[c] = lock[c]
                                /\ got'[c] = got[c]
<1>1. CASE CallStep(c)
  BY <1>1, WayOfCall, OneCall DEF CallInv
<1>2. CASE ~CallStep(c)
  <2>1. pc'[c] = pc[c] /\ job'[c] = job[c] /\ lock'[c] = lock[c] /\ got'[c] = got[c]
    <3>1. CASE \E d \in Calls : CallStep(d)
      BY <1>2, <3>1, OneCall
    <3>2. CASE LtStep \/ Pump \/ ShutdownCancel
      BY <3>2, OtherSteps DEF callVars
    <3> QED
      BY <3>1, <3>2, Steps
  <2> QED
    BY <1>2, <2>1 DEF CallInv
<1> QED
  BY <1>1, <1>2

\* The world around the calls only moves one way.
LEMMA WorldStep ==
    ASSUME TypeOK, CallInv, GenuineInv, Next
    PROVE  /\ added \subseteq added' /\ deleted \subseteq deleted' /\ missed \subseteq missed'
           /\ session' \cap added \subseteq session
           /\ handles' \cap added \subseteq handles
           /\ handles' \ handles \subseteq added'
           /\ shutdown = "cancelled" => shutdown' = "cancelled"
<1>1. CASE \E c \in Calls : CallStep(c)
  BY <1>1, OneCall
<1>2. CASE LtStep
  BY <1>2, LtAlerts, OtherSteps
<1>3. CASE Pump
  <2>1. PICK e : Shown(e) /\ publish(e)
    BY <1>3, PumpStep
  <2>2. missed \subseteq missed' /\ handles' \subseteq handles
    BY <1>3, <2>1, PumpStep, PublishFacts DEF Shown
  <2> QED
    BY <1>3, <2>2, OtherSteps
<1>4. CASE ShutdownCancel
  BY <1>4 DEF ShutdownCancel, ltVars, callVars
<1> QED
  BY <1>1, <1>2, <1>3, <1>4, Steps

LEMMA CallInvStep ==
    ASSUME TypeOK, CallInv, SessionInv, GenuineInv, Next
    PROVE  CallInv'
<1> SUFFICES ASSUME NEW c \in Calls
             PROVE  /\ pc'[c] # "idle" => job'[c] \in Job
                    /\ pc'[c] \in {"locking", "locked", "draining"} => Serialized(job'[c].op)
                    /\ pc'[c] = "resolving" => job'[c].op = "scrape_tracker"
                    /\ pc'[c] \in Started => job'[c].t \in added'
                    /\ ~Receiving(c)' => rx'[c] = <<>>
                    /\ c \in lagged' => c \in missed'
                    /\ c \in missed' => pc'[c] # "idle"
                    /\ pc'[c] \notin {"ok", "err"} => got'[c] = NoCall
  BY DEF CallInv, Receiving
<1>1. added \subseteq added' /\ missed \subseteq missed' /\ handles \subseteq added
  BY WorldStep DEF SessionInv
<1>2. CASE CallStep(c)
  <2>1. c \in lagged' => c \in missed'
    BY <1>2, OneCall DEF CallInv
  <2>2. ~Receiving(c)' => rx'[c] = <<>>
    <3>1. CASE Receiving(c)
      BY <1>2, <3>1, WayOfCall DEF Receiving, Waiting
    <3>2. CASE ~Receiving(c)
      BY <3>2, RxStep
    <3> QED
      BY <3>1, <3>2
  <2>3. pc'[c] \notin {"ok", "err"} => got'[c] = NoCall
    <3>1. got' = got \/ (RecvAnswer(c) /\ pc'[c] \in {"ok", "err"})
      BY <1>2 DEF CallStep, CallRequest, CallSerialized, CallScrape, CallDelete, AcquireLock,
         PostLocked, RecvLagged, RecvOther, RecvTrackers, RecvAnswer, WaitCancelled, Drain,
         WaitTimeout, CallDrop, Return, TypeOK
    <3>2. pc[c] \in {"ok", "err"} => pc'[c] \in {"ok", "err"}
      BY <1>2 DEF CallStep, CallRequest, CallSerialized, CallScrape, CallDelete, AcquireLock,
         PostLocked, RecvLagged, RecvOther, RecvTrackers, RecvAnswer, WaitCancelled, Drain,
         WaitTimeout, CallDrop, Waiting
    <3> QED
      BY <3>1, <3>2 DEF CallInv
  <2> QED
    BY <1>1, <1>2, <2>1, <2>2, <2>3, WayOfCall, OneCall DEF CallInv, Started
<1>3. CASE ~CallStep(c)
  <2>1. pc'[c] = pc[c] /\ job'[c] = job[c] /\ got'[c] = got[c]
    BY <1>3, JobStep
  <2>2. Receiving(c)' <=> Receiving(c)
    BY <2>1 DEF Receiving
  <2>3. ~Receiving(c)' => rx'[c] = <<>>
    BY <2>2, RxStep
  <2>4. (c \in lagged' => c \in missed') /\ (c \in missed' => pc[c] # "idle")
    <3>1. CASE Pump
      <4>1. PICK e : Shown(e) /\ publish(e)
        BY <3>1, PumpStep
      <4> QED
        BY <4>1, PublishFacts DEF Shown, CallInv, Receiving, Waiting
    <3>2. CASE \E d \in Calls : CallStep(d)
      BY <3>2, OneCall DEF CallInv
    <3>3. CASE LtStep \/ ShutdownCancel
      BY <3>3, OtherSteps DEF CallInv, callVars
    <3> QED
      BY <3>1, <3>2, <3>3, Steps
  <2> QED
    BY <1>1, <2>1, <2>3, <2>4 DEF CallInv
<1> QED
  BY <1>2, <1>3

(***************************************************************************)
(* What is posted, answered and shown.                                     *)
(***************************************************************************)
\* What a step of c posts: its operation, or the question for the trackers.
Posted(c, p) ==
    /\ p[1] = c /\ p[2].t = job'[c].t /\ p[2].key = job'[c].key
    /\ job'[c].t \in handles /\ shutdown = "no" /\ pc'[c] # "idle"
    /\ \/ /\ p[2] = job'[c] /\ p[2].op # "delete_files"
          /\ pc[c] \in {"idle", "locked"} /\ pc'[c] = "waiting"
       \/ /\ p[2].op = "trackers" /\ job'[c].op = "scrape_tracker"
          /\ pc[c] = "idle"

LEMMA PostStep ==
    ASSUME TypeOK, CallInv, NEW c \in Calls, CallStep(c)
    PROVE  /\ pending \subseteq pending'
           /\ \A p \in pending' \ pending : Posted(c, p)
           /\ pc'[c] = "waiting" /\ pc[c] # "waiting" /\ job'[c].op # "delete_files" =>
                <<c, job'[c]>> \in pending'
<1> USE DEF TypeOK, Posted
<1>1. CASE \E j \in Jobs : CallRequest(c, j) \/ CallDelete(c, j) \/ CallSerialized(c, j)
  BY <1>1 DEF CallRequest, CallDelete, CallSerialized, Enqueue, Subscribed, Post, ltVars
<1>2. CASE \E j \in Jobs : CallScrape(c, j)
  <2>1. PICK j \in Jobs : CallScrape(c, j)
    BY <1>2
  <2> DEFINE x == [j EXCEPT !.op = "trackers"]
  <2>2. j \in Job /\ x \in Job
    BY NewEvents
  <2>3. x.t = j.t /\ x.key = j.key /\ x.op = "trackers" /\ j.op = "scrape_tracker"
    BY <2>1, <2>2, OpFacts DEF Job, CallScrape
  <2>4. /\ pending' = pending \cup {<<c, x>>} /\ job' = [job EXCEPT ![c] = j]
        /\ pc[c] = "idle" /\ pc' = [pc EXCEPT ![c] = "resolving"]
        /\ j.t \in handles /\ shutdown = "no"
    BY <2>1 DEF CallScrape, Post
  <2> HIDE DEF x
  <2> QED
    BY <2>3, <2>4
<1>3. CASE AcquireLock(c) \/ PostLocked(c) \/ RecvLagged(c) \/ RecvOther(c)
  <2>1. PostLocked(c) => Serialized(job[c].op) /\ job[c] \in Job
    BY DEF PostLocked, CallInv
  <2>2. job[c] \in Job /\ Serialized(job[c].op) => job[c].op # "delete_files"
    BY OpFacts DEF Job
  <2> QED
    BY <1>3, <2>1, <2>2 DEF AcquireLock, PostLocked, RecvLagged, RecvOther, Subscribed,
       Post, ltVars
<1>4. CASE RecvTrackers(c) \/ RecvAnswer(c) \/ WaitCancelled(c) \/ Drain(c)
             \/ WaitTimeout(c) \/ CallDrop(c)
  BY <1>4, WayOfCall DEF RecvTrackers, RecvAnswer, WaitCancelled, Drain, WaitTimeout,
     CallDrop, ltVars, Waiting
<1> QED
  BY <1>1, <1>2, <1>3, <1>4 DEF CallStep

LEMMA PendingStep ==
    ASSUME TypeOK, CallInv, GenuineInv, Next
    PROVE  \A p \in pending' : p \in pending \/ \E c \in Calls : CallStep(c) /\ Posted(c, p)
<1>1. CASE \E c \in Calls : CallStep(c)
  <2>1. PICK c \in Calls : CallStep(c)
    BY <1>1
  <2>2. \A p \in pending' \ pending : Posted(c, p)
    BY <2>1, PostStep
  <2> QED
    BY <2>1, <2>2
<1>2. CASE LtStep
  BY <1>2, LtAlerts
<1>3. CASE Pump \/ ShutdownCancel
  BY <1>3, OtherSteps DEF ltVars
<1> QED
  BY <1>1, <1>2, <1>3, Steps

LEMMA AlertStep ==
    ASSUME TypeOK, CallInv, GenuineInv, Next
    PROVE  \A e \in Elems(alerts') : e \in Elems(alerts) \/
             (LtStep /\ New(e) /\ e.t \in Torrents)
<1>1. CASE \E c \in Calls : CallStep(c)
  BY <1>1, OneCall
<1>2. CASE LtStep
  <2>0. alerts \in Seq(Event)
    BY DEF TypeOK
  <2>1. CASE alerts' = alerts
    BY <2>1
  <2>2. CASE \E e \in Event : New(e) /\ e.t \in Torrents /\ alerts' = Append(alerts, e)
    <3>1. PICK e \in Event : New(e) /\ e.t \in Torrents /\ alerts' = Append(alerts, e)
      BY <2>2
    <3>2. Elems(alerts') = Elems(alerts) \cup {e}
      BY <2>0, <3>1, ElemsFacts
    <3> QED
      BY <1>2, <3>1, <3>2
  <2> QED
    BY <1>2, <2>1, <2>2, LtAlerts
<1>3. CASE Pump
  <2>0. alerts \in Seq(Event)
    BY DEF TypeOK
  <2>1. alerts # <<>> /\ alerts' = Tail(alerts)
    BY <1>3, PumpStep
  <2> QED
    BY <2>0, <2>1, ElemsFacts
<1>4. CASE ShutdownCancel
  BY <1>4 DEF ShutdownCancel, ltVars
<1> QED
  BY <1>1, <1>2, <1>3, <1>4, Steps

LEMMA SessionInvStep ==
    ASSUME TypeOK, CallInv, SessionInv, GenuineInv, Next
    PROVE  SessionInv'
<1>1. session' \subseteq alive' /\ session' \subseteq handles'
  <2>1. CASE (\E c \in Calls : CallStep(c)) \/ ShutdownCancel
    BY <2>1, OneCall DEF SessionInv, ShutdownCancel, ltVars
  <2>2. CASE LtStep
    BY <2>2, LtAlerts DEF SessionInv
  <2>3. CASE Pump
    BY <2>3, OtherSteps, PumpStep DEF SessionInv
  <2> QED
    BY <2>1, <2>2, <2>3, Steps
<1>2. handles' \subseteq added'
  BY WorldStep DEF SessionInv
<1>3. ASSUME NEW e \in Elems(alerts'), e.op = "removed"
      PROVE  e.t \in added' \ session'
  <2>1. CASE e \in Elems(alerts)
    BY <1>3, <2>1, WorldStep DEF SessionInv
  <2>2. CASE LtStep /\ New(e) /\ e.t \in Torrents
    <3>1. CASE \E p \in pending : e.op = p[2].op
      <4>1. PICK p \in pending : e.op = p[2].op
        BY <3>1
      <4>2. p[2] \in Job
        BY <4>1 DEF TypeOK
      <4> QED
        BY <1>3, <4>1, <4>2, OpFacts DEF Job
    <3>2. CASE ~\E p \in pending : e.op = p[2].op
      <4>1. e.t \in session \ session'
        BY <1>3, <2>2, <3>2 DEF New
      <4> QED
        BY <4>1, WorldStep DEF SessionInv
    <3> QED
      BY <3>1, <3>2
  <2> QED
    BY <1>3, <2>1, <2>2, AlertStep
<1>4. ASSUME NEW c \in Calls, NEW e \in Elems(rx'[c]), e.op = "removed"
      PROVE  e.t \in added' \ handles'
  <2>1. CASE e \in Elems(rx[c])
    BY <1>4, <2>1, WorldStep DEF SessionInv
  <2>2. CASE Pump /\ Shown(e)
    <3>1. Head(alerts).op = "removed" /\ e.t = Head(alerts).t
      BY <1>4, <2>2 DEF Shown
    <3> QED
      BY <2>2, <3>1, PumpStep, WorldStep DEF SessionInv
  <2> QED
    BY <1>4, <2>1, <2>2, RxStep
<1> QED
  BY <1>1, <1>2, <1>3, <1>4 DEF SessionInv

\* What is true of a posted operation, or of its answer, stays true.
LEMMA GenuineKept ==
    ASSUME TypeOK, CallInv, GenuineInv, Next
    PROVE  /\ \A p \in pending : Sent(p) => Sent(p)'
           /\ \A e \in Event : Genuine(e) => Genuine(e)'
<1>1. \A c \in Calls : pc[c] # "idle" => pc'[c] # "idle" /\ job'[c] = job[c]
  BY JobStep
<1>2. added \subseteq added'
  BY WorldStep
<1>3. ASSUME NEW p \in pending, Sent(p) PROVE Sent(p)'
  <2>1. p[1] \in Calls
    BY DEF TypeOK
  <2> QED
    BY <1>1, <1>2, <1>3, <2>1 DEF Sent
<1>4. ASSUME NEW e \in Event, Genuine(e) PROVE Genuine(e)'
  <2>1. e.of \in Calls \cup {NoCall}
    BY DEF Event
  <2> QED
    BY <1>1, <1>2, <1>4, <2>1 DEF Genuine
<1> QED
  BY <1>3, <1>4

LEMMA GenuineInvStep ==
    ASSUME TypeOK, CallInv, SessionInv, GenuineInv, Next
    PROVE  GenuineInv'
<1>0. alerts \in Seq(Event) /\ \A c \in Calls : rx[c] \in Seq(Event)
  BY DEF TypeOK
<1>1. ASSUME NEW p \in pending' PROVE Sent(p)'
  <2>1. CASE p \in pending
    BY <2>1, GenuineKept DEF GenuineInv
  <2>2. CASE p \notin pending
    <3>1. PICK c \in Calls : CallStep(c) /\ Posted(c, p)
      BY <2>2, PendingStep
    <3>2. handles \subseteq added'
      BY WorldStep DEF SessionInv
    <3> QED
      BY <3>1, <3>2 DEF Posted, Sent
  <2> QED
    BY <2>1, <2>2
<1>2. ASSUME NEW e \in Elems(alerts') PROVE Genuine(e)' /\ e.t \in Torrents
  <2>1. CASE e \in Elems(alerts)
    BY <1>0, <2>1, GenuineKept, ElemsFacts DEF GenuineInv
  <2>2. CASE LtStep /\ New(e) /\ e.t \in Torrents
    <3>1. CASE \E p \in pending : /\ e.t = p[2].t /\ e.op = p[2].op /\ e.key = p[2].key
                                  /\ e.of = p[1]
      <4>1. PICK p \in pending : /\ e.t = p[2].t /\ e.op = p[2].op /\ e.key = p[2].key
                                 /\ e.of = p[1]
        BY <3>1
      <4>2. Sent(p)' /\ p[1] \in Calls /\ p[2] \in Job
        BY <4>1, GenuineKept DEF GenuineInv, TypeOK
      <4>3. p[1] # NoCall
        BY <4>2, NamesAssumption
      <4>4. p[2].op # "removed"
        BY <4>2, OpFacts DEF Job
      <4> QED
        BY <2>2, <4>1, <4>2, <4>3, <4>4 DEF Sent, Genuine
    <3>2. CASE e.of = NoCall /\ e.op \in {"removed", "other", "delete_files", "scrape_tracker"}
      BY <2>2, <3>2 DEF Genuine
    <3> QED
      BY <2>2, <3>1, <3>2 DEF New
  <2> QED
    BY <2>1, <2>2, AlertStep
<1>3. ASSUME NEW c \in Calls, NEW e \in Elems(rx'[c]) PROVE Genuine(e)'
  <2>1. CASE e \in Elems(rx[c])
    <3>1. Genuine(e) /\ e \in Event
      BY <1>0, <2>1, ElemsFacts DEF GenuineInv
    <3> QED
      BY <3>1, GenuineKept
  <2>2. CASE Pump /\ Shown(e)
    <3>1. PICK a \in Elems(alerts) : a = Head(alerts)
      BY <2>2, PumpStep
    <3>2. a \in Event
      BY <1>0, ElemsFacts
    <3>3. Genuine(a)'
      BY <3>2, GenuineKept DEF GenuineInv
    <3>4. e.op = a.op /\ e.key = a.key /\ e.of = a.of
      BY <2>2, <3>1 DEF Shown
    <3>5. a.op \notin {"removed", "delete_files"} => e.t \in {a.t, NoTorrent}
      BY <2>2, <3>1 DEF Shown
    <3> QED
      BY <3>3, <3>4, <3>5 DEF Genuine
  <2> QED
    BY <2>1, <2>2, RxStep
<1> QED
  BY <1>1, <1>2, <1>3 DEF GenuineInv

(***************************************************************************)
(* What a call posted is answered once.                                    *)
(***************************************************************************)
LEMMA UnfinishedMeans ==
    \A c : Unfinished(c) <=> IsPosted(c, job[c].op, pending) \/ IsIn(c, job[c].op, alerts)
  BY DEF Unfinished, IsPosted, IsIn, Elems

LEMMA OnceInvStep ==
    ASSUME TypeOK, CallInv, SessionInv, GenuineInv, OnceInv, Next
    PROVE  OnceInv'
<1> SUFFICES ASSUME NEW c \in Calls, NEW o, o = job'[c].op
             PROVE  /\ Once(c, o, pending', alerts', rx')
                    /\ pc'[c] \in Before =>
                         /\ ~IsPosted(c, o, pending') /\ ~IsIn(c, o, alerts')
                         /\ ~IsShown(c, o, rx')
  BY DEF OnceInv
<1> DEFINE M(e) == e.of = c /\ e.op = o
<1>0. alerts \in Seq(Event) /\ (\A d \in Calls : rx[d] \in Seq(Event)) /\ c # NoCall
  BY NamesAssumption DEF TypeOK
\* The same holds of the operation the call now has.
<1>1. /\ Once(c, o, pending, alerts, rx)
      /\ pc[c] \in Before =>
           ~IsPosted(c, o, pending) /\ ~IsIn(c, o, alerts) /\ ~IsShown(c, o, rx)
  <2>1. CASE pc[c] # "idle"
    <3>1. o = job[c].op
      BY <2>1, JobStep
    <3> QED
      BY <3>1 DEF OnceInv
  <2>2. CASE pc[c] = "idle"
    <3>1. \A p \in pending : p[1] # c
      BY <2>2 DEF GenuineInv, Sent
    <3>2. \A e \in Elems(alerts) : e.of # c
      BY <1>0, <2>2 DEF GenuineInv, Genuine
    <3>3. \A d \in Calls : \A e \in Elems(rx[d]) : e.of # c
      BY <1>0, <2>2 DEF GenuineInv, Genuine
    <3>4. \A i \in 1 .. Len(alerts) : alerts[i].of # c
      BY <3>2 DEF Elems
    <3>5. ~IsPosted(c, o, pending) /\ ~IsIn(c, o, alerts) /\ ~IsShown(c, o, rx)
      BY <3>1, <3>2, <3>3 DEF IsPosted, IsIn, IsShown
    <3> QED
      BY <3>1, <3>4, <3>5 DEF Once
  <2> QED
    BY <2>1, <2>2
<1>2. CASE \E d \in Calls : CallStep(d)
  <2>1. PICK d \in Calls : CallStep(d)
    BY <1>2
  <2>2. alerts' = alerts /\ pending \subseteq pending'
    BY <2>1, OneCall, PostStep
  <2>3. IsShown(c, o, rx') => IsShown(c, o, rx)
    <3>1. \A x \in Calls : Elems(rx'[x]) \subseteq Elems(rx[x])
      <4> SUFFICES ASSUME NEW x \in Calls PROVE Elems(rx'[x]) \subseteq Elems(rx[x])
        OBVIOUS
      <4>1. \/ rx'[x] = rx[x] \/ rx'[x] = <<>>
            \/ rx[x] # <<>> /\ rx'[x] = Tail(rx[x])
        BY <2>1, OneCall
      <4> QED
        BY <1>0, <4>1, ElemsFacts, ElemsEmpty
    <3> QED
      BY <3>1 DEF IsShown, IsIn
  <2>4. CASE \A p \in pending' \ pending : p[1] # c \/ p[2].op # o
    <3>1. IsPosted(c, o, pending') <=> IsPosted(c, o, pending)
      BY <2>2, <2>4 DEF IsPosted
    <3>2. Once(c, o, pending', alerts', rx')
      <4>1. \A p, q \in pending' :
              p[1] = c /\ q[1] = c /\ p[2].op = o /\ q[2].op = o => p = q
        BY <1>1, <2>4 DEF Once
      <4> QED
        BY <1>1, <2>2, <2>3, <3>1, <4>1 DEF Once
    <3>3. pc'[c] \in Before => pc[c] \in Before
      BY JobStep, WayOfCall DEF Before
    <3> QED
      BY <1>1, <2>2, <2>3, <3>1, <3>2, <3>3
  <2>5. CASE \E p \in pending' \ pending : p[1] = c /\ p[2].op = o
    <3>1. PICK p \in pending' \ pending : p[1] = c /\ p[2].op = o
      BY <2>5
    <3>2. Posted(d, p)
      BY <2>1, <3>1, PostStep
    <3>3. d = c
      BY <3>1, <3>2 DEF Posted
    <3>4. pc[c] \in Before /\ pc'[c] = "waiting" /\ p[2] = job'[c]
      <4>1. p[2].op # "trackers" \/ o # "scrape_tracker"
        BY <3>1
      <4> QED
        BY <3>1, <3>2, <3>3, <4>1 DEF Posted, Before
    <3>5. ~IsPosted(c, o, pending) /\ ~IsIn(c, o, alerts') /\ ~IsShown(c, o, rx')
      BY <1>1, <2>2, <2>3, <3>4
    <3>6. \A q \in pending' : q[1] = c /\ q[2].op = o => q[2] = job'[c] /\ q \notin pending
      <4> SUFFICES ASSUME NEW q \in pending', q[1] = c, q[2].op = o
                   PROVE  q[2] = job'[c] /\ q \notin pending
        OBVIOUS
      <4>1. q \notin pending
        BY <3>5 DEF IsPosted
      <4>2. Posted(c, q)
        BY <2>1, <3>3, <4>1, PostStep
      <4>3. q[2].op # "trackers" \/ o # "scrape_tracker"
        OBVIOUS
      <4> QED
        BY <4>1, <4>2, <4>3 DEF Posted
    <3>7. pending' \subseteq (Calls \X Job)
      BY <2>1, CallTypes
    <3>8. \A p1, q \in pending' :
            p1[1] = c /\ q[1] = c /\ p1[2].op = o /\ q[2].op = o => p1 = q
      BY <3>6, <3>7
    <3>9. \A i, j \in 1 .. Len(alerts') :
            /\ alerts'[i].of = c /\ alerts'[i].op = o
            /\ alerts'[j].of = c /\ alerts'[j].op = o
            => i = j
      BY <3>5 DEF IsIn, Elems
    <3> QED
      BY <3>4, <3>5, <3>8, <3>9 DEF Once, Before
  <2> QED
    BY <2>4, <2>5
<1>3. CASE LtStep
  <2>1. UNCHANGED <<rx, pc>>
    BY <1>3, OtherSteps
  <2>2. IsPosted(c, o, pending') => IsPosted(c, o, pending)
    BY <1>3, LtAlerts DEF IsPosted
  <2>3. \A p, q \in pending' :
          p[1] = c /\ q[1] = c /\ p[2].op = o /\ q[2].op = o => p = q
    BY <1>1, <1>3, LtAlerts DEF Once
  <2>4. CASE alerts' = alerts
    BY <1>1, <2>1, <2>2, <2>3, <2>4 DEF Once
  <2>5. CASE \E e \in Event : New(e) /\ alerts' = Append(alerts, e)
    <3>1. PICK e \in Event : New(e) /\ alerts' = Append(alerts, e)
      BY <2>5
    <3>2. Elems(alerts') = Elems(alerts) \cup {e}
      BY <1>0, <3>1, ElemsFacts
    <3>3. /\ Len(alerts) \in Nat /\ Len(alerts') = Len(alerts) + 1
          /\ alerts'[Len(alerts) + 1] = e
          /\ \A i \in 1 .. Len(alerts) : alerts'[i] = alerts[i]
      BY <1>0, <3>1, SeqFacts
    <3>4. \A i \in 1 .. Len(alerts') : i \in 1 .. Len(alerts) \/ i = Len(alerts) + 1
      BY <3>3
    <3>5. CASE ~M(e)
      <4>1. IsIn(c, o, alerts') <=> IsIn(c, o, alerts)
        BY <3>2, <3>5 DEF IsIn
      <4>2. \A i, j \in 1 .. Len(alerts') :
              /\ alerts'[i].of = c /\ alerts'[i].op = o
              /\ alerts'[j].of = c /\ alerts'[j].op = o
              => i = j
        BY <1>1, <3>3, <3>4, <3>5 DEF Once
      <4> QED
        BY <1>1, <2>1, <2>2, <2>3, <4>1, <4>2 DEF Once
    <3>6. CASE M(e)
      <4>1. PICK p \in pending : p[2].op = o /\ p[1] = c /\ pending' = pending \ {p}
        BY <1>0, <3>1, <3>6 DEF New
      <4>2. IsPosted(c, o, pending)
        BY <4>1 DEF IsPosted
      <4>3. ~IsPosted(c, o, pending')
        BY <1>1, <4>1 DEF IsPosted, Once
      <4>4. ~IsIn(c, o, alerts) /\ ~IsShown(c, o, rx') /\ pc'[c] \notin Before
        BY <1>1, <2>1, <4>2 DEF Once
      <4>5. \A i \in 1 .. Len(alerts) : ~(alerts[i].of = c /\ alerts[i].op = o)
        BY <4>4 DEF IsIn, Elems
      <4>6. \A i, j \in 1 .. Len(alerts') :
              /\ alerts'[i].of = c /\ alerts'[i].op = o
              /\ alerts'[j].of = c /\ alerts'[j].op = o
              => i = j
        BY <3>3, <3>4, <4>5
      <4> QED
        BY <2>3, <4>3, <4>4, <4>6 DEF Once
    <3> QED
      BY <3>5, <3>6
  <2> QED
    BY <1>3, <2>4, <2>5, LtAlerts
<1>4. CASE Pump
  <2>1. UNCHANGED <<pending, pc>>
    BY <1>4, OtherSteps
  <2>2. alerts # <<>> /\ alerts' = Tail(alerts)
    BY <1>4, PumpStep
  <2>3. /\ Len(alerts) \in Nat /\ Len(alerts) >= 1 /\ Len(alerts') = Len(alerts) - 1
        /\ Head(alerts) = alerts[1]
        /\ \A i \in 1 .. Len(alerts') : alerts'[i] = alerts[i + 1]
    BY <1>0, <2>2, SeqFacts
  <2>4. /\ 1 \in 1 .. Len(alerts)
        /\ \A i \in 1 .. Len(alerts') : i + 1 \in 1 .. Len(alerts) /\ i + 1 # 1
        /\ \A i, j \in 1 .. Len(alerts') : i + 1 = j + 1 => i = j
    BY <2>3
  <2>5. \A i, j \in 1 .. Len(alerts') :
          /\ alerts'[i].of = c /\ alerts'[i].op = o
          /\ alerts'[j].of = c /\ alerts'[j].op = o
          => i = j
    BY <1>1, <2>3, <2>4 DEF Once
  <2>6. IsIn(c, o, alerts') => IsIn(c, o, alerts)
    BY <1>0, <2>2, ElemsFacts DEF IsIn
  <2>7. M(Head(alerts)) => IsIn(c, o, alerts) /\ ~IsIn(c, o, alerts')
    <3> SUFFICES ASSUME M(Head(alerts))
                 PROVE  IsIn(c, o, alerts) /\ ~IsIn(c, o, alerts')
      OBVIOUS
    <3>1. IsIn(c, o, alerts)
      BY <1>0, <2>2, ElemsFacts DEF IsIn
    <3>2. \A i \in 1 .. Len(alerts') : ~(alerts'[i].of = c /\ alerts'[i].op = o)
      BY <1>1, <2>3, <2>4 DEF Once
    <3> QED
      BY <3>1, <3>2 DEF IsIn, Elems
  <2>8. IsShown(c, o, rx') => IsShown(c, o, rx) \/ M(Head(alerts))
    <3>1. \A d \in Calls : \A e \in Elems(rx'[d]) :
            e \in Elems(rx[d]) \/ (e.of = Head(alerts).of /\ e.op = Head(alerts).op)
      BY RxStep DEF Shown
    <3> QED
      BY <3>1 DEF IsShown, IsIn
  <2>9. IsShown(c, o, rx') => ~IsPosted(c, o, pending') /\ ~IsIn(c, o, alerts')
    BY <1>1, <2>1, <2>6, <2>7, <2>8 DEF Once
  <2> QED
    BY <1>1, <2>1, <2>3, <2>5, <2>6, <2>7, <2>8, <2>9 DEF Once
<1>5. CASE ShutdownCancel
  <2>1. UNCHANGED <<pending, alerts, rx, pc>>
    BY <1>5 DEF ShutdownCancel, ltVars, callVars
  <2> QED
    BY <1>1, <2>1
<1> QED
  BY <1>2, <1>3, <1>4, <1>5, Steps

(***************************************************************************)
(* Locks.                                                                  *)
(***************************************************************************)
LEMMA LockInvStep ==
    ASSUME TypeOK, CallInv, LockInv, Next
    PROVE  LockInv'
<1> USE DEF TypeOK
<1>1. CASE \A c \in Calls : ~CallStep(c)
  <2>1. /\ UNCHANGED op_locks
        /\ \A c \in Calls : pc'[c] = pc[c] /\ job'[c] = job[c] /\ lock'[c] = lock[c]
    BY <1>1, Steps, OtherSteps, JobStep
  <2>2. \A c \in Calls : /\ Active(c)' <=> Active(c)
                         /\ Inside(c)' <=> Inside(c)
                         /\ LockKey(c)' = LockKey(c)
    BY <2>1 DEF Active, Inside, Holds, LockKey
  <2> QED
    BY <2>1, <2>2 DEF LockInv
<1>2. ASSUME NEW c \in Calls, CallStep(c) PROVE LockInv'
  <2>1. \A d \in Calls : d # c =>
          /\ pc'[d] = pc[d] /\ job'[d] = job[d] /\ lock'[d] = lock[d]
    BY <1>2, OneCall
  \* The table changes only when no call refers to its entry.
  <2>2. \/ op_locks' = op_locks /\ lock' = lock /\ pc'[c] # "locking"
        \/ op_locks' = op_locks /\ lock' = lock /\ pc' = pc
        \/ /\ pc'[c] = "locking" /\ lock'[c] \in Calls /\ op_locks'[LockKey(c)'] = lock'[c]
           /\ LockKey(c)' \in Torrents \X Classes
           /\ \A k \in Torrents \X Classes : op_locks'[k] = op_locks[k]
                \/ (k = LockKey(c)' /\ ~(op_locks[k] # NoCall /\ Referenced(op_locks[k])))
    <3>1. ASSUME NEW j \in Jobs, CallSerialized(c, j) PROVE <2>2!3
      <4>1. j \in Job /\ Serialized(j.op) /\ Enqueue(c, j) /\ job'[c] = j
        BY <3>1, NewEvents DEF CallSerialized, Serialized
      <4>2. <<j.t, Class(j.op)>> \in Torrents \X Classes
        BY <4>1, OpFacts DEF Job
      <4>3. LockKey(c)' = <<j.t, Class(j.op)>>
        BY <4>1 DEF LockKey
      <4> HIDE DEF TypeOK
      <4>4. /\ pc'[c] = "locking" /\ lock'[c] \in Calls
            /\ op_locks'[<<j.t, Class(j.op)>>] = lock'[c]
            /\ \A k \in Torrents \X Classes : op_locks'[k] = op_locks[k]
                 \/ (k = <<j.t, Class(j.op)>>
                       /\ ~(op_locks[k] # NoCall /\ Referenced(op_locks[k])))
        <5>1. pc' = [pc EXCEPT ![c] = "locking"] /\ pc \in [Calls -> PcValues]
          BY <4>1 DEF Enqueue, TypeOK
        <5>2. pc'[c] = "locking"
          BY <5>1
        <5> QED
          BY <4>1, <5>2, EnqueueFacts
      <4> QED
        BY <4>2, <4>3, <4>4
    <3>2. ASSUME RecvTrackers(c), pc'[c] = "locking" PROVE <2>2!3
      <4>1. job[c] \in Job /\ Serialized(job[c].op) /\ job' = job /\ Resolve(c)
        BY <3>2, OpFacts DEF RecvTrackers, CallInv
      <4>2. Enqueue(c, job[c])
        BY <3>2, <4>1 DEF Resolve
      <4>3. <<job[c].t, Class(job[c].op)>> \in Torrents \X Classes
        BY <4>1, OpFacts DEF Job
      <4>4. LockKey(c)' = <<job[c].t, Class(job[c].op)>>
        BY <4>1 DEF LockKey
      <4> HIDE DEF TypeOK
      <4>5. /\ lock'[c] \in Calls
            /\ op_locks'[<<job[c].t, Class(job[c].op)>>] = lock'[c]
            /\ \A k \in Torrents \X Classes : op_locks'[k] = op_locks[k]
                 \/ (k = <<job[c].t, Class(job[c].op)>>
                       /\ ~(op_locks[k] # NoCall /\ Referenced(op_locks[k])))
        BY <4>1, <4>2, EnqueueFacts
      <4> QED
        BY <3>2, <4>3, <4>4, <4>5
    <3>3. RecvTrackers(c) /\ pc'[c] # "locking" => op_locks' = op_locks /\ lock' = lock
      BY DEF RecvTrackers, Resolve, Enqueue
    <3>4. CASE \E j \in Jobs : CallRequest(c, j) \/ CallScrape(c, j) \/ CallDelete(c, j)
      BY <3>4 DEF CallRequest, CallScrape, CallDelete, engineVars, Subscribed
    <3>5. CASE AcquireLock(c) \/ PostLocked(c) \/ RecvLagged(c) \/ RecvOther(c)
                 \/ RecvAnswer(c) \/ WaitCancelled(c)
      BY <3>5 DEF AcquireLock, PostLocked, RecvLagged, RecvOther, RecvAnswer, Return,
         WaitCancelled, engineVars, Subscribed
    <3>6. CASE Drain(c) \/ WaitTimeout(c) \/ CallDrop(c)
      BY <3>6 DEF Drain, WaitTimeout, CallDrop, AfterTimeout, engineVars
    <3> QED
      BY <1>2, <3>1, <3>2, <3>3, <3>4, <3>5, <3>6 DEF CallStep
  <2>3. ASSUME pc'[c] # "locking" \/ pc' = pc, NEW d \in Calls, Active(d)'
        PROVE  Active(d) /\ LockKey(d)' = LockKey(d)
    <3>1. CASE d # c
      BY <2>1, <2>3, <3>1 DEF Active, LockKey
    <3>2. CASE d = c
      <4>1. pc[c] \in {"locking", "locked", "waiting", "draining"} /\ job'[c] = job[c]
        BY <1>2, <2>3, <3>2, WayOfCall DEF Active
      <4> QED
        BY <2>3, <3>2, <4>1 DEF Active, LockKey
    <3> QED
      BY <3>1, <3>2
  \* Only a call that gets the lock comes inside.
  <2>4. pc[c] = "locking" /\ Holds(c)' => \A d \in Calls : lock[d] = lock[c] => ~Holds(d)
    BY <1>2 DEF CallStep, CallRequest, CallSerialized, CallScrape, CallDelete, AcquireLock,
       PostLocked, RecvLagged, RecvOther, RecvTrackers, RecvAnswer, WaitCancelled, Drain,
       WaitTimeout, CallDrop, Holds, Waiting
  <2>5. CASE op_locks' = op_locks /\ lock' = lock /\ (pc'[c] # "locking" \/ pc' = pc)
    <3>1. \A d \in Calls : Active(d)' => lock'[d] \in Calls /\ op_locks'[LockKey(d)'] = lock'[d]
      BY <2>3, <2>5 DEF LockInv
    <3>2. ASSUME NEW a \in Calls, NEW b \in Calls, Inside(a)', Inside(b)', lock'[a] = lock'[b]
          PROVE  a = b
      <4>1. Active(a) /\ Active(b)
        BY <2>3, <2>5, <3>2 DEF Inside
      <4>2. \A d \in {a, b} : Inside(d) \/ (d = c /\ pc[c] = "locking" /\ Holds(c)')
        BY <2>1, <3>2, <4>1 DEF Inside, Active, Holds
      <4>3. CASE Inside(a) /\ Inside(b)
        BY <2>5, <3>2, <4>3 DEF LockInv
      <4>4. CASE a = c /\ pc[c] = "locking" /\ Holds(c)'
        BY <2>4, <2>5, <3>2, <4>2, <4>4 DEF Inside
      <4>5. CASE b = c /\ pc[c] = "locking" /\ Holds(c)'
        BY <2>4, <2>5, <3>2, <4>2, <4>5 DEF Inside
      <4> QED
        BY <4>2, <4>3, <4>4, <4>5
    <3> QED
      BY <3>1, <3>2 DEF LockInv
  <2>6. CASE /\ pc'[c] = "locking" /\ lock'[c] \in Calls /\ op_locks'[LockKey(c)'] = lock'[c]
             /\ LockKey(c)' \in Torrents \X Classes
             /\ \A k \in Torrents \X Classes : op_locks'[k] = op_locks[k]
                  \/ (k = LockKey(c)' /\ ~(op_locks[k] # NoCall /\ Referenced(op_locks[k])))
    <3>1. \A d \in Calls : d # c =>
            /\ Active(d)' <=> Active(d)
            /\ Inside(d)' <=> Inside(d)
            /\ LockKey(d)' = LockKey(d)
      BY <2>1 DEF Active, Inside, Holds, LockKey
    <3>2. ~Inside(c)'
      BY <2>6 DEF Inside, Holds
    <3>3. ASSUME NEW d \in Calls, d # c, Active(d)
          PROVE  lock[d] \in Calls /\ op_locks'[LockKey(d)] = lock[d]
      <4>1. lock[d] \in Calls /\ op_locks[LockKey(d)] = lock[d] /\ lock[d] # NoCall
        BY <3>3, NamesAssumption DEF LockInv
      <4>2. Referenced(lock[d])
        BY <3>3 DEF Referenced, Active, Holds
      <4>3. job[d] \in Job /\ Class(job[d].op) \in Classes
        BY <3>3, OpFacts DEF Active, CallInv, Job
      <4>4. LockKey(d) \in Torrents \X Classes
        BY <4>3 DEF LockKey, Job
      <4>5. op_locks'[LockKey(d)] = op_locks[LockKey(d)]
        BY <2>6, <4>1, <4>2, <4>4
      <4> QED
        BY <4>1, <4>5
    <3>4. \A d \in Calls : Active(d)' => lock'[d] \in Calls /\ op_locks'[LockKey(d)'] = lock'[d]
      BY <2>1, <2>6, <3>1, <3>3
    <3>5. \A a, b \in Calls : Inside(a)' /\ Inside(b)' /\ lock'[a] = lock'[b] => a = b
      BY <2>1, <3>1, <3>2 DEF LockInv
    <3> QED
      BY <3>4, <3>5 DEF LockInv
  <2> QED
    BY <2>2, <2>5, <2>6
<1> QED
  BY <1>1, <1>2

(***************************************************************************)
(* Whose answer it is.                                                     *)
(***************************************************************************)
LEMMA DisturbedStays ==
    ASSUME TypeOK, CallInv, GenuineInv, Next, NEW k, Disturbed(k)
    PROVE  Disturbed(k)'
<1>1. PICK b \in Calls : (b \in missed \/ pc[b] = "dropped") /\ LockKey(b) = k
  BY DEF Disturbed
<1>2. pc[b] # "idle" /\ job'[b] = job[b]
  BY <1>1, JobStep DEF CallInv
<1>3. b \in missed' \/ pc'[b] = "dropped"
  BY <1>1, WorldStep, JobStep
<1>4. LockKey(b)' = k
  BY <1>1, <1>2 DEF LockKey
<1> QED
  BY <1>3, <1>4 DEF Disturbed

\* What a move or a rename can take for its answer is its answer.
LEMMA TakenAnswer ==
    ASSUME TypeOK, CallInv, GenuineInv, OnceInv, StaleInv,
           NEW c \in Calls, pc[c] \in Started, job[c].op \in Plain,
           NEW e \in Elems(rx[c]), Answers(c, e)
    PROVE  \/ e.of = c /\ ~Unfinished(c)
           \/ Disturbed(LockKey(c))
<1>1. e.t = job[c].t /\ e.op = job[c].op /\ job[c] \in Job
  BY DEF Answers, Matcher, Started, CallInv
<1>2. e \in Event /\ Genuine(e) /\ e.of # NoCall
  BY <1>1, ElemsFacts DEF TypeOK, GenuineInv, Genuine, Plain
<1>3. e.of \in Calls
  BY <1>2 DEF Event
<1>4. CASE e.of = c
  <2>1. IsShown(c, job[c].op, rx)
    BY <1>1, <1>4 DEF IsShown, IsIn
  <2> QED
    BY <1>4, <2>1, UnfinishedMeans DEF OnceInv, Once
<1>5. CASE e.of # c
  <2>1. job[e.of].op = job[c].op /\ e.t \in {job[e.of].t, NoTorrent}
    BY <1>1, <1>2 DEF Genuine, Plain
  <2>2. job[e.of].t = job[c].t
    BY <1>1, <2>1, NamesAssumption DEF Job
  <2>3. Mine(e.of, e)
    BY <1>1, <2>1 DEF Mine
  <2> QED
    BY <1>3, <1>5, <2>1, <2>2, <2>3 DEF StaleInv
<1> QED
  BY <1>4, <1>5

\* An operation becomes unfinished by being posted.
LEMMA UnfinishedStep ==
    ASSUME TypeOK, CallInv, GenuineInv, Next, NEW c \in Calls, Unfinished(c)'
    PROVE  \/ pc[c] # "idle" /\ Unfinished(c)
           \/ /\ CallStep(c) /\ pc[c] \in {"idle", "locked"} /\ pc'[c] = "waiting"
              /\ job'[c].t \in handles /\ shutdown = "no"
<1> DEFINE o == job'[c].op
<1>1. CASE \E p \in pending' : p[1] = c /\ p[2].op = job'[c].op
  <2>1. PICK p \in pending' : p[1] = c /\ p[2].op = job'[c].op
    BY <1>1
  <2>2. CASE p \in pending
    <3>1. pc[c] # "idle"
      BY <2>1, <2>2 DEF GenuineInv, Sent
    <3> QED
      BY <2>1, <2>2, <3>1, JobStep DEF Unfinished
  <2>3. CASE p \notin pending
    <3>1. PICK d \in Calls : CallStep(d) /\ Posted(d, p)
      BY <2>3, PendingStep
    <3> QED
      BY <2>1, <3>1 DEF Posted
  <2> QED
    BY <2>2, <2>3
<1>2. CASE \E e \in Elems(alerts') : e.of = c /\ e.op = job'[c].op
  <2>0. c # NoCall
    BY NamesAssumption
  <2>1. PICK e \in Elems(alerts') : e.of = c /\ e.op = job'[c].op
    BY <1>2
  <2>2. CASE e \in Elems(alerts)
    <3>1. pc[c] # "idle"
      BY <2>0, <2>1, <2>2 DEF GenuineInv, Genuine
    <3>2. Unfinished(c)
      BY <2>1, <2>2, <3>1, JobStep DEF Unfinished, Elems
    <3> QED
      BY <3>1, <3>2
  <2>3. CASE LtStep /\ New(e)
    <3>1. PICK p \in pending : p[1] = c /\ p[2].op = job'[c].op
      BY <2>0, <2>1, <2>3 DEF New
    <3>2. pc[c] # "idle"
      BY <3>1 DEF GenuineInv, Sent
    <3> QED
      BY <3>1, <3>2, JobStep DEF Unfinished
  <2> QED
    BY <2>1, <2>2, <2>3, AlertStep
<1> QED
  BY <1>1, <1>2 DEF Unfinished, Elems

\* The torrent of an operation that was posted has been added.
LEMMA UnfinishedAdded ==
    ASSUME TypeOK, GenuineInv, NEW c \in Calls, Unfinished(c)
    PROVE  job[c].t \in added
<1>1. c # NoCall
  BY NamesAssumption
<1>2. (\E p \in pending : p[1] = c) \/ (\E e \in Elems(alerts) : e.of = c)
  BY DEF Unfinished, Elems
<1> QED
  BY <1>1, <1>2 DEF GenuineInv, Sent, Genuine

\* How a wait for a move or a rename can end.
LEMMA WaitEnds ==
    ASSUME TypeOK, CallInv, SessionInv, GenuineInv, OnceInv, StaleInv,
           NEW c \in Calls, CallStep(c), Next,
           pc[c] \in Started, pc'[c] \notin Started, job[c].op \in Plain
    PROVE  \/ ~Unfinished(c) \/ Disturbed(LockKey(c))'
           \/ shutdown = "cancelled" \/ job[c].t \notin handles
<1>1. job[c] \in Job /\ Serialized(job[c].op) /\ rx[c] \in Seq(Event)
  BY OpFacts DEF CallInv, Started, Plain, TypeOK
<1>2. \A e \in Elems(rx[c]) : Answers(c, e) => ~Unfinished(c) \/ Disturbed(LockKey(c))'
  <2>1. LockKey(c)' = LockKey(c)
    BY JobStep DEF LockKey, Started
  <2>2. PICK k : k = LockKey(c)
    OBVIOUS
  <2>3. Disturbed(k) => Disturbed(LockKey(c))'
    BY <2>1, <2>2, DisturbedStays
  <2>4. \A e \in Elems(rx[c]) : Answers(c, e) => ~Unfinished(c) \/ Disturbed(k)
    BY <2>2, TakenAnswer
  <2> QED
    BY <2>3, <2>4
<1>3. rx[c] # <<>> => Head(rx[c]) \in Elems(rx[c])
  BY <1>1, ElemsFacts
<1>4. c \in missed \/ pc'[c] = "dropped" => Disturbed(LockKey(c))'
  <2>1. LockKey(c)' = LockKey(c) /\ missed \subseteq missed'
    BY JobStep, WorldStep DEF LockKey, Started
  <2> QED
    BY <2>1 DEF Disturbed
<1>5. \/ /\ rx[c] # <<>>
         /\ Answers(c, Head(rx[c]))
              \/ (Head(rx[c]).op = "removed" /\ Head(rx[c]).t = job[c].t)
      \/ shutdown = "cancelled" \/ c \in lagged \/ pc'[c] = "dropped"
  <2>1. pc[c] # "idle" /\ pc[c] # "locking" /\ pc[c] # "locked" /\ pc[c] # "resolving"
    BY DEF Started
  <2>2. CASE \/ \E j \in Jobs : CallRequest(c, j) \/ CallSerialized(c, j)
                                  \/ CallScrape(c, j) \/ CallDelete(c, j)
             \/ AcquireLock(c) \/ PostLocked(c) \/ RecvTrackers(c)
    BY <2>1, <2>2 DEF CallRequest, CallSerialized, CallScrape, CallDelete, AcquireLock,
       PostLocked, RecvTrackers
  <2>3. CASE RecvLagged(c) \/ RecvOther(c)
    BY <2>3 DEF RecvLagged, RecvOther
  <2>4. CASE RecvAnswer(c) \/ WaitCancelled(c)
    BY <2>4 DEF RecvAnswer, WaitCancelled
  <2>5. CASE Drain(c)
    BY <2>5 DEF Drain, DrainEnds
  <2>6. CASE WaitTimeout(c)
    <3>1. pc[c] = "waiting" /\ pc'[c] = AfterTimeout(c)
      BY <2>1, <2>6 DEF WaitTimeout, TypeOK, Waiting
    <3> QED
      BY <1>1, <3>1 DEF AfterTimeout, Started
  <2>7. CASE CallDrop(c)
    BY <2>7 DEF CallDrop, TypeOK
  <2> QED
    BY <2>2, <2>3, <2>4, <2>5, <2>6, <2>7 DEF CallStep
<1>6. c \in lagged => c \in missed
  BY DEF CallInv
<1>7. \A e \in Elems(rx[c]) : e.op = "removed" => e.t \notin handles
  BY DEF SessionInv
<1> QED
  BY <1>2, <1>3, <1>4, <1>5, <1>6, <1>7

LEMMA HeldInvStep ==
    ASSUME TypeOK, CallInv, SessionInv, GenuineInv, OnceInv, StaleInv, HeldInv, Next
    PROVE  HeldInv'
<1> SUFFICES ASSUME NEW c \in Calls, job'[c].op \in Plain, Unfinished(c)'
             PROVE  \/ pc'[c] \in Started \/ Disturbed(LockKey(c))'
                    \/ shutdown' = "cancelled" \/ job'[c].t \notin handles'
  BY DEF HeldInv
<1>1. CASE pc[c] # "idle" /\ Unfinished(c)
  <2>1. job'[c] = job[c] /\ LockKey(c)' = LockKey(c) /\ job[c].t \in added
    BY <1>1, JobStep, UnfinishedAdded DEF LockKey
  <2>2. shutdown = "cancelled" \/ job[c].t \notin handles
          => shutdown' = "cancelled" \/ job'[c].t \notin handles'
    BY <2>1, WorldStep
  <2>3. Disturbed(LockKey(c)) => Disturbed(LockKey(c))'
    BY <2>1, DisturbedStays
  <2>4. CASE pc[c] \in Started /\ pc'[c] \notin Started
    <3>1. CallStep(c)
      BY <2>4, JobStep
    <3> QED
      BY <1>1, <2>1, <2>2, <2>4, <3>1, WaitEnds
  <2> QED
    BY <1>1, <2>1, <2>2, <2>3, <2>4 DEF HeldInv
<1>2. CASE pc'[c] = "waiting"
  BY <1>2 DEF Started
<1> QED
  BY <1>1, <1>2, UnfinishedStep

LEMMA StaleInvStep ==
    ASSUME TypeOK, CallInv, SessionInv, GenuineInv, OnceInv, LockInv, HeldInv, StaleInv,
           Next
    PROVE  StaleInv'
<1> SUFFICES ASSUME NEW c \in Calls, NEW d \in Calls, c # d, pc'[c] \in Started,
                    job'[c].op \in Plain, job'[d].op = job'[c].op, job'[d].t = job'[c].t,
                    Unfinished(d)' \/ \E e \in Elems(rx'[c]) : Mine(d, e)'
             PROVE  Disturbed(LockKey(c))'
  BY DEF StaleInv
<1>0. d # NoCall
  BY NamesAssumption
\* Two calls with the same lock are not inside together.
<1>1. ASSUME Inside(c), Inside(d), job[c].op = job[d].op, job[c].t = job[d].t
      PROVE  FALSE
  <2>1. LockKey(c) = LockKey(d)
    BY <1>1 DEF LockKey
  <2> QED
    BY <1>1, <2>1 DEF LockInv, Inside
<1>2. CASE pc[c] \in Started
  <2>1. job'[c] = job[c] /\ LockKey(c)' = LockKey(c) /\ Inside(c)
    <3>1. job'[c] = job[c] /\ job[c] \in Job
      BY <1>2, JobStep DEF Started, CallInv
    <3>2. Serialized(job[c].op)
      BY <3>1, OpFacts DEF Job, Plain
    <3> QED
      BY <1>2, <3>1, <3>2 DEF LockKey, Inside, Active, Holds, Started
  <2>2. CASE pc[d] # "idle" /\ (Unfinished(d) \/ \E e \in Elems(rx[c]) : Mine(d, e))
    <3>1. job'[d] = job[d]
      BY <2>2, JobStep
    <3>2. Disturbed(LockKey(c))
      BY <1>2, <2>1, <2>2, <3>1 DEF StaleInv
    <3> QED
      BY <2>1, <3>2, DisturbedStays
  <2>3. CASE Unfinished(d)' /\ ~(pc[d] # "idle" /\ Unfinished(d))
    <3>1. CallStep(d) /\ pc[d] \in {"idle", "locked"} /\ pc'[d] = "waiting"
      BY <2>3, UnfinishedStep
    <3>2. job'[d] \in Job
      BY <3>1, JobStep DEF CallInv
    <3>3. Serialized(job'[d].op)
      BY <3>2, OpFacts DEF Job, Plain
    <3>4. pc[d] = "locked" /\ job'[d] = job[d]
      BY <3>1, <3>3, WayOfCall
    <3>5. Inside(d)
      BY <3>3, <3>4 DEF Inside, Active, Holds
    <3> QED
      BY <1>1, <2>1, <3>4, <3>5
  <2>4. CASE \E e \in Elems(rx'[c]) : Mine(d, e)'
    <3>1. PICK e \in Elems(rx'[c]) : e.of = d /\ e.op = job'[d].op
      BY <2>4 DEF Mine
    <3>2. CASE e \in Elems(rx[c])
      <4>1. pc[d] # "idle"
        BY <1>0, <3>1, <3>2 DEF GenuineInv, Genuine
      <4>2. Mine(d, e)
        BY <3>1, <4>1, JobStep DEF Mine
      <4> QED
        BY <2>2, <3>2, <4>1, <4>2
    <3>3. CASE Pump /\ Shown(e)
      <4>1. PICK a \in Elems(alerts) : a = Head(alerts)
        BY <3>3, PumpStep
      <4>2. a.of = d /\ a.op = job'[d].op
        BY <3>1, <3>3, <4>1 DEF Shown
      <4>3. pc[d] # "idle"
        BY <1>0, <4>2 DEF GenuineInv, Genuine
      <4>4. Unfinished(d)
        BY <4>2, <4>3, JobStep DEF Unfinished, Elems
      <4> QED
        BY <2>2, <4>3, <4>4
    <3> QED
      BY <3>2, <3>3, RxStep
  <2> QED
    BY <2>2, <2>3, <2>4
<1>3. CASE pc[c] \notin Started
  <2>1. CallStep(c)
    BY <1>3, JobStep
  <2>2. job'[c] \in Job
    BY <2>1, WayOfCall DEF CallInv
  <2>3. Serialized(job'[c].op)
    BY <2>2, OpFacts DEF Job, Plain
  <2>4. /\ pc[c] = "locked" /\ job'[c] = job[c] /\ job[c].t \in handles /\ shutdown = "no"
        /\ rx'[c] = rx[c] /\ LockKey(c)' = LockKey(c)
    <3>1. pc'[c] = "waiting" /\ pc[c] # "waiting"
      BY <1>3, <2>1, WayOfCall DEF Started
    <3>2. pc[c] = "locked" /\ rx'[c] = rx[c] /\ job'[c].t \in handles /\ shutdown = "no"
      BY <2>1, <2>3, <3>1, WayOfCall
    <3>3. job'[c] = job[c]
      BY <2>1, <3>2, WayOfCall
    <3> QED
      BY <3>2, <3>3 DEF LockKey
  <2>5. Elems(rx'[c]) = {}
    BY <2>4, ElemsEmpty DEF CallInv, Receiving, Waiting
  <2>6. job'[d] = job[d] /\ pc'[d] = pc[d]
    BY <2>1, OneCall
  <2>7. Unfinished(d)
    <3>1. ~(CallStep(d) /\ pc[d] \in {"idle", "locked"} /\ pc'[d] = "waiting")
      BY <2>6
    <3> QED
      BY <2>5, <3>1, UnfinishedStep
  <2>8. LockKey(d) = LockKey(c)
    BY <2>4, <2>6 DEF LockKey
  <2>9. CASE pc[d] \in Started
    <3>1. Inside(c) /\ Inside(d)
      BY <2>3, <2>4, <2>6, <2>9 DEF Inside, Active, Holds, Started
    <3> QED
      BY <1>1, <2>4, <2>6, <3>1
  <2>10. CASE Disturbed(LockKey(d))
    BY <2>4, <2>8, <2>10, DisturbedStays
  <2> QED
    BY <2>4, <2>6, <2>7, <2>9, <2>10 DEF HeldInv
<1> QED
  BY <1>2, <1>3

LEMMA GotInvStep ==
    ASSUME TypeOK, CallInv, GenuineInv, OnceInv, StaleInv, GotInv, Next
    PROVE  GotInv'
<1> SUFFICES ASSUME NEW c \in Calls, got'[c] \notin {NoCall, c}
             PROVE  /\ pc'[got'[c]] # "idle"
                    /\ job'[c].op \in Plain => Disturbed(LockKey(c))'
                    /\ job'[c].op = "read_piece" => job'[got'[c]].key = job'[c].key
  BY DEF GotInv
<1>1. CASE got'[c] = got[c]
  <2>1. pc[c] # "idle" /\ got[c] \in Calls
    BY <1>1 DEF CallInv, TypeOK
  <2>2. job'[c] = job[c] /\ LockKey(c)' = LockKey(c)
    BY <2>1, JobStep DEF LockKey
  <2>3. pc[got[c]] # "idle"
    BY <1>1 DEF GotInv
  <2>4. pc'[got[c]] # "idle" /\ job'[got[c]] = job[got[c]]
    BY <2>1, <2>3, JobStep
  <2>5. job'[c].op \in Plain => Disturbed(LockKey(c))'
    BY <1>1, <2>2, DisturbedStays DEF GotInv
  <2> QED
    BY <1>1, <2>2, <2>4, <2>5 DEF GotInv
<1>2. CASE got'[c] # got[c]
  <2>1. CallStep(c)
    BY <1>2, JobStep
  <2>2. RecvAnswer(c)
    BY <1>2, <2>1 DEF CallStep, CallRequest, CallSerialized, CallScrape, CallDelete,
       AcquireLock, PostLocked, RecvLagged, RecvOther, RecvTrackers, WaitCancelled, Drain,
       WaitTimeout, CallDrop
  <2>3. /\ pc[c] = "waiting" /\ rx[c] # <<>> /\ rx[c] \in Seq(Event)
        /\ Answers(c, Head(rx[c])) /\ got'[c] = Head(rx[c]).of
    BY <2>2 DEF RecvAnswer, TypeOK
  <2>4. PICK e \in Elems(rx[c]) : e = Head(rx[c])
    BY <2>3, ElemsFacts
  <2>5. e \in Event /\ Genuine(e) /\ got'[c] = e.of /\ Matcher(job[c], e)
    BY <2>3, <2>4, ElemsFacts DEF GenuineInv, Answers
  <2>6. e.of \in Calls
    BY <2>5 DEF Event
  <2>7. pc[e.of] # "idle" /\ e.key = job[e.of].key
    BY <2>5 DEF Genuine
  <2>8. job'[c] = job[c] /\ LockKey(c)' = LockKey(c) /\ job'[e.of] = job[e.of]
        /\ pc'[e.of] # "idle"
    BY <2>3, <2>6, <2>7, JobStep DEF LockKey
  <2>9. job[c].op \in Plain => Disturbed(LockKey(c))'
    <3>1. job[c].op \in Plain => Disturbed(LockKey(c))
      BY <2>3, <2>4, <2>5, TakenAnswer DEF Started
    <3> QED
      BY <2>8, <3>1, DisturbedStays
  <2>10. job[c].op = "read_piece" => e.key = job[c].key
    BY <2>5, OpFacts DEF Matcher
  <2> QED
    BY <2>5, <2>7, <2>8, <2>9, <2>10
<1> QED
  BY <1>1, <1>2

LEMMA AwaitedInvStep ==
    ASSUME TypeOK, CallInv, SessionInv, GenuineInv, AwaitedInv, Next
    PROVE  AwaitedInv'
<1> SUFFICES ASSUME NEW c \in Calls, pc'[c] = "waiting", job'[c].op # "delete_files",
                    c \notin missed'
             PROVE  \/ Unfinished(c)' \/ job'[c].t \notin session'
                    \/ \E e \in Elems(rx'[c]) : Answers(c, e)'
  BY DEF AwaitedInv
<1>1. CASE pc[c] # "waiting"
  <2>1. CallStep(c)
    BY <1>1, JobStep
  <2>2. <<c, job'[c]>> \in pending'
    BY <1>1, <2>1, PostStep
  <2> QED
    BY <2>2 DEF Unfinished
<1>2. CASE pc[c] = "waiting"
  <2>1. /\ job'[c] = job[c] /\ c \notin missed /\ job[c].t \in added
        /\ job[c] \in Job /\ rx[c] \in Seq(Event) /\ alerts \in Seq(Event) /\ c # NoCall
    BY <1>2, JobStep, WorldStep, NamesAssumption DEF CallInv, Started, TypeOK
  <2>2. \A e : Answers(c, e)' <=> Answers(c, e)
    BY <1>2, <2>1 DEF Answers
  <2>3. CASE job[c].t \notin session
    BY <2>1, <2>3, WorldStep
  <2>4. CASE \E e \in Elems(rx[c]) : Answers(c, e)
    <3>1. PICK e \in Elems(rx[c]) : Answers(c, e)
      BY <2>4
    <3>2. CASE Pump
      <4>1. PICK x : Shown(x) /\ publish(x)
        BY <3>2, PumpStep
      <4>2. e \in Elems(rx'[c])
        BY <1>2, <4>1, PublishFacts DEF Shown, Receiving, Waiting
      <4> QED
        BY <2>2, <3>1, <4>2
    <3>3. CASE ~Pump /\ ~CallStep(c)
      <4>1. rx'[c] = rx[c]
        BY <3>3, Steps, OneCall, OtherSteps DEF callVars
      <4> QED
        BY <2>2, <3>1, <4>1
    <3>4. CASE CallStep(c)
      <4>1. RecvLagged(c) \/ RecvOther(c)
        BY <1>2, <3>4 DEF CallStep, CallRequest, CallSerialized, CallScrape, CallDelete,
           AcquireLock, PostLocked, RecvTrackers, RecvAnswer, Return, WaitCancelled, Drain,
           WaitTimeout, AfterTimeout, CallDrop, TypeOK
      <4>2. CASE RecvLagged(c)
        <5>1. rx'[c] = rx[c]
          BY <4>2 DEF RecvLagged
        <5> QED
          BY <2>2, <3>1, <5>1
      <4>3. CASE RecvOther(c)
        <5>1. rx[c] # <<>> /\ rx'[c] = Tail(rx[c]) /\ ~Answers(c, Head(rx[c]))
          BY <4>3 DEF RecvOther, TypeOK
        <5>2. e \in Elems(rx'[c])
          BY <2>1, <3>1, <5>1, ElemsFacts
        <5> QED
          BY <2>2, <3>1, <5>2
      <4> QED
        BY <4>1, <4>2, <4>3
    <3> QED
      BY <3>2, <3>3, <3>4
  <2>5. CASE \E p \in pending : p[1] = c /\ p[2].op = job[c].op
    <3>1. PICK p \in pending : p[1] = c /\ p[2].op = job[c].op
      BY <2>5
    <3>2. CASE p \in pending'
      BY <2>1, <3>1, <3>2 DEF Unfinished
    <3>3. CASE p \notin pending'
      <4>1. LtStep
        BY <3>3, Steps, PostStep, OtherSteps DEF ltVars
      <4>2. p[2].t \notin session \/ \E e \in Event :
              alerts' = Append(alerts, e) /\ e.of = p[1] /\ e.op = p[2].op
        BY <3>3, <4>1, LtAlerts
      <4>3. CASE p[2].t \notin session
        <5>1. p[2].t = job[c].t
          BY <3>1 DEF GenuineInv, Sent
        <5> QED
          BY <2>3, <4>3, <5>1
      <4>4. CASE \E e \in Event :
              alerts' = Append(alerts, e) /\ e.of = p[1] /\ e.op = p[2].op
        <5>1. PICK e \in Event :
              alerts' = Append(alerts, e) /\ e.of = p[1] /\ e.op = p[2].op
          BY <4>4
        <5>2. e \in Elems(alerts')
          BY <2>1, <5>1, ElemsFacts
        <5> QED
          BY <2>1, <3>1, <5>1, <5>2 DEF Unfinished, Elems
      <4> QED
        BY <4>2, <4>3, <4>4
    <3> QED
      BY <3>2, <3>3
  <2>6. CASE \E e \in Elems(alerts) : e.of = c /\ e.op = job[c].op
    <3>1. PICK e \in Elems(alerts) : e.of = c /\ e.op = job[c].op
      BY <2>6
    <3>2. CASE e \in Elems(alerts')
      BY <2>1, <3>1, <3>2 DEF Unfinished, Elems
    <3>3. CASE e \notin Elems(alerts')
      <4>1. Pump
        <5>1. (\E d \in Calls : CallStep(d)) \/ ShutdownCancel => alerts' = alerts
          BY OneCall DEF ShutdownCancel, ltVars
        <5>2. LtStep => e \in Elems(alerts')
          <6>1. \A x \in Event : e \in Elems(Append(alerts, x))
            BY <2>1, ElemsFacts
          <6> QED
            BY <6>1, LtAlerts
        <5> QED
          BY <3>3, <5>1, <5>2, Steps
      <4>2. e = Head(alerts)
        BY <2>1, <3>3, <4>1, PumpStep, ElemsFacts
      <4>3. PICK x : Shown(x) /\ publish(x)
        BY <4>1, PumpStep
      <4>4. x \in Elems(rx'[c])
        BY <1>2, <4>3, PublishFacts DEF Shown, Receiving, Waiting
      <4>5. Genuine(e) /\ e.t \in Torrents
        BY DEF GenuineInv
      <4>6. e.op \notin {"removed", "delete_files"} /\ e.key = job[c].key /\ e.t = job[c].t
        <5>1. e.t \in {job[c].t, NoTorrent}
          BY <2>1, <3>1, <4>5 DEF Genuine
        <5> QED
          BY <2>1, <3>1, <4>5, <5>1, NamesAssumption DEF Genuine
      <4>7. x.op = job[c].op /\ x.key = job[c].key /\ (job[c].t \in alive => x.t = job[c].t)
        BY <3>1, <4>2, <4>3, <4>6 DEF Shown
      <4>8. CASE x.t = job[c].t
        <5>1. Answers(c, x)
          BY <1>2, <4>7, <4>8 DEF Answers, Matcher
        <5> QED
          BY <2>2, <4>4, <5>1
      <4>9. CASE job[c].t \notin alive
        BY <2>3, <4>9 DEF SessionInv
      <4> QED
        BY <4>7, <4>8, <4>9
    <3> QED
      BY <3>2, <3>3
  <2>7. Unfinished(c) => (\E p \in pending : p[1] = c /\ p[2].op = job[c].op)
                            \/ (\E e \in Elems(alerts) : e.of = c /\ e.op = job[c].op)
    BY DEF Unfinished, Elems
  <2> QED
    BY <1>2, <2>1, <2>3, <2>4, <2>5, <2>6, <2>7 DEF AwaitedInv
<1> QED
  BY <1>1, <1>2

(***************************************************************************)
(* Deletions.                                                              *)
(***************************************************************************)
LEMMA ContentInvStep ==
    ASSUME TypeOK, CallInv, SessionInv, GenuineInv, ContentInv, Next
    PROVE  ContentInv'
<1>1. \A t : Gone(t) => Gone(t)'
  BY WorldStep DEF Gone
<1>2. ASSUME NEW i \in 1 .. Len(pending_deletes')
      PROVE  pending_deletes'[i].hashes \subseteq Hashes[pending_deletes'[i].t]
  <2>1. \/ \E k \in 1 .. Len(pending_deletes) : pending_deletes'[i] = pending_deletes[k]
        \/ pending_deletes'[i].hashes \subseteq Hashes[pending_deletes'[i].t]
    <3>1. CASE \E c \in Calls : CallStep(c)
      BY <3>1, CallTypes
    <3>2. CASE Pump
      BY <3>2, PumpStep
    <3>3. CASE LtStep \/ ShutdownCancel
      <4>1. pending_deletes' = pending_deletes
        BY <3>3, OtherSteps
      <4> QED
        BY <4>1
    <3> QED
      BY <3>1, <3>2, <3>3, Steps
  <2> QED
    BY <2>1 DEF ContentInv
<1>3. ASSUME NEW e \in Elems(alerts'), e.op = "delete_files", e.out = "ok"
      PROVE  e.t \in deleted'
  <2>1. CASE e \in Elems(alerts)
    BY <1>3, <2>1, WorldStep DEF ContentInv
  <2>2. CASE New(e)
    <3>1. \A p \in pending : p[2].op # "delete_files"
      BY DEF GenuineInv, Sent
    <3> QED
      BY <1>3, <2>2, <3>1 DEF New
  <2> QED
    BY <1>3, <2>1, <2>2, AlertStep
<1>4. ASSUME NEW c \in Calls, NEW e \in Elems(rx'[c]), e.op = "delete_files",
             e.out = "ok", e.t # NoTorrent
      PROVE  Gone(e.t)'
  <2>1. CASE e \in Elems(rx[c])
    <3>1. Gone(e.t)
      BY <1>4, <2>1 DEF ContentInv
    <3> QED
      BY <1>1, <3>1
  <2>2. CASE Pump /\ Shown(e)
    <3>1. PICK a \in Elems(alerts) : a = Head(alerts)
      BY <2>2, PumpStep
    <3>2. a.op = "delete_files" /\ a.out = "ok" /\ e.t # NoTorrent
      BY <1>4, <2>2, <3>1 DEF Shown
    <3>3. PICK i \in 1 .. Len(pending_deletes) :
              /\ pending_deletes[i].t = e.t
              /\ pending_deletes[i].hashes \cap Hashes[a.t] # {}
      BY <2>2, <3>1, <3>2 DEF Shown
    <3>4. a.t \in deleted /\ pending_deletes[i].hashes \subseteq Hashes[e.t]
      BY <3>2, <3>3 DEF ContentInv
    <3>5. Hashes[a.t] \cap Hashes[e.t] # {}
      BY <3>3, <3>4
    <3>6. Gone(e.t)
      BY <3>4, <3>5 DEF Gone
    <3> QED
      BY <1>1, <3>6
  <2> QED
    BY <1>4, <2>1, <2>2, RxStep
<1>5. ASSUME NEW c \in Calls, pc'[c] = "ok", job'[c].op = "delete_files"
      PROVE  \E u \in deleted' : Hashes[u] \cap Hashes[job'[c].t] # {}
  <2>1. CASE pc[c] = "ok"
    <3>1. job'[c] = job[c] /\ Gone(job[c].t)
      BY <1>5, <2>1, JobStep DEF ContentInv
    <3> QED
      BY <3>1, WorldStep DEF Gone
  <2>2. CASE pc[c] # "ok"
    <3>1. CallStep(c)
      BY <1>5, <2>2, JobStep
    <3>2. RecvAnswer(c)
      BY <1>5, <2>2, <3>1 DEF CallStep, CallRequest, CallSerialized, CallScrape, CallDelete,
         AcquireLock, PostLocked, RecvLagged, RecvOther, RecvTrackers, WaitCancelled, Drain,
         WaitTimeout, CallDrop, Return, Resolve, Enqueue, Subscribed, AfterTimeout, TypeOK
    <3>3. /\ pc[c] = "waiting" /\ rx[c] # <<>> /\ rx[c] \in Seq(Event) /\ job' = job
          /\ Answers(c, Head(rx[c])) /\ Head(rx[c]).out = "ok"
      BY <1>5, <3>2 DEF RecvAnswer, Return, TypeOK
    <3>4. PICK e \in Elems(rx[c]) : e = Head(rx[c])
      BY <3>3, ElemsFacts
    <3>5. e.t = job[c].t /\ e.op = "delete_files" /\ e.out = "ok"
      BY <1>5, <3>3, <3>4 DEF Answers, Matcher
    <3>6. job[c].t # NoTorrent
      BY <3>3, NamesAssumption DEF CallInv, Job
    <3>7. Gone(job[c].t)
      BY <3>5, <3>6 DEF ContentInv
    <3> QED
      BY <3>3, <3>7, WorldStep DEF Gone
  <2> QED
    BY <2>1, <2>2
<1> QED
  BY <1>2, <1>3, <1>4, <1>5 DEF ContentInv, Gone

(***************************************************************************)
(* The theorems.                                                           *)
(***************************************************************************)
LEMMA CorrelateInit == Init => CorrelateInv
<1> SUFFICES ASSUME Init PROVE CorrelateInv
  OBVIOUS
<1>1. TypeOK /\ CallInv
  BY TypeInit
<1>2. /\ Elems(alerts) = {} /\ (\A c \in Calls : Elems(rx[c]) = {}) /\ pending = {}
      /\ \A c \in Calls : pc[c] = "idle" /\ got[c] = NoCall /\ job[c] = NoJob
  BY ElemsEmpty DEF Init
<1>3. SessionInv /\ GenuineInv
  BY <1>2 DEF Init, SessionInv, GenuineInv
<1>4. \A c \in Calls : ~Unfinished(c)
  BY <1>2 DEF Unfinished, Elems
<1>5. OnceInv
  <2>1. \A c, o : ~IsPosted(c, o, pending) /\ ~IsIn(c, o, alerts) /\ ~IsShown(c, o, rx)
    BY <1>2 DEF IsPosted, IsIn, IsShown
  <2>2. \A i \in 1 .. Len(alerts) : FALSE
    BY <1>2 DEF Elems
  <2> QED
    BY <1>2, <2>1, <2>2 DEF OnceInv, Once
<1>6. LockInv /\ HeldInv /\ StaleInv /\ GotInv /\ AwaitedInv
  BY <1>2, <1>4 DEF LockInv, Active, Inside, HeldInv, StaleInv, GotInv, AwaitedInv, Started
<1>7. ContentInv
  BY <1>2 DEF Init, ContentInv
<1> QED
  BY <1>1, <1>3, <1>5, <1>6, <1>7 DEF CorrelateInv

LEMMA CorrelateUnchanged ==
    ASSUME CorrelateInv, UNCHANGED vars
    PROVE  CorrelateInv'
<1> USE DEF vars, ltVars, engineVars, callVars
<1>1. TypeOK'
  BY DEF CorrelateInv, TypeOK
<1>2. CallInv' /\ SessionInv' /\ GenuineInv'
  BY DEF CorrelateInv, CallInv, Receiving, SessionInv, GenuineInv, Sent, Genuine
<1>3. OnceInv'
  BY DEF CorrelateInv, OnceInv
<1>4. LockInv'
  BY DEF CorrelateInv, LockInv, Inside, Active, Holds, LockKey
<1>5. \A c \in Calls : Unfinished(c)' <=> Unfinished(c)
  BY DEF Unfinished
<1>6. \A k : Disturbed(k)' <=> Disturbed(k)
  BY DEF Disturbed, LockKey
<1>7. \A c \in Calls : LockKey(c)' = LockKey(c)
  BY DEF LockKey
<1>8. \A c \in Calls : \A e : (Mine(c, e)' <=> Mine(c, e)) /\ (Answers(c, e)' <=> Answers(c, e))
  BY DEF Mine, Answers
<1>9. HeldInv' /\ StaleInv' /\ GotInv' /\ AwaitedInv'
  BY <1>5, <1>6, <1>7, <1>8 DEF CorrelateInv, HeldInv, StaleInv, GotInv, AwaitedInv
<1>10. ContentInv'
  BY DEF CorrelateInv, ContentInv, Gone
<1> QED
  BY <1>1, <1>2, <1>3, <1>4, <1>9, <1>10 DEF CorrelateInv

\* The inductive invariant: what a call has posted is under way exactly once,
\* belongs to a call that holds the lock or waits, and deletions are
\* attributed to torrents of the same content.
THEOREM CorrelateInvariant == Spec => []CorrelateInv
<1>1. CorrelateInv /\ [Next]_vars => CorrelateInv'
  <2>1. CorrelateInv /\ Next => CorrelateInv'
    BY TypeStep, CallInvStep, SessionInvStep, GenuineInvStep, OnceInvStep, LockInvStep,
       HeldInvStep, StaleInvStep, GotInvStep, AwaitedInvStep, ContentInvStep
       DEF CorrelateInv
  <2> QED
    BY <2>1, CorrelateUnchanged
<1> QED
  BY CorrelateInit, <1>1, PTL DEF Spec

\* The types of the state, on the way to everything below.
THEOREM TypeCorrect == Spec => []TypeOK
<1>1. CorrelateInv => TypeOK
  BY DEF CorrelateInv
<1> QED
  BY <1>1, CorrelateInvariant, PTL

\* Two moves, or two renames, of one torrent never run at the same time in
\* libtorrent (request_serialized and its drainer), unless a caller that was
\* dropped or a drainer that lagged gave its lock up early.
THEOREM OneAtATime == Spec => []OneInFlight
<1>1. CorrelateInv => OneInFlight
  <2> SUFFICES ASSUME CorrelateInv, NEW c \in Calls, NEW d \in Calls,
                      c # d, Unfinished(c), Unfinished(d),
                      job[c].op \in {"move_storage", "rename_file"},
                      LockKey(c) = LockKey(d), ~Disturbed(LockKey(c)),
                      shutdown # "cancelled", job[c].t \in session
               PROVE  FALSE
    BY DEF OneInFlight
  <2>1. TypeOK /\ CallInv /\ OnceInv /\ LockInv /\ HeldInv /\ SessionInv
    BY DEF CorrelateInv
  <2>2. pc[c] \notin Before /\ pc[d] \notin Before
    BY <2>1, UnfinishedMeans DEF OnceInv
  <2>3. job[c] \in Job /\ job[d] \in Job /\ job[c].t = job[d].t
        /\ Class(job[c].op) = Class(job[d].op)
    BY <2>1, <2>2 DEF CallInv, Before, LockKey
  <2>4. job[d].op \in Plain /\ job[c].op \in Plain
    BY <2>3, OpFacts DEF Plain, Job
  <2>5. Serialized(job[c].op) /\ Serialized(job[d].op)
    BY <2>3, <2>4, OpFacts DEF Job, Plain
  <2>6. job[c].t \in handles
    BY <2>1 DEF SessionInv
  <2>7. pc[c] \in Started /\ pc[d] \in Started
    BY <2>1, <2>3, <2>4, <2>6 DEF HeldInv
  <2>8. Inside(c) /\ Inside(d)
    BY <2>5, <2>7 DEF Inside, Active, Holds, Started
  <2> QED
    BY <2>1, <2>8 DEF LockInv, Inside
<1> QED
  BY <1>1, CorrelateInvariant, PTL

\* A move or a rename returns the answer to itself, never the late answer to
\* an earlier call (OpClass, mod.rs), with the same exception; and read_piece
\* returns the piece that was asked for.
THEOREM AnswersAreOwn == Spec => []OwnAnswer
<1>1. CorrelateInv => OwnAnswer
  BY DEF CorrelateInv, GotInv, OwnAnswer, Plain
<1> QED
  BY <1>1, CorrelateInvariant, PTL

\* request subscribes before it posts: while a call waits, its answer is
\* still to come or in its receiver.
THEOREM AnswersAreNotMissed == Spec => []AnswerNotMissed
<1>1. CorrelateInv => AnswerNotMissed
  BY DEF CorrelateInv, AwaitedInv, AnswerNotMissed, Elems
<1> QED
  BY <1>1, CorrelateInvariant, PTL

\* A removal with files that succeeds means that files of this content have
\* been deleted, whoever else gave up: on_torrent_deleted attributes an alert
\* only to an entry with a hash in common.
THEOREM SomeFilesAreDeleted == Spec => []SameContentDeleted
<1>1. CorrelateInv => SameContentDeleted
  BY DEF CorrelateInv, ContentInv, Gone, SameContentDeleted, Deletes
<1> QED
  BY <1>1, CorrelateInvariant, PTL

(***************************************************************************)
(* A removal and its own files, where content is added again.              *)
(***************************************************************************)
\* At most two removals are parked at once: swap_remove then keeps the order.
TwoParked == Len(pending_deletes) <= 2

\* No torrent is removed with its files twice.
OneRemoval == \A c, d \in Calls :
                  Deletes(c) /\ Deletes(d) /\ job[c].t = job[d].t => c = d

SomeoneGaveUp == \E d \in Calls : Deletes(d) /\ GaveUp(d)

Asked(t) == \E d \in Calls : Deletes(d) /\ job[d].t = t
Parked(t) == \E i \in 1 .. Len(pending_deletes) : pending_deletes[i].t = t
Left(t) == t \in added \ session

\* Reports of deletions among alerts: which there are, each once, and that
\* none of b comes without one of a before it.
Reports(e, t) == e.op = "delete_files" /\ e.t = t
ReportedIn(A, t) == \E i \in 1 .. Len(A) : Reports(A[i], t)
ReportedOnce(A) == \A i, k \in 1 .. Len(A) :
                       A[k].op = "delete_files" /\ Reports(A[i], A[k].t) => i = k
ReportedFirst(A, a, b) == \A l \in 1 .. Len(A) : Reports(A[l], b) =>
                              \E k \in 1 .. Len(A) : k < l /\ Reports(A[k], a)

\* The same of the torrents whose files are to be deleted.
QueuedOnce(D) == \A i, k \in 1 .. Len(D) : D[i] = D[k] => i = k
QueuedFirst(D, a, b) == \A l \in 1 .. Len(D) : D[l] = b =>
                            \E k \in 1 .. Len(D) : k < l /\ D[k] = a

\* A torrent that left the session, or waits to, was asked to.
AskedInv ==
    /\ \A c \in Calls : /\ pc[c] = "idle" => job[c] = NoJob
                        /\ Deletes(c) => job[c].t \in added
    /\ \A t \in Torrents : t \in removing \/ Left(t) \/ Parked(t) => Asked(t)
    /\ \A t, u \in session : t # u => Hashes[t] \cap Hashes[u] = {}

\* It is in one place: the session, the queue of deletions, or an alert.
PlaceInv ==
    /\ \A t \in Elems(deleting) : Left(t) /\ ~ReportedIn(alerts, t)
    /\ \A t \in Torrents : ReportedIn(alerts, t) => Left(t)
    /\ ReportedOnce(alerts) /\ QueuedOnce(deleting)

\* From the request to the report it has one entry.
ParkedInv ==
    /\ \A i, k \in 1 .. Len(pending_deletes) :
         pending_deletes[i].t = pending_deletes[k].t => i = k
    /\ \A i \in 1 .. Len(pending_deletes) : pending_deletes[i].hashes # {}
    /\ \A t \in Torrents :
         /\ t \in removing \cap session \/ t \in Elems(deleting)
              \/ ReportedIn(alerts, t) => Parked(t)
         /\ Parked(t) => t \in session \/ t \in Elems(deleting) \/ ReportedIn(alerts, t)

\* Entries of one content are in the order of their reports.
InOrder(a, b) ==
    /\ a \notin session
    /\ ReportedFirst(alerts, a, b)
    /\ ReportedIn(alerts, a) \/ QueuedFirst(deleting, a, b)

OrderInv ==
    Len(pending_deletes) = 2 =>
        LET a == pending_deletes[1].t
            b == pending_deletes[2].t
        IN Hashes[a] \cap Hashes[b] # {} => InOrder(a, b)

\* What a receiver sees of a deletion is about the torrent it names.
ShownInv ==
    /\ \A c \in Calls : \A e \in Elems(rx[c]) :
         e.op = "delete_files" /\ e.t # NoTorrent =>
             /\ Left(e.t) /\ ~Parked(e.t)
             /\ e.t \notin Elems(deleting) /\ ~ReportedIn(alerts, e.t)
             /\ e.out = "ok" => e.t \in deleted
    /\ \A c \in Calls : pc[c] = "ok" /\ Deletes(c) => job[c].t \in deleted

OwnParts == AskedInv /\ PlaceInv /\ ParkedInv /\ OrderInv /\ ShownInv
OwnInv == SomeoneGaveUp \/ OwnParts

LEMMA ReportsAppended ==
    ASSUME NEW A \in Seq(Event), NEW e \in Event
    PROVE  /\ \A t : ReportedIn(Append(A, e), t) <=> ReportedIn(A, t) \/ Reports(e, t)
           /\ ReportedOnce(A) /\ (e.op = "delete_files" => ~ReportedIn(A, e.t))
                => ReportedOnce(Append(A, e))
           /\ \A a, b : ReportedFirst(A, a, b) /\ (Reports(e, b) => ReportedIn(A, a))
                => ReportedFirst(Append(A, e), a, b)
<1> DEFINE B == Append(A, e)
           n == Len(A)
<1>1. /\ n \in Nat /\ Len(B) = n + 1 /\ B[n + 1] = e
      /\ \A i \in 1 .. n : B[i] = A[i]
  BY SeqFacts
<1>2. n + 1 \in 1 .. Len(B) /\ \A i \in 1 .. n : i \in 1 .. Len(B) /\ i < n + 1
  BY <1>1
<1>3. \A i \in 1 .. Len(B) : i \in 1 .. n \/ i = n + 1
  BY <1>1
<1> HIDE DEF B
<1>4. \A t : ReportedIn(B, t) <=> ReportedIn(A, t) \/ Reports(e, t)
  BY <1>1, <1>2, <1>3 DEF ReportedIn
<1>5. ReportedOnce(A) /\ (e.op = "delete_files" => ~ReportedIn(A, e.t)) => ReportedOnce(B)
  BY <1>1, <1>2, <1>3 DEF ReportedOnce, ReportedIn, Reports
<1>6. ASSUME NEW a, NEW b, ReportedFirst(A, a, b), Reports(e, b) => ReportedIn(A, a)
      PROVE  ReportedFirst(B, a, b)
  <2> SUFFICES ASSUME NEW l \in 1 .. Len(B), Reports(B[l], b)
               PROVE  \E k \in 1 .. Len(B) : k < l /\ Reports(B[k], a)
    BY DEF ReportedFirst
  <2>1. \E k \in 1 .. n : k < l /\ Reports(A[k], a)
    BY <1>1, <1>2, <1>3, <1>6 DEF ReportedFirst, ReportedIn
  <2> QED
    BY <1>1, <1>2, <2>1
<1> QED
  BY <1>4, <1>5, <1>6 DEF B

LEMMA ReportsTaken ==
    ASSUME NEW A \in Seq(Event), A # <<>>
    PROVE  /\ \A t : ReportedIn(A, t) <=> ReportedIn(Tail(A), t) \/ Reports(Head(A), t)
           /\ ReportedOnce(A) =>
                /\ ReportedOnce(Tail(A))
                /\ \A t : Reports(Head(A), t) => ~ReportedIn(Tail(A), t)
           /\ \A a, b : ReportedFirst(A, a, b) =>
                /\ ~Reports(Head(A), b)
                /\ ~Reports(Head(A), a) => ReportedFirst(Tail(A), a, b)
<1> DEFINE B == Tail(A)
           n == Len(A)
<1>1. /\ n \in Nat /\ n >= 1 /\ Len(B) = n - 1 /\ Head(A) = A[1]
      /\ \A i \in 1 .. Len(B) : B[i] = A[i + 1]
  BY SeqFacts
<1>2. 1 \in 1 .. n /\ \A i \in 1 .. Len(B) : i + 1 \in 1 .. n /\ i + 1 # 1
  BY <1>1
<1>3. \A i \in 1 .. n : i = 1 \/ (i - 1 \in 1 .. Len(B) /\ B[i - 1] = A[i])
  BY <1>1
<1> HIDE DEF B
<1>4. \A t : ReportedIn(A, t) <=> ReportedIn(B, t) \/ Reports(Head(A), t)
  BY <1>1, <1>2, <1>3 DEF ReportedIn
<1>5. ASSUME ReportedOnce(A)
      PROVE  ReportedOnce(B) /\ \A t : Reports(Head(A), t) => ~ReportedIn(B, t)
  <2>1. ReportedOnce(B)
    <3> SUFFICES ASSUME NEW i \in 1 .. Len(B), NEW k \in 1 .. Len(B),
                        B[k].op = "delete_files", Reports(B[i], B[k].t)
                 PROVE  i = k
      BY DEF ReportedOnce
    <3>1. i + 1 = k + 1
      BY <1>1, <1>2, <1>5 DEF ReportedOnce
    <3> QED
      BY <3>1
  <2>2. ASSUME NEW t, Reports(Head(A), t), ReportedIn(B, t) PROVE FALSE
    <3>1. PICK i \in 1 .. Len(B) : Reports(B[i], t)
      BY <2>2 DEF ReportedIn
    <3>2. Reports(A[i + 1], A[1].t) /\ A[1].op = "delete_files"
      BY <1>1, <2>2, <3>1 DEF Reports
    <3> QED
      BY <1>2, <1>5, <3>2 DEF ReportedOnce
  <2> QED
    BY <2>1, <2>2
<1>6. ASSUME NEW a, NEW b, ReportedFirst(A, a, b)
      PROVE  ~Reports(Head(A), b) /\ (~Reports(Head(A), a) => ReportedFirst(B, a, b))
  <2>1. ~Reports(Head(A), b)
    BY <1>1, <1>2, <1>6 DEF ReportedFirst
  <2>2. ASSUME ~Reports(Head(A), a), NEW l \in 1 .. Len(B), Reports(B[l], b)
        PROVE  \E k \in 1 .. Len(B) : k < l /\ Reports(B[k], a)
    <3>1. PICK k \in 1 .. n : k < l + 1 /\ Reports(A[k], a)
      BY <1>1, <1>2, <1>6, <2>2 DEF ReportedFirst
    <3>2. k # 1
      BY <1>1, <2>2, <3>1
    <3>3. k - 1 \in 1 .. Len(B) /\ B[k - 1] = A[k] /\ k - 1 < l
      BY <1>3, <3>1, <3>2
    <3> QED
      BY <3>1, <3>3
  <2> QED
    BY <2>1, <2>2 DEF ReportedFirst
<1> QED
  BY <1>4, <1>5, <1>6 DEF B

LEMMA QueueAppended ==
    ASSUME NEW D \in Seq(Torrents), NEW t \in Torrents
    PROVE  /\ QueuedOnce(D) /\ t \notin Elems(D) => QueuedOnce(Append(D, t))
           /\ \A a, b : QueuedFirst(D, a, b) /\ (t = b => a \in Elems(D))
                => QueuedFirst(Append(D, t), a, b)
<1> DEFINE B == Append(D, t)
           n == Len(D)
<1>1. /\ n \in Nat /\ Len(B) = n + 1 /\ B[n + 1] = t
      /\ \A i \in 1 .. n : B[i] = D[i]
  BY SeqFacts
<1>2. n + 1 \in 1 .. Len(B) /\ \A i \in 1 .. n : i \in 1 .. Len(B) /\ i < n + 1
  BY <1>1
<1>3. \A i \in 1 .. Len(B) : i \in 1 .. n \/ i = n + 1
  BY <1>1
<1> HIDE DEF B
<1>4. QueuedOnce(D) /\ t \notin Elems(D) => QueuedOnce(B)
  BY <1>1, <1>2, <1>3 DEF QueuedOnce, Elems
<1>5. ASSUME NEW a, NEW b, QueuedFirst(D, a, b), t = b => a \in Elems(D)
      PROVE  QueuedFirst(B, a, b)
  <2> SUFFICES ASSUME NEW l \in 1 .. Len(B), B[l] = b
               PROVE  \E k \in 1 .. Len(B) : k < l /\ B[k] = a
    BY DEF QueuedFirst
  <2>1. \E k \in 1 .. n : k < l /\ D[k] = a
    BY <1>1, <1>2, <1>3, <1>5 DEF QueuedFirst, Elems
  <2> QED
    BY <1>1, <1>2, <2>1
<1> QED
  BY <1>4, <1>5 DEF B

LEMMA QueueTaken ==
    ASSUME NEW D \in Seq(Torrents), D # <<>>
    PROVE  /\ QueuedOnce(D) => QueuedOnce(Tail(D)) /\ Head(D) \notin Elems(Tail(D))
           /\ \A a, b : QueuedFirst(D, a, b) =>
                Head(D) # b /\ (Head(D) # a => QueuedFirst(Tail(D), a, b))
<1> DEFINE B == Tail(D)
           n == Len(D)
<1>1. /\ n \in Nat /\ n >= 1 /\ Len(B) = n - 1 /\ Head(D) = D[1]
      /\ \A i \in 1 .. Len(B) : B[i] = D[i + 1]
  BY SeqFacts
<1>2. 1 \in 1 .. n /\ \A i \in 1 .. Len(B) : i + 1 \in 1 .. n /\ i + 1 # 1
  BY <1>1
<1>3. \A i \in 1 .. n : i = 1 \/ (i - 1 \in 1 .. Len(B) /\ B[i - 1] = D[i])
  BY <1>1
<1> HIDE DEF B
<1>4. ASSUME QueuedOnce(D) PROVE QueuedOnce(B) /\ Head(D) \notin Elems(B)
  <2>1. \A i, k \in 1 .. Len(B) : B[i] = B[k] => i + 1 = k + 1
    BY <1>1, <1>2, <1>4 DEF QueuedOnce
  <2>2. QueuedOnce(B)
    BY <2>1 DEF QueuedOnce
  <2>3. \A i \in 1 .. Len(B) : B[i] # Head(D)
    BY <1>1, <1>2, <1>4 DEF QueuedOnce
  <2> QED
    BY <2>2, <2>3 DEF Elems
<1>5. ASSUME NEW a, NEW b, QueuedFirst(D, a, b)
      PROVE  Head(D) # b /\ (Head(D) # a => QueuedFirst(B, a, b))
  <2>1. Head(D) # b
    BY <1>1, <1>2, <1>5 DEF QueuedFirst
  <2>2. ASSUME Head(D) # a, NEW l \in 1 .. Len(B), B[l] = b
        PROVE  \E k \in 1 .. Len(B) : k < l /\ B[k] = a
    <3>1. PICK k \in 1 .. n : k < l + 1 /\ D[k] = a
      BY <1>1, <1>2, <1>5, <2>2 DEF QueuedFirst
    <3>2. k # 1
      BY <1>1, <2>2, <3>1
    <3>3. k - 1 \in 1 .. Len(B) /\ B[k - 1] = D[k] /\ k - 1 < l
      BY <1>3, <3>1, <3>2
    <3> QED
      BY <3>1, <3>3
  <2> QED
    BY <2>1, <2>2 DEF QueuedFirst
<1> QED
  BY <1>4, <1>5 DEF B

LEMMA TwoNumbers ==
    ASSUME NEW n \in Nat, n <= 2, NEW m \in 1 .. n, NEW k \in 1 .. n, m <= k, m # k
    PROVE  m = 1 /\ k = 2 /\ n = 2
  OBVIOUS

\* An alert is attributed to the removal it reports.
LEMMA Attributed ==
    ASSUME TypeOK, ContentInv, ParkedInv, OrderInv, TwoParked,
           NEW t \in Torrents, alerts # <<>>, Reports(Head(alerts), t)
    PROVE  /\ FirstOverlap(Hashes[t]) \in 1 .. Len(pending_deletes)
           /\ pending_deletes[FirstOverlap(Hashes[t])].t = t
<1> DEFINE hits == {i \in 1 .. Len(pending_deletes) :
                       pending_deletes[i].hashes \cap Hashes[t] # {}}
           m == CHOOSE i \in hits : \A j \in hits : i <= j
<1>1. alerts \in Seq(Event) /\ ReportedIn(alerts, t)
  BY ReportsTaken DEF TypeOK
<1>2. PICK k \in 1 .. Len(pending_deletes) : pending_deletes[k].t = t
  BY <1>1 DEF ParkedInv, Parked
<1>3. k \in hits
  BY <1>2 DEF ParkedInv, ContentInv
<1>4. hits \subseteq Nat
  OBVIOUS
<1>5. \E i \in hits : \A j \in hits : i <= j
  BY <1>3, <1>4, MinExists
<1>6. m \in hits /\ m <= k
  BY <1>3, <1>5
<1>7. FirstOverlap(Hashes[t]) = m
  BY <1>3 DEF FirstOverlap
<1> HIDE DEF m
<1>8. m \in 1 .. Len(pending_deletes) /\ pending_deletes[m].hashes \cap Hashes[t] # {}
  BY <1>6
<1>9. ASSUME m # k PROVE FALSE
  <2>1. m = 1 /\ k = 2 /\ Len(pending_deletes) = 2
    <3>1. Len(pending_deletes) \in Nat /\ Len(pending_deletes) <= 2 /\ m <= k
      BY <1>6 DEF TypeOK, TwoParked
    <3>2. m \in 1 .. Len(pending_deletes) /\ k \in 1 .. Len(pending_deletes)
      BY <1>2, <1>8
    <3> QED
      BY <1>9, <3>1, <3>2, TwoNumbers
  <2>2. Hashes[pending_deletes[1].t] \cap Hashes[t] # {}
    BY <1>8, <2>1 DEF ContentInv
  <2>3. ReportedFirst(alerts, pending_deletes[1].t, t)
    BY <1>2, <2>1, <2>2 DEF OrderInv, InOrder
  <2> QED
    BY <1>1, <2>3, ReportsTaken
<1> QED
  BY <1>2, <1>7, <1>8, <1>9

\* Whoever gives up has given up for good.
LEMMA GaveUpStays ==
    ASSUME TypeOK, CallInv, Next, SomeoneGaveUp
    PROVE  SomeoneGaveUp'
<1>1. PICK d \in Calls : Deletes(d) /\ GaveUp(d)
  BY DEF SomeoneGaveUp
<1>2. ~CallStep(d)
  BY <1>1 DEF GaveUp, CallStep, CallRequest, CallSerialized, CallScrape, CallDelete,
     AcquireLock, PostLocked, RecvLagged, RecvOther, RecvTrackers, RecvAnswer, Return,
     WaitCancelled, Drain, WaitTimeout, CallDrop, Waiting
<1>3. pc'[d] = pc[d] /\ job'[d] = job[d]
  BY <1>2, Steps, OneCall, OtherSteps DEF callVars
<1>4. shutdown = "cancelled" => shutdown' = "cancelled"
  BY Steps, OneCall, OtherSteps DEF ShutdownCancel
<1> QED
  BY <1>1, <1>3, <1>4 DEF SomeoneGaveUp, GaveUp, Deletes

\* A call parks a removal, or leaves the entries alone.
Parks(c) ==
    \E j \in Job : \E h \in (SUBSET Hashes[j.t]) \ {{}} :
        /\ pc[c] = "idle" /\ j.op = "delete_files" /\ j.t \in handles
        /\ job' = [job EXCEPT ![c] = j] /\ pc'[c] = "waiting"
        /\ pending_deletes' = Append(pending_deletes, [hashes |-> h, t |-> j.t])
        /\ removing' = removing \cup {j.t}

SameRemovals ==
    /\ pending_deletes' = pending_deletes /\ removing' = removing
    /\ \A d \in Calls : /\ Deletes(d)' <=> Deletes(d)
                        /\ Deletes(d) => job'[d].t = job[d].t

LEMMA CallParks ==
    ASSUME TypeOK, CallInv, AskedInv, ShownInv, ~SomeoneGaveUp',
           NEW c \in Calls, CallStep(c)
    PROVE  Parks(c) \/ SameRemovals
<1> USE DEF TypeOK
<1>1. CASE pc[c] = "idle"
  <2>1. PICK j \in Jobs : CallRequest(c, j) \/ CallSerialized(c, j)
                            \/ CallScrape(c, j) \/ CallDelete(c, j)
    BY <1>1 DEF CallStep, AcquireLock, PostLocked, RecvLagged, RecvOther, RecvTrackers,
       RecvAnswer, WaitCancelled, Drain, WaitTimeout, CallDrop, Waiting
  <2>2. j \in Job /\ job' = [job EXCEPT ![c] = j] /\ job[c] = NoJob
    BY <1>1, <2>1, JobsAssumption
       DEF CallRequest, CallSerialized, CallScrape, CallDelete, AskedInv
  <2>3. CASE CallDelete(c, j)
    <3>1. j.op = "delete_files" /\ j.t \in handles
      BY <2>3 DEF CallDelete
    <3>2. shutdown = "no"
      <4>1. Deletes(c)'
        BY <2>2, <3>1 DEF Deletes
      <4>2. shutdown # "no" => pc'[c] = "err" /\ shutdown' = "cancelled"
        BY <2>3 DEF CallDelete
      <4> QED
        BY <4>1, <4>2 DEF SomeoneGaveUp, GaveUp
    <3>3. PICK h \in (SUBSET Hashes[j.t]) \ {{}} :
              pending_deletes' = Append(pending_deletes, [hashes |-> h, t |-> j.t])
      BY <2>3, <3>2 DEF CallDelete
    <3>4. pc'[c] = "waiting" /\ removing' = removing \cup {j.t}
      BY <2>3, <3>2 DEF CallDelete, Subscribed
    <3> QED
      BY <1>1, <2>2, <3>1, <3>3, <3>4 DEF Parks
  <2>4. CASE CallRequest(c, j) \/ CallSerialized(c, j) \/ CallScrape(c, j)
    <3>1. j.op # "delete_files"
      <4>1. j.op = "delete_files" => Class(j.op) \notin Classes
        BY OpFacts
      <4>2. CallRequest(c, j) \/ Class(j.op) \in Classes
        BY <2>4 DEF CallSerialized, CallScrape, Classes
      <4> QED
        BY <4>1, <4>2 DEF CallRequest
    <3>2. pending_deletes' = pending_deletes /\ removing' = removing
      BY <2>4 DEF CallRequest, CallSerialized, CallScrape, Post, ltVars, engineVars
    <3>3. \A d \in Calls : Deletes(d)' <=> Deletes(d)
      BY <2>2, <3>1 DEF Deletes, NoJob
    <3>4. \A d \in Calls : Deletes(d) => job'[d].t = job[d].t
      BY <2>2 DEF Deletes, NoJob
    <3> QED
      BY <3>2, <3>3, <3>4 DEF SameRemovals
  <2> QED
    BY <2>1, <2>3, <2>4
<1>2. CASE pc[c] # "idle"
  <2>1. job' = job
    BY <1>2 DEF CallStep, CallRequest, CallSerialized, CallScrape, CallDelete,
       AcquireLock, PostLocked, RecvLagged, RecvOther, RecvTrackers, RecvAnswer,
       WaitCancelled, Drain, WaitTimeout, CallDrop
  <2>2. removing' = removing
    BY <1>2 DEF CallStep, CallRequest, CallSerialized, CallScrape, CallDelete,
       AcquireLock, PostLocked, Post, RecvLagged, RecvOther, RecvTrackers, RecvAnswer,
       WaitCancelled, Drain, WaitTimeout, CallDrop, ltVars
  <2>3. pending_deletes' = pending_deletes
    <3>1. CASE AcquireLock(c) \/ PostLocked(c) \/ RecvLagged(c) \/ RecvOther(c)
                 \/ RecvTrackers(c) \/ Drain(c) \/ CallDrop(c)
      BY <3>1 DEF AcquireLock, PostLocked, RecvLagged, RecvOther, RecvTrackers, Drain,
         CallDrop, engineVars
    <3>2. CASE ~Deletes(c) /\ (RecvAnswer(c) \/ WaitCancelled(c) \/ WaitTimeout(c))
      BY <3>2 DEF RecvAnswer, WaitCancelled, WaitTimeout, Return, ForgetDelete, Deletes
    <3>3. CASE Deletes(c) /\ WaitCancelled(c)
      <4>1. pc'[c] = "err" /\ shutdown' = "cancelled"
        BY <3>3 DEF WaitCancelled, Return
      <4> QED
        BY <2>1, <3>3, <4>1 DEF SomeoneGaveUp, GaveUp, Deletes
    <3>4. CASE Deletes(c) /\ WaitTimeout(c)
      <4>1. ~Serialized(job[c].op)
        BY <3>4, OpFacts DEF Deletes
      <4>2. pc'[c] = "timeout"
        BY <3>4, <4>1 DEF WaitTimeout, AfterTimeout
      <4> QED
        BY <2>1, <3>4, <4>2 DEF SomeoneGaveUp, GaveUp, Deletes
    <3>5. CASE Deletes(c) /\ RecvAnswer(c)
      <4>1. /\ pc[c] = "waiting" /\ rx[c] # <<>> /\ rx[c] \in Seq(Event)
            /\ Answers(c, Head(rx[c])) /\ pending_deletes' = ForgetDelete(c)
        BY <3>5 DEF RecvAnswer, Return
      <4>2. PICK e \in Elems(rx[c]) : e = Head(rx[c])
        BY <4>1, ElemsFacts
      <4>3. e.t = job[c].t /\ e.op = "delete_files" /\ job[c].t \in Torrents
        BY <3>5, <4>1, <4>2 DEF Answers, Matcher, Deletes, CallInv, Job
      <4>4. ~Parked(job[c].t)
        BY <4>3, NamesAssumption DEF ShownInv
      <4> QED
        BY <4>1, <4>4 DEF ForgetDelete, Parked
    <3> QED
      BY <1>2, <3>1, <3>2, <3>3, <3>4, <3>5
         DEF CallStep, CallRequest, CallSerialized, CallScrape, CallDelete
  <2> QED
    BY <2>1, <2>2, <2>3 DEF SameRemovals, Deletes
<1> QED
  BY <1>1, <1>2

\* What the steps do to removals and reports.
Parking(t) ==
    /\ t \in session /\ ~Asked(t) /\ Asked(t)' /\ removing' = removing \cup {t}
    /\ \E h \in (SUBSET Hashes[t]) \ {{}} :
         pending_deletes' = Append(pending_deletes, [hashes |-> h, t |-> t])
    /\ UNCHANGED <<session, added, deleting, deleted, alerts>>

Leaving(t) ==
    /\ t \in removing /\ removing' = removing \ {t} /\ session' = session \ {t}
    /\ IF t \in session
       THEN /\ deleting' = Append(deleting, t)
            /\ \E e \in Event : e.op = "removed" /\ alerts' = Append(alerts, e)
       ELSE UNCHANGED <<deleting, alerts>>
    /\ UNCHANGED <<added, deleted, pending_deletes>>

Deleting(t) ==
    /\ deleting # <<>> /\ t = Head(deleting) /\ deleting' = Tail(deleting)
    /\ \E e \in Event : Reports(e, t) /\ alerts' = Append(alerts, e)
    /\ UNCHANGED <<session, added, removing, pending_deletes>>

Adding(t) ==
    /\ t \notin added /\ added' = added \cup {t} /\ session' = session \cup {t}
    /\ \A u \in session : Hashes[u] \cap Hashes[t] = {}
    /\ UNCHANGED <<removing, deleting, deleted, alerts, pending_deletes>>

Elsewhere ==
    /\ alerts' = alerts \/ \E e \in Event : e.op # "delete_files"
                                              /\ alerts' = Append(alerts, e)
    /\ UNCHANGED <<session, added, removing, deleting, deleted, pending_deletes>>

LEMMA LtKinds ==
    ASSUME TypeOK, GenuineInv, LtStep
    PROVE  (\E t \in Torrents : Leaving(t) \/ Deleting(t) \/ Adding(t)) \/ Elsewhere
<1> USE DEF TypeOK
<1>1. ASSUME NEW p \in pending, LtAnswer(p) PROVE Elsewhere
  <2>1. p[1] \in Calls /\ p[2] \in Job /\ p[2].op # "delete_files"
    BY DEF GenuineInv, Sent
  <2>2. \A out \in {"ok", "failed"} :
          LET e == Alert(p[2].t, p[2].op, out, p[2].key, p[1])
          IN e \in Event /\ e.op # "delete_files"
    BY <2>1, NewEvents DEF Job, Alert
  <2> QED
    BY <1>1, <2>2 DEF LtAnswer, Elsewhere, engineVars
<1>2. ASSUME NEW t \in Torrents, LtNoise(t) PROVE Elsewhere
  <2>1. \A op \in {"other", "scrape_tracker"}, k \in Trackers \cup {NoKey} :
          LET e == Alert(t, op, "ok", k, NoCall)
          IN e \in Event /\ e.op # "delete_files"
    BY NewEvents, OpFacts, TrackersAssumption DEF Alert
  <2> QED
    BY <1>2, <2>1 DEF LtNoise, Elsewhere, engineVars
<1>3. ASSUME NEW t \in Torrents, LtRemove(t) PROVE Leaving(t)
  <2>1. LET e == Alert(t, "removed", "ok", NoKey, NoCall)
        IN e \in Event /\ e.op = "removed"
    BY NewEvents DEF Alert
  <2> QED
    BY <1>3, <2>1 DEF LtRemove, Leaving, engineVars
<1>4. ASSUME NEW t \in Torrents, LtExpire(t) PROVE Elsewhere
  BY <1>4 DEF LtExpire, Elsewhere, engineVars
<1>5. ASSUME NEW t \in Torrents, LtAdd(t) PROVE Adding(t)
  BY <1>5 DEF LtAdd, Adding
<1>6. ASSUME LtDelete PROVE \E t \in Torrents : Deleting(t)
  <2>1. deleting # <<>> /\ Head(deleting) \in Torrents
    BY <1>6, SeqFacts DEF LtDelete
  <2>2. \A out \in {"ok", "failed"} :
          LET e == Alert(Head(deleting), "delete_files", out, NoKey, NoCall)
          IN e \in Event /\ Reports(e, Head(deleting))
    BY <2>1, NewEvents, OpFacts DEF Alert, Reports
  <2>3. Deleting(Head(deleting))
    BY <1>6, <2>1, <2>2 DEF LtDelete, Deleting, engineVars
  <2> QED
    BY <2>1, <2>3
<1> QED
  BY <1>1, <1>2, <1>3, <1>4, <1>5, <1>6 DEF LtStep

LEMMA RemovalSteps ==
    ASSUME TypeOK, CallInv, SessionInv, GenuineInv, AskedInv, ShownInv,
           OneRemoval', ~SomeoneGaveUp', Next
    PROVE  /\ \/ \E t \in Torrents : Parking(t) \/ Leaving(t) \/ Deleting(t) \/ Adding(t)
              \/ Elsewhere \/ Pump
           /\ \A t : Asked(t) => Asked(t)'
           /\ \A c \in Calls : Deletes(c)' => \/ Deletes(c) /\ job'[c].t = job[c].t
                                              \/ job'[c].t \in session
           /\ added \subseteq added'
<1>1. ASSUME NEW c \in Calls, CallStep(c), Parks(c)
      PROVE  /\ \E t \in Torrents : Parking(t)
             /\ \A t : Asked(t) => Asked(t)'
             /\ \A d \in Calls : Deletes(d)' => \/ Deletes(d) /\ job'[d].t = job[d].t
                                                \/ job'[d].t \in session
             /\ added \subseteq added'
  <2>1. PICK j \in Job : \E h \in (SUBSET Hashes[j.t]) \ {{}} :
          /\ pc[c] = "idle" /\ j.op = "delete_files" /\ j.t \in handles
          /\ job' = [job EXCEPT ![c] = j] /\ pc'[c] = "waiting"
          /\ pending_deletes' = Append(pending_deletes, [hashes |-> h, t |-> j.t])
          /\ removing' = removing \cup {j.t}
    BY <1>1 DEF Parks
  <2>2. /\ job'[c] = j /\ Deletes(c)' /\ ~Deletes(c) /\ j.t \in Torrents
        /\ \A d \in Calls : d # c => job'[d] = job[d]
    BY <2>1 DEF AskedInv, Deletes, NoJob, TypeOK, Job
  <2>3. ~Asked(j.t)
    BY <2>1, <2>2 DEF Asked, Deletes, OneRemoval
  <2>4. j.t \in session
    BY <2>1, <2>2, <2>3 DEF AskedInv, Left, SessionInv
  <2>5. UNCHANGED <<session, added, deleting, deleted, alerts>>
    BY <1>1, OneCall
  <2>6. Asked(j.t)' /\ \A t : Asked(t) => Asked(t)'
    BY <2>2 DEF Asked, Deletes
  <2>7. Parking(j.t)
    BY <2>1, <2>3, <2>4, <2>5, <2>6 DEF Parking
  <2>8. \A d \in Calls : Deletes(d)' => \/ Deletes(d) /\ job'[d].t = job[d].t
                                        \/ job'[d].t \in session
    BY <2>2, <2>4 DEF Deletes
  <2> QED
    BY <2>2, <2>5, <2>6, <2>7, <2>8
<1>2. ASSUME NEW c \in Calls, CallStep(c), SameRemovals
      PROVE  /\ Elsewhere
             /\ \A t : Asked(t) => Asked(t)'
             /\ \A d \in Calls : Deletes(d)' => Deletes(d) /\ job'[d].t = job[d].t
             /\ added \subseteq added'
  <2>1. UNCHANGED <<session, added, deleting, deleted, alerts>>
    BY <1>2, OneCall
  <2> QED
    BY <1>2, <2>1 DEF SameRemovals, Elsewhere, Asked
<1>3. ASSUME LtStep \/ Pump \/ ShutdownCancel
      PROVE  /\ \A t : Asked(t) => Asked(t)'
             /\ \A d \in Calls : Deletes(d)' => Deletes(d) /\ job'[d].t = job[d].t
             /\ added \subseteq added'
  <2>1. job' = job
    BY <1>3, OtherSteps DEF callVars
  <2>2. added \subseteq added'
    BY <1>3, LtAlerts, OtherSteps DEF ltVars
  <2> QED
    BY <2>1, <2>2 DEF Asked, Deletes
<1>4. ShutdownCancel => Elsewhere
  BY OtherSteps DEF Elsewhere, ltVars
<1>5. CASE \E c \in Calls : CallStep(c)
  <2>1. PICK c \in Calls : CallStep(c)
    BY <1>5
  <2>2. Parks(c) \/ SameRemovals
    BY <2>1, CallParks
  <2> QED
    BY <1>1, <1>2, <2>1, <2>2
<1> QED
  BY <1>3, <1>4, <1>5, LtKinds, Steps

\* The entries after each step.
LEMMA ParkedAfter ==
    ASSUME TypeOK, GenuineInv
    PROVE  /\ \A t \in Torrents : Parking(t) =>
                \A u : Parked(u)' <=> Parked(u) \/ u = t
           /\ \A t \in Torrents : Leaving(t) \/ Deleting(t) \/ Adding(t) =>
                \A u : Parked(u)' <=> Parked(u)
           /\ Elsewhere => \A u : Parked(u)' <=> Parked(u)
           /\ Pump => \A u : Parked(u)' => Parked(u)
<1>1. ASSUME NEW t \in Torrents, Parking(t), NEW u
      PROVE  Parked(u)' <=> Parked(u) \/ u = t
  <2>1. PICK h \in (SUBSET Hashes[t]) \ {{}} :
          pending_deletes' = Append(pending_deletes, [hashes |-> h, t |-> t])
    BY <1>1 DEF Parking
  <2> DEFINE x == [hashes |-> h, t |-> t]
             n == Len(pending_deletes)
  <2>2. x \in DeleteEntry /\ pending_deletes \in Seq(DeleteEntry) /\ x.t = t
    BY DEF DeleteEntry, TypeOK
  <2>3. pending_deletes' = Append(pending_deletes, x)
    BY <2>1
  <2> HIDE DEF x
  <2>4. /\ n \in Nat /\ Len(pending_deletes') = n + 1 /\ pending_deletes'[n + 1] = x
        /\ \A i \in 1 .. n : pending_deletes'[i] = pending_deletes[i]
    BY <2>2, <2>3, SeqFacts
  <2>5. n + 1 \in 1 .. n + 1 /\ \A i \in 1 .. n + 1 : i \in 1 .. n \/ i = n + 1
    BY <2>4
  <2>6. \A i \in 1 .. n : i \in 1 .. n + 1
    BY <2>4
  <2> QED
    BY <2>2, <2>4, <2>5, <2>6 DEF Parked
<1>2. \A t \in Torrents : Leaving(t) \/ Deleting(t) \/ Adding(t) =>
        \A u : Parked(u)' <=> Parked(u)
  BY DEF Leaving, Deleting, Adding, Parked
<1>3. Elsewhere => \A u : Parked(u)' <=> Parked(u)
  BY DEF Elsewhere, Parked
<1>4. ASSUME Pump, NEW u, Parked(u)' PROVE Parked(u)
  BY <1>4, PumpStep DEF Parked
<1> QED
  BY <1>1, <1>2, <1>3, <1>4

\* The reports after each step of libtorrent.
LEMMA ReportedAfter ==
    ASSUME TypeOK
    PROVE  /\ \A t \in Torrents : Deleting(t) =>
                \A u : ReportedIn(alerts', u) <=> ReportedIn(alerts, u) \/ u = t
           /\ \A t \in Torrents : Parking(t) \/ Leaving(t) \/ Adding(t) =>
                \A u : ReportedIn(alerts', u) <=> ReportedIn(alerts, u)
           /\ Elsewhere => \A u : ReportedIn(alerts', u) <=> ReportedIn(alerts, u)
           /\ Pump => \A u : ReportedIn(alerts, u) <=>
                               ReportedIn(alerts', u) \/ Reports(Head(alerts), u)
<1>0. alerts \in Seq(Event)
  BY DEF TypeOK
<1>1. ASSUME NEW t \in Torrents, Deleting(t), NEW u
      PROVE  ReportedIn(alerts', u) <=> ReportedIn(alerts, u) \/ u = t
  <2>1. PICK e \in Event : Reports(e, t) /\ alerts' = Append(alerts, e)
    BY <1>1 DEF Deleting
  <2> QED
    BY <1>0, <2>1, ReportsAppended DEF Reports
<1>2. ASSUME NEW e \in Event, e.op # "delete_files", alerts' = Append(alerts, e), NEW u
      PROVE  ReportedIn(alerts', u) <=> ReportedIn(alerts, u)
  BY <1>0, <1>2, ReportsAppended DEF Reports
<1>3. ASSUME NEW t \in Torrents, Leaving(t), NEW u
      PROVE  ReportedIn(alerts', u) <=> ReportedIn(alerts, u)
  BY <1>2, <1>3 DEF Leaving
<1>4. ASSUME NEW t \in Torrents, Parking(t) \/ Adding(t), NEW u
      PROVE  ReportedIn(alerts', u) <=> ReportedIn(alerts, u)
  <2>1. alerts' = alerts
    BY <1>4 DEF Parking, Adding
  <2> QED
    BY <2>1
<1>5. ASSUME Elsewhere, NEW u PROVE ReportedIn(alerts', u) <=> ReportedIn(alerts, u)
  BY <1>2, <1>5 DEF Elsewhere
<1>6. ASSUME Pump, NEW u
      PROVE  ReportedIn(alerts, u) <=> ReportedIn(alerts', u) \/ Reports(Head(alerts), u)
  <2>1. alerts # <<>> /\ alerts' = Tail(alerts)
    BY <1>6 DEF Pump, PumpPublish, PumpRemoved, PumpDeleted
  <2> QED
    BY <1>0, <2>1, ReportsTaken
<1> QED
  BY <1>1, <1>3, <1>4, <1>5, <1>6

LEMMA AskedInvStep ==
    ASSUME TypeOK, CallInv, SessionInv, GenuineInv, AskedInv, ShownInv,
           OneRemoval', ~SomeoneGaveUp', Next
    PROVE  AskedInv'
<1> DEFINE Out(t) == t \in removing \/ Left(t) \/ Parked(t)
           Disjoint == \A t, u \in session : t # u => Hashes[t] \cap Hashes[u] = {}
<1>1. ASSUME NEW c \in Calls, pc'[c] = "idle" PROVE job'[c] = NoJob
  <2>1. ~CallStep(c)
    BY <1>1, WayOfCall
  <2>2. pc'[c] = pc[c] /\ job'[c] = job[c]
    BY <2>1, Steps, OneCall, OtherSteps DEF callVars
  <2> QED
    BY <1>1, <2>2 DEF AskedInv
<1>2. ASSUME NEW c \in Calls, Deletes(c)' PROVE job'[c].t \in added'
  BY <1>2, RemovalSteps DEF AskedInv, SessionInv
<1>3. (\A t \in Torrents : Out(t) => Asked(t)) /\ Disjoint
  BY DEF AskedInv
<1>4. (\A t \in Torrents : Out(t)' => Asked(t)') /\ Disjoint'
  <2>1. ASSUME NEW u \in Torrents, Parking(u) PROVE <1>4
    BY <1>3, <2>1, RemovalSteps, ParkedAfter DEF Parking, Left
  <2>2. ASSUME NEW u \in Torrents, Leaving(u) PROVE <1>4
    BY <1>3, <2>2, RemovalSteps, ParkedAfter DEF Leaving, Left
  <2>3. ASSUME NEW u \in Torrents, Deleting(u) PROVE <1>4
    BY <1>3, <2>3, RemovalSteps, ParkedAfter DEF Deleting, Left
  <2>4. ASSUME NEW u \in Torrents, Adding(u) PROVE <1>4
    BY <1>3, <2>4, RemovalSteps, ParkedAfter DEF Adding, Left
  <2>5. CASE Elsewhere
    BY <1>3, <2>5, RemovalSteps, ParkedAfter DEF Elsewhere, Left
  <2>6. CASE Pump
    <3>1. UNCHANGED <<session, added, removing>>
      BY <2>6, OtherSteps
    <3> QED
      BY <1>3, <2>6, <3>1, RemovalSteps, ParkedAfter DEF Left
  <2> QED
    BY <2>1, <2>2, <2>3, <2>4, <2>5, <2>6, RemovalSteps
<1> QED
  BY <1>1, <1>2, <1>4 DEF AskedInv

LEMMA PlaceInvStep ==
    ASSUME TypeOK, CallInv, SessionInv, GenuineInv, AskedInv, PlaceInv, ShownInv,
           OneRemoval', ~SomeoneGaveUp', Next
    PROVE  PlaceInv'
<1> DEFINE Queued == \A t \in Elems(deleting) : Left(t) /\ ~ReportedIn(alerts, t)
           Reported == \A t \in Torrents : ReportedIn(alerts, t) => Left(t)
<1>0. /\ alerts \in Seq(Event) /\ deleting \in Seq(Torrents)
      /\ Queued /\ Reported /\ ReportedOnce(alerts) /\ QueuedOnce(deleting)
  BY DEF TypeOK, PlaceInv
<1>1. ASSUME NEW e \in Event, e.op # "delete_files", alerts' = Append(alerts, e)
      PROVE  ReportedOnce(alerts)'
  BY <1>0, <1>1, ReportsAppended
<1>2. ASSUME NEW u \in Torrents, Parking(u) PROVE PlaceInv'
  <2>1. UNCHANGED <<alerts, deleting, session, added>>
    BY <1>2 DEF Parking
  <2> QED
    BY <2>1 DEF PlaceInv, Left
<1>3. ASSUME NEW u \in Torrents, Leaving(u) PROVE PlaceInv'
  <2>1. added' = added /\ session' = session \ {u} /\ session \subseteq added
    BY <1>3 DEF Leaving, SessionInv
  <2>2. \A t : ReportedIn(alerts', t) <=> ReportedIn(alerts, t)
    BY <1>3, ReportedAfter
  <2>3. CASE u \in session
    <3>1. ~ReportedIn(alerts, u) /\ u \notin Elems(deleting)
      BY <1>0, <2>3 DEF Left
    <3>2. deleting' = Append(deleting, u)
      BY <1>3, <2>3 DEF Leaving
    <3>3. Elems(deleting') = Elems(deleting) \cup {u} /\ QueuedOnce(deleting')
      BY <1>0, <3>1, <3>2, ElemsFacts, QueueAppended
    <3>4. ReportedOnce(alerts)'
      BY <1>1, <1>3, <2>3 DEF Leaving
    <3>5. Left(u)' /\ \A t : Left(t) => Left(t)'
      BY <2>1, <2>3 DEF Left
    <3>6. Queued' /\ Reported'
      BY <1>0, <2>2, <3>1, <3>3, <3>5
    <3> QED
      BY <3>3, <3>4, <3>6 DEF PlaceInv
  <2>4. CASE u \notin session
    <3>1. UNCHANGED <<alerts, deleting>>
      BY <1>3, <2>4 DEF Leaving
    <3> QED
      BY <2>1, <2>4, <3>1 DEF PlaceInv, Left
  <2> QED
    BY <2>3, <2>4
<1>4. ASSUME NEW u \in Torrents, Deleting(u) PROVE PlaceInv'
  <2>1. /\ UNCHANGED <<session, added>> /\ deleting # <<>>
        /\ u = Head(deleting) /\ deleting' = Tail(deleting)
    BY <1>4 DEF Deleting
  <2>2. u \in Elems(deleting) /\ Elems(deleting') \subseteq Elems(deleting)
        /\ QueuedOnce(deleting') /\ u \notin Elems(deleting')
    BY <1>0, <2>1, ElemsFacts, QueueTaken
  <2>3. Left(u) /\ ~ReportedIn(alerts, u)
    BY <1>0, <2>2
  <2>4. PICK e \in Event : Reports(e, u) /\ alerts' = Append(alerts, e)
    BY <1>4 DEF Deleting
  <2>5. ReportedOnce(alerts')
    BY <1>0, <2>3, <2>4, ReportsAppended DEF Reports
  <2>6. \A t : ReportedIn(alerts', t) <=> ReportedIn(alerts, t) \/ t = u
    BY <1>4, ReportedAfter
  <2>7. \A t : Left(t) <=> Left(t)'
    BY <2>1 DEF Left
  <2>8. Queued' /\ Reported'
    BY <1>0, <2>2, <2>3, <2>6, <2>7
  <2> QED
    BY <2>2, <2>5, <2>8 DEF PlaceInv
<1>5. ASSUME NEW u \in Torrents, Adding(u) PROVE PlaceInv'
  <2>1. UNCHANGED <<alerts, deleting>> /\ \A t : Left(t) => Left(t)'
    BY <1>5 DEF Adding, Left
  <2> QED
    BY <2>1 DEF PlaceInv
<1>6. CASE Elsewhere
  <2>1. UNCHANGED <<session, added, deleting>> /\ \A t : Left(t) <=> Left(t)'
    BY <1>6 DEF Elsewhere, Left
  <2>2. \A t : ReportedIn(alerts', t) <=> ReportedIn(alerts, t)
    BY <1>6, ReportedAfter
  <2>3. ReportedOnce(alerts')
    BY <1>0, <1>1, <1>6 DEF Elsewhere
  <2>4. Queued' /\ Reported'
    BY <1>0, <2>1, <2>2
  <2> QED
    BY <1>0, <2>1, <2>3, <2>4 DEF PlaceInv
<1>7. CASE Pump
  <2>1. UNCHANGED <<session, added, deleting>> /\ alerts # <<>> /\ alerts' = Tail(alerts)
    BY <1>7, OtherSteps, PumpStep
  <2>2. \A t : ReportedIn(alerts', t) => ReportedIn(alerts, t)
    BY <1>7, ReportedAfter
  <2>3. ReportedOnce(alerts')
    BY <1>0, <2>1, ReportsTaken
  <2>4. \A t : Left(t) <=> Left(t)'
    BY <2>1 DEF Left
  <2>5. Queued' /\ Reported'
    BY <1>0, <2>1, <2>2, <2>4
  <2> QED
    BY <1>0, <2>1, <2>3, <2>5 DEF PlaceInv
<1> QED
  BY <1>2, <1>3, <1>4, <1>5, <1>6, <1>7, RemovalSteps

\* swap_remove drops the entry i and keeps the others.
LEMMA WithoutKeeps ==
    ASSUME NEW S, NEW s \in Seq(S), NEW i \in 1 .. Len(s)
    PROVE  /\ \A j \in 1 .. Len(Without(s, i)) :
                \E k \in 1 .. Len(s) : k # i /\ Without(s, i)[j] = s[k]
           /\ \A k \in 1 .. Len(s) : k # i =>
                \E j \in 1 .. Len(Without(s, i)) : Without(s, i)[j] = s[k]
<1> DEFINE n == Len(s) - 1
           x == Without(s, i)
<1>1. Len(s) \in Nat /\ n \in Nat /\ Len(s) = n + 1 /\ Len(x) = n
  BY SeqFacts, WithoutFacts
<1>2. \A j \in 1 .. n : x[j] = IF j = i THEN s[n + 1] ELSE s[j]
  BY <1>1 DEF Without
<1> HIDE DEF x, n
<1>3. ASSUME NEW j \in 1 .. n PROVE \E k \in 1 .. n + 1 : k # i /\ x[j] = s[k]
  <2>1. j \in 1 .. n + 1 /\ n + 1 \in 1 .. n + 1 /\ n + 1 # j
    BY <1>1
  <2> QED
    BY <1>2, <2>1
<1>4. ASSUME NEW k \in 1 .. n + 1, k # i PROVE \E j \in 1 .. n : x[j] = s[k]
  <2>1. CASE k = n + 1
    <3>1. i \in 1 .. n
      BY <1>1, <1>4, <2>1
    <3> QED
      BY <1>2, <2>1, <3>1
  <2>2. CASE k # n + 1
    <3>1. k \in 1 .. n
      BY <1>1, <1>4, <2>2
    <3> QED
      BY <1>2, <1>4, <3>1
  <2> QED
    BY <2>1, <2>2
<1> QED
  BY <1>1, <1>3, <1>4 DEF x

\* What the pump does with the report of a deletion: it takes the entry of
\* that torrent out and publishes the answer under its uuid.
Reporting(t) ==
    /\ alerts # <<>> /\ Reports(Head(alerts), t)
    /\ \A u : Parked(u)' <=> Parked(u) /\ u # t
    /\ Len(pending_deletes') <= 1
    /\ \E e \in Event : /\ publish(e) /\ Reports(e, t) /\ e.out = Head(alerts).out

LEMMA PumpKinds ==
    ASSUME TypeOK, GenuineInv, ContentInv, ParkedInv, OrderInv, TwoParked, Pump
    PROVE  \/ \E t \in Torrents : Reporting(t)
           \/ /\ Head(alerts).op # "delete_files" /\ pending_deletes' = pending_deletes
              /\ \E e \in Event : e.op # "delete_files" /\ publish(e)
<1> DEFINE a == Head(alerts)
<1>1. /\ alerts # <<>> /\ a \in Event /\ a.t \in Torrents
      /\ pending_deletes \in Seq(DeleteEntry)
  BY PumpStep DEF GenuineInv, TypeOK, DeleteEntry
<1>2. CASE a.op # "delete_files"
  <2>1. pending_deletes' = pending_deletes
    BY <1>2 DEF Pump, PumpPublish, PumpRemoved, PumpDeleted, engineVars
  <2>2. \E e \in Event : e.op # "delete_files" /\ publish(e)
    BY <1>2, PumpStep DEF Shown
  <2> QED
    BY <1>2, <2>1, <2>2
<1>3. CASE a.op = "delete_files"
  <2> DEFINE t == a.t
             i == FirstOverlap(Hashes[t])
  <2>1. Reports(a, t)
    BY <1>3 DEF Reports
  <2>2. i \in 1 .. Len(pending_deletes) /\ pending_deletes[i].t = t
    BY <1>1, <2>1, Attributed
  <2>3. i # 0
    BY <2>2
  <2>4. /\ publish([a EXCEPT !.t = pending_deletes[i].t])
        /\ pending_deletes' = Without(pending_deletes, i)
    BY <1>3, <2>3 DEF Pump, PumpPublish, PumpRemoved, PumpDeleted
  <2> DEFINE e == [a EXCEPT !.t = pending_deletes[i].t]
  <2>5. e \in Event /\ e.t = t /\ e.op = a.op /\ e.out = a.out
    BY <1>1, <2>2, NewEvents
  <2>6. publish(e)
    BY <2>4
  <2> HIDE DEF e, i, t
  <2>7. Reports(e, t)
    BY <1>3, <2>5 DEF Reports
  <2>8. Len(pending_deletes') <= 1
    <3>1. Len(pending_deletes') = Len(pending_deletes) - 1
      BY <1>1, <2>2, <2>4, WithoutFacts
    <3>2. Len(pending_deletes) \in Nat /\ Len(pending_deletes) <= 2
      BY <1>1, SeqFacts DEF TwoParked
    <3> QED
      BY <3>1, <3>2
  <2>9. \A k \in 1 .. Len(pending_deletes) : k # i => pending_deletes[k].t # t
    BY <2>2 DEF ParkedInv
  <2>10. /\ \A j \in 1 .. Len(pending_deletes') : \E k \in 1 .. Len(pending_deletes) :
               k # i /\ pending_deletes'[j] = pending_deletes[k]
         /\ \A k \in 1 .. Len(pending_deletes) : k # i =>
               \E j \in 1 .. Len(pending_deletes') :
                   pending_deletes'[j] = pending_deletes[k]
    BY <1>1, <2>2, <2>4, WithoutKeeps
  <2>11. ASSUME NEW u PROVE Parked(u)' <=> Parked(u) /\ u # t
    <3>1. Parked(u)' => Parked(u) /\ u # t
      BY <2>9, <2>10 DEF Parked
    <3>2. Parked(u) /\ u # t => Parked(u)'
      BY <2>2, <2>10 DEF Parked
    <3> QED
      BY <3>1, <3>2
  <2>12. Reporting(t)
    BY <1>1, <2>1, <2>5, <2>6, <2>7, <2>8, <2>11 DEF Reporting
  <2> QED
    BY <1>1, <2>12 DEF t
<1> QED
  BY <1>2, <1>3

LEMMA ParkedInvStep ==
    ASSUME TypeOK, CallInv, SessionInv, GenuineInv, ContentInv, OwnParts, TwoParked,
           OneRemoval', ~SomeoneGaveUp', Next
    PROVE  ParkedInv'
<1> DEFINE Apart == \A i, k \in 1 .. Len(pending_deletes) :
                        pending_deletes[i].t = pending_deletes[k].t => i = k
           Known == \A i \in 1 .. Len(pending_deletes) : pending_deletes[i].hashes # {}
           Due(t) == t \in removing \cap session \/ t \in Elems(deleting)
                       \/ ReportedIn(alerts, t)
           Coming(t) == t \in session \/ t \in Elems(deleting) \/ ReportedIn(alerts, t)
           Entries == \A t \in Torrents : (Due(t) => Parked(t)) /\ (Parked(t) => Coming(t))
<1>0. /\ Apart /\ Known /\ Entries
      /\ AskedInv /\ PlaceInv /\ ParkedInv /\ OrderInv /\ ShownInv
      /\ pending_deletes \in Seq(DeleteEntry) /\ deleting \in Seq(Torrents)
      /\ session \subseteq added
  BY DEF OwnParts, ParkedInv, TypeOK, DeleteEntry, SessionInv
<1>1. ASSUME NEW u \in Torrents, Parking(u) PROVE ParkedInv'
  <2>1. PICK h : /\ h \subseteq Hashes[u] /\ h # {}
                 /\ pending_deletes' = Append(pending_deletes, [hashes |-> h, t |-> u])
    BY <1>1 DEF Parking
  <2> DEFINE x == [hashes |-> h, t |-> u]
             n == Len(pending_deletes)
  <2>2. x \in DeleteEntry /\ x.t = u /\ x.hashes # {}
    <3>1. h \in SUBSET UNION {Hashes[t] : t \in Torrents}
      BY <2>1
    <3> QED
      BY <2>1, <3>1 DEF DeleteEntry
  <2>3. pending_deletes' = Append(pending_deletes, x)
    BY <2>1
  <2> HIDE DEF x
  <2>4. /\ n \in Nat /\ Len(pending_deletes') = n + 1 /\ pending_deletes'[n + 1] = x
        /\ \A i \in 1 .. n : pending_deletes'[i] = pending_deletes[i]
    BY <1>0, <2>2, <2>3, SeqFacts
  <2>5. \A i \in 1 .. n + 1 : i \in 1 .. n \/ i = n + 1
    BY <2>4
  <2>6. ~Parked(u)
    BY <1>0, <1>1 DEF Parking, AskedInv
  <2>7. Apart'
    BY <1>0, <2>2, <2>4, <2>5, <2>6 DEF Parked
  <2>8. Known'
    BY <1>0, <2>2, <2>4, <2>5
  <2>9. Entries'
    BY <1>0, <1>1, ParkedAfter DEF Parking
  <2> QED
    BY <2>7, <2>8, <2>9 DEF ParkedInv
<1>2. ASSUME NEW u \in Torrents, Leaving(u) PROVE ParkedInv'
  <2>1. /\ pending_deletes' = pending_deletes /\ session' = session \ {u}
        /\ u \in removing /\ removing' = removing \ {u}
    BY <1>2 DEF Leaving
  <2>2. \A t : (Parked(t)' <=> Parked(t))
                 /\ (ReportedIn(alerts', t) <=> ReportedIn(alerts, t))
    BY <1>2, ParkedAfter, ReportedAfter
  <2>3. Elems(deleting') = IF u \in session THEN Elems(deleting) \cup {u}
                                            ELSE Elems(deleting)
    BY <1>0, <1>2, ElemsFacts DEF Leaving
  <2>4. Entries'
    BY <1>0, <2>1, <2>2, <2>3
  <2> QED
    BY <1>0, <2>1, <2>4 DEF ParkedInv
<1>3. ASSUME NEW u \in Torrents, Deleting(u) PROVE ParkedInv'
  <2>1. /\ pending_deletes' = pending_deletes /\ UNCHANGED <<session, removing>>
        /\ deleting # <<>> /\ u = Head(deleting) /\ deleting' = Tail(deleting)
    BY <1>3 DEF Deleting
  <2>2. \A t : (Parked(t)' <=> Parked(t))
                 /\ (ReportedIn(alerts', t) <=> ReportedIn(alerts, t) \/ t = u)
    BY <1>3, ParkedAfter, ReportedAfter
  <2>3. /\ u \in Elems(deleting) /\ Elems(deleting') \subseteq Elems(deleting)
        /\ \A t \in Elems(deleting) : t = u \/ t \in Elems(deleting')
    BY <1>0, <2>1, ElemsFacts
  <2>4. Entries'
    BY <1>0, <2>1, <2>2, <2>3
  <2> QED
    BY <1>0, <2>1, <2>4 DEF ParkedInv
<1>4. ASSUME NEW u \in Torrents, Adding(u) PROVE ParkedInv'
  <2>1. UNCHANGED <<pending_deletes, removing, deleting, alerts>>
        /\ session' = session \cup {u} /\ u \notin added
    BY <1>4 DEF Adding
  <2>2. u \notin removing
    BY <1>0, <2>1 DEF AskedInv, Asked
  <2>3. \A t : Parked(t)' <=> Parked(t)
    BY <1>4, ParkedAfter
  <2>4. Entries'
    BY <1>0, <2>1, <2>2, <2>3
  <2> QED
    BY <1>0, <2>1, <2>4 DEF ParkedInv
<1>5. CASE Elsewhere
  <2>1. UNCHANGED <<pending_deletes, session, removing, deleting>>
    BY <1>5 DEF Elsewhere
  <2>2. \A t : (Parked(t)' <=> Parked(t))
                 /\ (ReportedIn(alerts', t) <=> ReportedIn(alerts, t))
    BY <1>5, ParkedAfter, ReportedAfter
  <2>3. Entries'
    BY <1>0, <2>1, <2>2
  <2> QED
    BY <1>0, <2>1, <2>3 DEF ParkedInv
<1>6. CASE Pump
  <2>1. UNCHANGED <<session, removing, deleting>>
    BY <1>6, OtherSteps
  <2>2. \A u : ReportedIn(alerts, u) <=>
                 ReportedIn(alerts', u) \/ Reports(Head(alerts), u)
    BY <1>6, ReportedAfter
  <2>3. ASSUME NEW t \in Torrents, Reporting(t) PROVE ParkedInv'
    <3>1. /\ alerts # <<>> /\ Reports(Head(alerts), t) /\ alerts \in Seq(Event)
          /\ \A u : Parked(u)' <=> Parked(u) /\ u # t
      BY <2>3 DEF Reporting, TypeOK
    <3>2. ReportedIn(alerts, t) /\ ~ReportedIn(alerts', t)
      <4>1. alerts' = Tail(alerts) /\ ReportedOnce(alerts)
        BY <1>0, <1>6, PumpStep DEF PlaceInv
      <4> QED
        BY <2>2, <3>1, <4>1, ReportsTaken
    <3>3. t \notin session /\ t \notin Elems(deleting)
      BY <1>0, <3>2 DEF PlaceInv, Left
    <3>4. \A u : u # t => (ReportedIn(alerts', u) <=> ReportedIn(alerts, u))
      BY <2>2, <3>1 DEF Reports
    <3>5. Entries'
      BY <1>0, <2>1, <3>1, <3>2, <3>3, <3>4
    <3>6. Len(pending_deletes') \in Nat /\ Len(pending_deletes') <= 1
      BY <1>6, <2>3, PumpStep, SeqFacts DEF Reporting
    <3>7. Apart'
      BY <3>6
    <3>8. Known'
      BY <1>0, <1>6, PumpStep
    <3> QED
      BY <3>5, <3>7, <3>8 DEF ParkedInv
  <2>4. CASE Head(alerts).op # "delete_files" /\ pending_deletes' = pending_deletes
    <3>1. \A u : ReportedIn(alerts', u) <=> ReportedIn(alerts, u)
      BY <2>2, <2>4 DEF Reports
    <3>2. \A u : Parked(u)' <=> Parked(u)
      BY <2>4 DEF Parked
    <3>3. Entries'
      BY <1>0, <2>1, <3>1, <3>2
    <3> QED
      BY <1>0, <2>4, <3>3 DEF ParkedInv
  <2> QED
    BY <1>0, <1>6, <2>3, <2>4, PumpKinds
<1> QED
  BY <1>0, <1>1, <1>2, <1>3, <1>4, <1>5, <1>6, RemovalSteps

\* Entries of one content stay in the order of their reports.
LEMMA OrderInvStep ==
    ASSUME TypeOK, CallInv, SessionInv, GenuineInv, ContentInv, OwnParts, TwoParked,
           OneRemoval', ~SomeoneGaveUp', Next
    PROVE  OrderInv'
<1> DEFINE a == pending_deletes[1].t
           b == pending_deletes[2].t
<1>0. /\ AskedInv /\ PlaceInv /\ ParkedInv /\ OrderInv /\ ShownInv
      /\ pending_deletes \in Seq(DeleteEntry) /\ Len(pending_deletes) \in Nat
      /\ deleting \in Seq(Torrents) /\ alerts \in Seq(Event)
      /\ \A i \in 1 .. Len(pending_deletes) : pending_deletes[i].t \in Torrents
  <2>1. pending_deletes \in Seq(DeleteEntry)
    BY DEF TypeOK, DeleteEntry
  <2>2. Len(pending_deletes) \in Nat
        /\ \A i \in 1 .. Len(pending_deletes) : pending_deletes[i] \in DeleteEntry
    BY <2>1, SeqFacts
  <2>3. \A i \in 1 .. Len(pending_deletes) : pending_deletes[i].t \in Torrents
    BY <2>2 DEF DeleteEntry
  <2> QED
    BY <2>1, <2>2, <2>3 DEF OwnParts, TypeOK
<1>1. ASSUME NEW u \in Torrents, Parking(u) PROVE OrderInv'
  <2>1. PICK h : /\ h \subseteq Hashes[u] /\ h # {}
                 /\ pending_deletes' = Append(pending_deletes, [hashes |-> h, t |-> u])
    BY <1>1 DEF Parking
  <2> DEFINE x == [hashes |-> h, t |-> u]
  <2>2. x \in DeleteEntry /\ x.t = u
    <3>1. h \in SUBSET UNION {Hashes[t] : t \in Torrents}
      BY <2>1
    <3> QED
      BY <3>1 DEF DeleteEntry
  <2>3. pending_deletes' = Append(pending_deletes, x)
    BY <2>1
  <2> HIDE DEF x
  <2>4. /\ Len(pending_deletes') = Len(pending_deletes) + 1
        /\ pending_deletes'[Len(pending_deletes) + 1] = x
        /\ \A i \in 1 .. Len(pending_deletes) : pending_deletes'[i] = pending_deletes[i]
    BY <1>0, <2>2, <2>3, SeqFacts
  <2> SUFFICES ASSUME Len(pending_deletes') = 2, Hashes[a'] \cap Hashes[b'] # {}
               PROVE  InOrder(a, b)'
    BY DEF OrderInv
  <2>5. Len(pending_deletes) = 1
    <3> DEFINE n == Len(pending_deletes)
               m == Len(pending_deletes')
    <3>1. n \in Nat /\ m = n + 1 /\ m = 2
      BY <1>0, <2>4
    <3> HIDE DEF n, m
    <3>2. n = 1
      BY <3>1
    <3> QED
      BY <3>2 DEF n
  <2>6. a' = a /\ b' = u /\ Parked(a) /\ a \in Torrents
    <3>1. 1 \in 1 .. Len(pending_deletes)
      BY <2>5
    <3> QED
      BY <1>0, <2>2, <2>4, <2>5, <3>1 DEF Parked
  <2>7. u \in session /\ ~Parked(u) /\ UNCHANGED <<session, alerts, deleting>>
    BY <1>0, <1>1 DEF Parking, AskedInv
  <2>8. a \notin session
    BY <1>0, <2>6, <2>7 DEF AskedInv
  <2>9. ~ReportedIn(alerts, u) /\ u \notin Elems(deleting)
    BY <1>0, <2>7 DEF PlaceInv, Left
  <2>10. ReportedFirst(alerts, a, u) /\ QueuedFirst(deleting, a, u)
    BY <2>9 DEF ReportedFirst, ReportedIn, QueuedFirst, Elems
  <2> HIDE DEF a, b
  <2> QED
    BY <2>6, <2>7, <2>8, <2>10 DEF InOrder
<1>2. ASSUME Len(pending_deletes) = 2, Hashes[a] \cap Hashes[b] # {}
      PROVE  /\ a \in Torrents /\ b \in Torrents /\ a \in added /\ a \notin session
             /\ a \in Elems(deleting) \/ ReportedIn(alerts, a)
             /\ InOrder(a, b)
  <2>1. InOrder(a, b)
    BY <1>0, <1>2 DEF OrderInv
  <2>2. 1 \in 1 .. Len(pending_deletes) /\ 2 \in 1 .. Len(pending_deletes)
    BY <1>2
  <2>3. a \in Torrents /\ b \in Torrents
    BY <1>0, <2>2
  <2>4. Parked(a)
    BY <2>2 DEF Parked
  <2>5. a \in added
    BY <1>0, <2>3, <2>4 DEF AskedInv, Asked
  <2>6. a \notin session
    BY <2>1 DEF InOrder
  <2>7. a \in Elems(deleting) \/ ReportedIn(alerts, a)
    BY <1>0, <2>3, <2>4, <2>6 DEF ParkedInv
  <2> QED
    BY <2>1, <2>3, <2>5, <2>6, <2>7
<1> DEFINE Both == Len(pending_deletes) = 2 /\ Hashes[a] \cap Hashes[b] # {}
<1>3. ASSUME pending_deletes' = pending_deletes, Both => InOrder(a, b)'
      PROVE  OrderInv'
  BY <1>3 DEF OrderInv
<1> HIDE DEF a, b
<1>4. ASSUME NEW u \in Torrents, Leaving(u) PROVE OrderInv'
  <2>1. pending_deletes' = pending_deletes /\ session' = session \ {u}
    BY <1>4 DEF Leaving
  <2>2. ASSUME Both PROVE InOrder(a, b)'
    <3>1. /\ a \notin session' /\ InOrder(a, b)
          /\ ReportedIn(alerts', a) <=> ReportedIn(alerts, a)
      BY <1>2, <1>4, <2>1, <2>2, ReportedAfter
    <3>2. ReportedFirst(alerts', a, b)
      <4>1. alerts' = alerts \/ \E e \in Event :
                e.op # "delete_files" /\ alerts' = Append(alerts, e)
        BY <1>4 DEF Leaving
      <4>2. \A e \in Event : e.op # "delete_files" =>
                ReportedFirst(Append(alerts, e), a, b)
        BY <1>0, <3>1, ReportsAppended DEF InOrder, Reports
      <4> QED
        BY <3>1, <4>1, <4>2 DEF InOrder
    <3>3. ASSUME ~ReportedIn(alerts, a) PROVE QueuedFirst(deleting', a, b)
      BY <1>0, <1>2, <1>4, <2>2, <3>1, <3>3, QueueAppended DEF Leaving, InOrder
    <3> QED
      BY <2>1, <3>1, <3>2, <3>3 DEF InOrder, a, b
  <2> QED
    BY <1>3, <2>1, <2>2
<1>5. ASSUME NEW u \in Torrents, Deleting(u) PROVE OrderInv'
  <2>1. /\ pending_deletes' = pending_deletes /\ session' = session
        /\ deleting # <<>> /\ u = Head(deleting) /\ deleting' = Tail(deleting)
    BY <1>5 DEF Deleting
  <2>2. PICK e \in Event : Reports(e, u) /\ alerts' = Append(alerts, e)
    BY <1>5 DEF Deleting
  <2>3. ASSUME Both PROVE InOrder(a, b)'
    <3>1. /\ a \notin session' /\ InOrder(a, b)
          /\ ReportedIn(alerts', a) <=> ReportedIn(alerts, a) \/ a = u
      BY <1>2, <1>5, <2>1, <2>3, ReportedAfter
    <3>2. u = b => ReportedIn(alerts, a)
      BY <1>0, <2>1, <3>1, QueueTaken DEF InOrder
    <3>3. ReportedFirst(alerts', a, b)
      BY <1>0, <2>2, <3>1, <3>2, ReportsAppended DEF InOrder, Reports
    <3>4. ASSUME ~ReportedIn(alerts', a) PROVE QueuedFirst(deleting', a, b)
      BY <1>0, <2>1, <3>1, <3>4, QueueTaken DEF InOrder
    <3> QED
      BY <2>1, <3>1, <3>3, <3>4 DEF InOrder, a, b
  <2> QED
    BY <1>3, <2>1, <2>3
<1>6. ASSUME NEW u \in Torrents, Adding(u) PROVE OrderInv'
  <2>1. UNCHANGED <<pending_deletes, alerts, deleting>>
        /\ session' = session \cup {u} /\ u \notin added
    BY <1>6 DEF Adding
  <2>2. ASSUME Both PROVE InOrder(a, b)'
    <3>1. a \notin session' /\ InOrder(a, b)
      BY <1>2, <2>1, <2>2
    <3> QED
      BY <2>1, <3>1 DEF InOrder, a, b
  <2> QED
    BY <1>3, <2>1, <2>2
<1>7. ASSUME pending_deletes' = pending_deletes, UNCHANGED <<session, deleting>>,
             Both => ReportedFirst(alerts', a, b),
             \A t : ReportedIn(alerts', t) <=> ReportedIn(alerts, t)
      PROVE  OrderInv'
  <2>1. ASSUME Both PROVE InOrder(a, b)'
    BY <1>2, <1>7, <2>1 DEF InOrder, a, b
  <2> QED
    BY <1>3, <1>7, <2>1
<1>8. CASE Elsewhere
  <2>1. UNCHANGED <<pending_deletes, session, deleting>>
    BY <1>8 DEF Elsewhere
  <2>2. Both => ReportedFirst(alerts', a, b)
    BY <1>0, <1>2, <1>8, ReportsAppended DEF Elsewhere, InOrder, Reports
  <2>3. \A t : ReportedIn(alerts', t) <=> ReportedIn(alerts, t)
    BY <1>8, ReportedAfter
  <2> QED
    BY <1>7, <2>1, <2>2, <2>3
<1>9. CASE Pump
  <2>1. UNCHANGED <<session, deleting>> /\ alerts # <<>> /\ alerts' = Tail(alerts)
    BY <1>9, OtherSteps, PumpStep
  <2>2. ASSUME NEW t \in Torrents, Reporting(t) PROVE OrderInv'
    <3>1. Len(pending_deletes') # 2
      BY <2>2 DEF Reporting
    <3> QED
      BY <3>1 DEF OrderInv
  <2>3. CASE Head(alerts).op # "delete_files" /\ pending_deletes' = pending_deletes
    <3>1. \A t : ReportedIn(alerts', t) <=> ReportedIn(alerts, t)
      BY <1>9, <2>3, ReportedAfter DEF Reports
    <3>2. Both => ReportedFirst(alerts', a, b)
      BY <1>0, <1>2, <2>1, <2>3, ReportsTaken DEF InOrder, Reports
    <3> QED
      BY <1>7, <2>1, <2>3, <3>1, <3>2
  <2> QED
    BY <1>0, <1>9, <2>2, <2>3, PumpKinds
<1> QED
  BY <1>0, <1>1, <1>4, <1>5, <1>6, <1>8, <1>9, RemovalSteps

\* What a receiver sees of a deletion stays about the torrent it names.
LEMMA ShownInvStep ==
    ASSUME TypeOK, CallInv, SessionInv, GenuineInv, ContentInv, OwnParts, TwoParked,
           OneRemoval', ~SomeoneGaveUp', Next
    PROVE  ShownInv'
<1> DEFINE Over(t) == /\ Left(t) /\ ~Parked(t)
                      /\ t \notin Elems(deleting) /\ ~ReportedIn(alerts, t)
<1>0. /\ AskedInv /\ PlaceInv /\ ParkedInv /\ OrderInv /\ ShownInv
      /\ deleting \in Seq(Torrents) /\ alerts \in Seq(Event) /\ rx \in [Calls -> Seq(Event)]
  BY DEF OwnParts, TypeOK
<1>1. ASSUME NEW t \in Torrents, Over(t) PROVE Over(t)'
  <2>1. ASSUME NEW u \in Torrents, Parking(u) PROVE Over(t)'
    <3>1. u # t /\ UNCHANGED <<session, added, deleting, alerts>>
      BY <1>1, <2>1 DEF Parking, Left
    <3> QED
      BY <1>1, <2>1, <3>1, ParkedAfter DEF Left
  <2>2. ASSUME NEW u \in Torrents, Leaving(u) PROVE Over(t)'
    <3>1. Left(t)' /\ ~Parked(t)' /\ ~ReportedIn(alerts', t)
      BY <1>1, <2>2, ParkedAfter, ReportedAfter DEF Leaving, Left
    <3>2. t \notin Elems(deleting')
      <4>1. deleting' = IF u \in session THEN Append(deleting, u) ELSE deleting
        BY <2>2 DEF Leaving
      <4>2. Elems(Append(deleting, u)) = Elems(deleting) \cup {u}
        BY <1>0, ElemsFacts
      <4>3. u \in session => u # t
        BY <1>1 DEF Left
      <4> QED
        BY <1>1, <4>1, <4>2, <4>3
    <3> QED
      BY <3>1, <3>2
  <2>3. ASSUME NEW u \in Torrents, Deleting(u) PROVE Over(t)'
    <3>1. /\ deleting # <<>> /\ u = Head(deleting) /\ deleting' = Tail(deleting)
          /\ UNCHANGED <<session, added>>
      BY <2>3 DEF Deleting
    <3>2. u # t /\ t \notin Elems(deleting')
      BY <1>0, <1>1, <3>1, ElemsFacts
    <3> QED
      BY <1>1, <2>3, <3>1, <3>2, ParkedAfter, ReportedAfter DEF Left
  <2>4. ASSUME NEW u \in Torrents, Adding(u) PROVE Over(t)'
    BY <1>1, <2>4, ParkedAfter, ReportedAfter DEF Adding, Left
  <2>5. CASE Elsewhere
    BY <1>1, <2>5, ParkedAfter, ReportedAfter DEF Elsewhere, Left
  <2>6. CASE Pump
    <3>1. UNCHANGED <<session, added, deleting>>
      BY <2>6, OtherSteps
    <3> QED
      BY <1>1, <2>6, <3>1, ParkedAfter, ReportedAfter DEF Left
  <2> QED
    BY <1>0, <2>1, <2>2, <2>3, <2>4, <2>5, <2>6, RemovalSteps
<1>2. ASSUME NEW c \in Calls, NEW e \in Elems(rx'[c]), e.op = "delete_files",
             e.t # NoTorrent
      PROVE  Over(e.t)' /\ (e.out = "ok" => e.t \in deleted')
  <2>1. CASE e \in Elems(rx[c])
    <3>1. e.t \in Torrents
      <4>1. rx[c] \in Seq(Event)
        BY <1>0
      <4>2. e \in Event
        BY <2>1, <4>1, ElemsFacts
      <4> QED
        BY <1>2, <4>2 DEF Event
    <3>2. Over(e.t) /\ (e.out = "ok" => e.t \in deleted)
      BY <1>0, <1>2, <2>1 DEF ShownInv
    <3> QED
      BY <1>1, <3>1, <3>2, WorldStep
  <2>2. CASE e \notin Elems(rx[c])
    <3>1. Pump /\ alerts # <<>> /\ Head(alerts) \in Elems(alerts)
          /\ UNCHANGED <<session, added, deleting, deleted>>
      BY <1>2, <2>2, RxStep, PumpStep, OtherSteps
    <3>2. \A x \in Event : publish(x) => e = x
      BY <1>2, <2>2, PublishFacts
    <3>3. PICK t \in Torrents : Reporting(t)
      BY <1>0, <1>2, <3>1, <3>2, PumpKinds
    <3>4. e.t = t /\ e.out = Head(alerts).out /\ Reports(Head(alerts), t) /\ ~Parked(t)'
      BY <3>2, <3>3 DEF Reporting, Reports
    <3>5. ReportedIn(alerts, t) /\ ~ReportedIn(alerts', t)
      <4>1. alerts' = Tail(alerts) /\ ReportedOnce(alerts)
        BY <1>0, <3>1, PumpStep DEF PlaceInv
      <4> QED
        BY <1>0, <3>1, <3>4, <4>1, ReportsTaken
    <3>6. Left(t) /\ t \notin Elems(deleting)
      BY <1>0, <3>5 DEF PlaceInv
    <3>7. e.out = "ok" => t \in deleted
      BY <3>1, <3>4 DEF ContentInv, Reports
    <3> QED
      BY <3>1, <3>4, <3>5, <3>6, <3>7 DEF Left
  <2> QED
    BY <2>1, <2>2
<1>3. ASSUME NEW c \in Calls, pc'[c] = "ok", Deletes(c)'
      PROVE  job'[c].t \in deleted'
  <2>1. CASE pc[c] = "ok"
    <3>1. job'[c] = job[c]
      BY <2>1, JobStep
    <3> QED
      BY <1>0, <1>3, <2>1, <3>1, WorldStep DEF ShownInv, Deletes
  <2>2. CASE pc[c] # "ok"
    <3>1. CallStep(c)
      BY <1>3, <2>2, JobStep
    <3>2. RecvAnswer(c)
      BY <1>3, <2>2, <3>1 DEF CallStep, CallRequest, CallSerialized, CallScrape, CallDelete,
         AcquireLock, PostLocked, RecvLagged, RecvOther, RecvTrackers, WaitCancelled, Drain,
         WaitTimeout, CallDrop, Return, Resolve, Enqueue, Subscribed, AfterTimeout, TypeOK
    <3>3. /\ pc[c] = "waiting" /\ rx[c] # <<>> /\ rx[c] \in Seq(Event) /\ job' = job
          /\ Answers(c, Head(rx[c])) /\ Head(rx[c]).out = "ok"
      BY <1>3, <3>2 DEF RecvAnswer, Return, TypeOK
    <3>4. PICK e \in Elems(rx[c]) : e = Head(rx[c])
      BY <3>3, ElemsFacts
    <3>5. e.t = job[c].t /\ e.op = "delete_files" /\ e.out = "ok"
      BY <1>3, <3>3, <3>4 DEF Answers, Matcher, Deletes
    <3>6. job[c].t # NoTorrent
      BY <3>3, NamesAssumption DEF CallInv, Job
    <3> QED
      BY <1>0, <3>3, <3>4, <3>5, <3>6, WorldStep DEF ShownInv
  <2> QED
    BY <2>1, <2>2
<1> QED
  BY <1>2, <1>3 DEF ShownInv

LEMMA OwnInit == Init => OwnParts
<1> SUFFICES ASSUME Init PROVE OwnParts
  OBVIOUS
<1>1. /\ alerts = <<>> /\ deleting = <<>> /\ pending_deletes = <<>> /\ removing = {}
      /\ added = session /\ (\E t \in Torrents : session = {t})
      /\ \A c \in Calls : pc[c] = "idle" /\ job[c] = NoJob /\ rx[c] = <<>>
  BY DEF Init
<1>2. Len(alerts) = 0 /\ Len(deleting) = 0 /\ Len(pending_deletes) = 0
  BY <1>1
<1>3. /\ \A t : ~ReportedIn(alerts, t) /\ ~Parked(t) /\ ~Left(t) /\ t \notin Elems(deleting)
      /\ \A c \in Calls : Elems(rx[c]) = {}
  BY <1>1, <1>2, ElemsEmpty DEF ReportedIn, Parked, Left
<1>4. \A c \in Calls : ~Deletes(c)
  BY <1>1 DEF Deletes, NoJob
<1>5. AskedInv
  BY <1>1, <1>3, <1>4 DEF AskedInv
<1>6. PlaceInv
  BY <1>2, <1>3 DEF PlaceInv, ReportedOnce, QueuedOnce
<1>7. ParkedInv
  BY <1>1, <1>2, <1>3 DEF ParkedInv
<1>8. OrderInv /\ ShownInv
  BY <1>2, <1>3, <1>4 DEF OrderInv, ShownInv
<1> QED
  BY <1>5, <1>6, <1>7, <1>8 DEF OwnParts

LEMMA OwnUnchanged ==
    ASSUME OwnInv, UNCHANGED vars
    PROVE  OwnInv'
<1> USE DEF vars, ltVars, engineVars, callVars
<1>1. SomeoneGaveUp' <=> SomeoneGaveUp
  BY DEF SomeoneGaveUp, GaveUp, Deletes
<1>2. \A t : /\ Asked(t)' <=> Asked(t)
             /\ Parked(t)' <=> Parked(t)
             /\ Left(t)' <=> Left(t)
             /\ ReportedIn(alerts', t) <=> ReportedIn(alerts, t)
  BY DEF Asked, Parked, Left, Deletes
<1>3. AskedInv => AskedInv'
  BY <1>2 DEF AskedInv, Deletes
<1>4. PlaceInv => PlaceInv'
  BY <1>2 DEF PlaceInv
<1>5. ParkedInv => ParkedInv'
  BY <1>2 DEF ParkedInv
<1>6. OrderInv => OrderInv'
  BY DEF OrderInv, InOrder
<1>7. ShownInv => ShownInv'
  BY <1>2 DEF ShownInv, Deletes
<1> QED
  BY <1>1, <1>3, <1>4, <1>5, <1>6, <1>7 DEF OwnInv, OwnParts

\* A removal with files that succeeds has deleted its own files, unless
\* another one gave up, though content is added again and alerts name nothing
\* but its hashes: as long as at most two removals are parked at a time, so
\* that swap_remove reorders none, and no torrent is removed with its files
\* twice.
THEOREM OwnFilesAreDeleted ==
    Spec /\ [](TwoParked /\ OneRemoval) => []DeletedMeansGone
<1> DEFINE H == TwoParked /\ OneRemoval
<1>1. Init => OwnInv
  BY OwnInit DEF OwnInv
<1>2. CorrelateInv /\ H /\ H' /\ OwnInv /\ [Next]_vars => OwnInv'
  <2>1. CASE UNCHANGED vars
    BY <2>1, OwnUnchanged
  <2>2. ASSUME CorrelateInv, H, H', OwnInv, Next, ~SomeoneGaveUp' PROVE OwnParts'
    <3>1. TypeOK /\ CallInv /\ SessionInv /\ GenuineInv /\ ContentInv
      BY <2>2 DEF CorrelateInv
    <3>2. OwnParts
      BY <2>2, <3>1, GaveUpStays DEF OwnInv
    <3>3. AskedInv /\ PlaceInv /\ ShownInv
      BY <3>2 DEF OwnParts
    <3> QED
      BY <2>2, <3>1, <3>2, <3>3, AskedInvStep, PlaceInvStep, ParkedInvStep, OrderInvStep,
         ShownInvStep DEF OwnParts
  <2> QED
    BY <2>1, <2>2 DEF OwnInv
<1>3. OwnInv => DeletedMeansGone
  <2> SUFFICES ASSUME OwnInv, NEW c \in Calls, pc[c] = "ok", Deletes(c)
               PROVE  \/ job[c].t \in deleted
                      \/ \E d \in Calls \ {c} : Deletes(d) /\ GaveUp(d)
    BY DEF DeletedMeansGone
  <2>1. OwnParts => job[c].t \in deleted
    BY DEF OwnParts, ShownInv
  <2>2. ASSUME SomeoneGaveUp PROVE \E d \in Calls \ {c} : Deletes(d) /\ GaveUp(d)
    <3>1. ~GaveUp(c)
      BY DEF GaveUp
    <3> QED
      BY <2>2, <3>1 DEF SomeoneGaveUp
  <2> QED
    BY <2>1, <2>2 DEF OwnInv
<1> QED
  BY <1>1, <1>2, <1>3, CorrelateInvariant, PTL DEF Spec
=============================================================================
