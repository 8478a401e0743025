----------------------------- MODULE EngineProofs -----------------------------
(***************************************************************************)
(* The theorems of the engine, for any torrents, tokens, capacity of the   *)
(* persist queue and versions.  The in-flight accounting is exact in all   *)
(* of the surroundings, and what follows from it; then, in five parts,     *)
(* what the resume files hold: an acknowledged add is durable, a removed   *)
(* torrent stays removed, no change is forgotten, a flush that drained is  *)
(* complete, and the files are a ResumeStore.                              *)
(***************************************************************************)
EXTENDS EngineProperties, FiniteSetTheorems, TLAPS

(***************************************************************************)
(* Lemmas about entries that carry tokens.                                 *)
(***************************************************************************)

\* What is behind the first entry of a sequence (an alert of a batch, an
\* operation of a queue) carries its tokens still, and none of the first.
LEMMA CarryTail ==
    ASSUME NEW S, NEW s \in Seq(S), s # <<>>, NEW kinds, NEW stage, NEW tk,
           Carry(s, kinds, stage, tk)
    PROVE  /\ Carry(Tail(s), kinds, stage, tk)
           /\ Head(s).kind \in kinds =>
                /\ Head(s).id \in Tokens /\ tk[Head(s).id] = stage
                /\ \A i \in 1 .. Len(Tail(s)) :
                        Tail(s)[i].kind \in kinds => Tail(s)[i].id # Head(s).id
<1>1. Len(s) \in Nat /\ Len(s) >= 1
  OBVIOUS
<1>2. /\ Len(Tail(s)) = Len(s) - 1
      /\ \A i \in 1 .. Len(Tail(s)) : Tail(s)[i] = s[i + 1]
      /\ Head(s) = s[1]
  OBVIOUS
<1>3. \A i \in 1 .. Len(Tail(s)) : i + 1 \in 1 .. Len(s) /\ i + 1 # 1
  BY <1>1, <1>2
<1>4. 1 \in 1 .. Len(s)
  BY <1>1
<1> QED
  BY <1>1, <1>2, <1>3, <1>4 DEF Carry

\* An entry that carries no token, or one that nobody before it carries,
\* can be appended (an alert is queued, an operation is sent).
LEMMA CarryAppend ==
    ASSUME NEW S, NEW s \in Seq(S), NEW e \in S, NEW kinds, NEW stage, NEW tk,
           Carry(s, kinds, stage, tk),
           e.kind \in kinds =>
                /\ e.id \in Tokens /\ tk[e.id] = stage
                /\ \A i \in 1 .. Len(s) : s[i].kind \in kinds => s[i].id # e.id
    PROVE  Carry(Append(s, e), kinds, stage, tk)
<1>1. /\ Len(Append(s, e)) = Len(s) + 1 /\ Len(s) \in Nat
      /\ \A i \in 1 .. Len(s) : Append(s, e)[i] = s[i]
      /\ Append(s, e)[Len(s) + 1] = e
  OBVIOUS
<1>2. \A i \in 1 .. Len(Append(s, e)) : i \in 1 .. Len(s) \/ i = Len(s) + 1
  BY <1>1
<1> QED
  BY <1>1, <1>2 DEF Carry

\* A token at another stage than the entries of a sequence can change its
\* stage, unless to the sequence's own, without them noticing; if it does
\* change to that stage it is carried by none of them.
LEMMA CarryOther ==
    ASSUME NEW s, NEW kinds, NEW stage, NEW tk \in [Tokens -> Stages],
           Carry(s, kinds, stage, tk),
           NEW id \in Tokens, tk[id] # stage, NEW x \in Stages
    PROVE  /\ Carry(s, kinds, stage, [tk EXCEPT ![id] = x])
           /\ \A i \in 1 .. Len(s) : s[i].kind \in kinds => s[i].id # id
  BY DEF Carry

\* A sequence whose first entry carries the token that changes its stage.
LEMMA CarryMoved ==
    ASSUME NEW S, NEW s \in Seq(S), s # <<>>, NEW kinds, NEW stage,
           NEW tk \in [Tokens -> Stages], Carry(s, kinds, stage, tk),
           Head(s).kind \in kinds, NEW x \in Stages
    PROVE  Carry(Tail(s), kinds, stage, [tk EXCEPT ![Head(s).id] = x])
  BY CarryTail DEF Carry

(***************************************************************************)
(* Lemmas about the number of tokens in use.                               *)
(***************************************************************************)
LEMMA InUseFinite ==
    ASSUME NEW tk \in [Tokens -> Stages]
    PROVE  IsFiniteSet(InUse(tk)) /\ Cardinality(InUse(tk)) \in Nat
  BY TokensAssumption, FS_Subset, FS_CardinalityType DEF InUse

\* Taking a free token adds one to their number.
LEMMA Take ==
    ASSUME NEW tk \in [Tokens -> Stages], NEW id \in Tokens, tk[id] = "free",
           NEW x \in Stages, x # "free"
    PROVE  Cardinality(InUse([tk EXCEPT ![id] = x])) = Cardinality(InUse(tk)) + 1
<1>1. InUse([tk EXCEPT ![id] = x]) = InUse(tk) \cup {id}
  BY DEF InUse
<1>2. id \notin InUse(tk)
  BY DEF InUse
<1> QED
  BY <1>1, <1>2, InUseFinite, FS_AddElement

\* Releasing one in use subtracts one; there is one to subtract.
LEMMA Release ==
    ASSUME NEW tk \in [Tokens -> Stages], NEW id \in Tokens, tk[id] # "free"
    PROVE  /\ Cardinality(InUse(tk)) # 0
           /\ Cardinality(InUse([tk EXCEPT ![id] = "free"]))
                = Cardinality(InUse(tk)) - 1
<1>1. InUse([tk EXCEPT ![id] = "free"]) = InUse(tk) \ {id}
  BY DEF InUse
<1>2. id \in InUse(tk)
  BY DEF InUse
<1>3. InUse(tk) # {}
  BY <1>2
<1> QED
  BY <1>1, <1>2, <1>3, InUseFinite, FS_RemoveElement, FS_EmptySet

\* Passing one on leaves their number as it is.
LEMMA PassOn ==
    ASSUME NEW tk \in [Tokens -> Stages], NEW id \in Tokens, tk[id] # "free",
           NEW x \in Stages, x # "free"
    PROVE  InUse([tk EXCEPT ![id] = x]) = InUse(tk)
  BY DEF InUse

(***************************************************************************)
(* Type correctness.  The types of the operations rest on who carries      *)
(* tokens, so the two are proved together.                                 *)
(***************************************************************************)
LEMMA TypeInit == Init => TypeOK
<1> SUFFICES ASSUME Init PROVE TypeOK
  OBVIOUS
<1>1. LtTypeOK
  BY DEF Init, LtTypeOK, Lives
<1>2. SharedTypeOK
  BY DEF Init, SharedTypeOK, NoFile
<1>3. PumpTypeOK
  BY DEF Init, PumpTypeOK, PumpStates
<1>4. CallsTypeOK
  BY DEF Init, CallsTypeOK, AddStates, CallStates
<1>5. TasksTypeOK
  BY DEF Init, TasksTypeOK, Phases
<1>6. HistoryTypeOK
  BY DEF Init, HistoryTypeOK, Stages, NoFile
<1> QED
  BY <1>1, <1>2, <1>3, <1>4, <1>5, <1>6 DEF TypeOK

\* A step keeps the types of what it leaves alone.
LEMMA TypeUnchanged ==
    ASSUME TypeOK
    PROVE  /\ UNCHANGED ltVars => LtTypeOK'
           /\ UNCHANGED shared => SharedTypeOK'
           /\ UNCHANGED pumpVars => PumpTypeOK'
           /\ UNCHANGED calls => CallsTypeOK'
           /\ UNCHANGED <<current, sweepTodo, shutVars>> => TasksTypeOK'
           /\ UNCHANGED history => HistoryTypeOK'
  BY DEF TypeOK, LtTypeOK, SharedTypeOK, PumpTypeOK, CallsTypeOK, TasksTypeOK,
         HistoryTypeOK, ltVars, shared, pumpVars, calls, shutVars, history,
         observed

\* What is queued keeps the type of a queue.
LEMMA SeqTypes ==
    ASSUME NEW S, NEW s \in Seq(S)
    PROVE  /\ \A e \in S : Append(s, e) \in Seq(S)
           /\ s # <<>> => Tail(s) \in Seq(S) /\ Head(s) \in S
  OBVIOUS

LEMMA TypeLibtorrent ==
    ASSUME TypeOK, LibtorrentNext
    PROVE  TypeOK'
<1> USE DEF TypeOK, LtTypeOK
<1>1. \A k \in AlertKinds, t \in Torrents : PlainAlert(k, t) \in Alert
  BY DEF PlainAlert, Alert
<1>2. ASSUME NEW t \in Torrents, LtAdd(t)
      PROVE  LtTypeOK' /\ UNCHANGED history
  <2>1. alerts' \in Seq(Alert)
    <3>1. \E k \in AlertKinds : alerts' = Append(alerts, PlainAlert(k, t))
      BY <1>2 DEF LtAdd, AlertKinds
    <3> QED
      BY <1>1, <3>1, SeqTypes
  <2>2. life' \in [Torrents -> Lives]
    BY <1>2 DEF LtAdd, Lives
  <2> QED
    BY <1>2, <2>1, <2>2 DEF LtAdd
<1>3. ASSUME NEW t \in Torrents, LtRemove(t)
      PROVE  LtTypeOK' /\ UNCHANGED history
  <2>1. alerts' \in Seq(Alert)
    <3>1. \/ alerts' = Append(alerts, PlainAlert("removed", t))
          \/ alerts' = alerts
      BY <1>3 DEF LtRemove
    <3> QED
      BY <1>1, <3>1, SeqTypes DEF AlertKinds
  <2>2. life' \in [Torrents -> Lives]
    BY <1>3 DEF LtRemove, Lives
  <2> QED
    BY <1>3, <2>1, <2>2 DEF LtRemove
<1>4. ASSUME NEW t \in Torrents, LtExpire(t)
      PROVE  LtTypeOK' /\ UNCHANGED history
  BY <1>4 DEF LtExpire, Lives
<1>5. ASSUME NEW t \in Torrents, LtChange(t)
      PROVE  LtTypeOK' /\ UNCHANGED history
  BY <1>5 DEF LtChange
<1>6. ASSUME NEW t \in Torrents, LtFinished(t)
      PROVE  LtTypeOK' /\ UNCHANGED history
  BY <1>1, <1>6 DEF LtFinished, AlertKinds
<1>7. ASSUME NEW t \in Torrents, LtMoved(t)
      PROVE  LtTypeOK' /\ UNCHANGED history
  BY <1>1, <1>7 DEF LtMoved, AlertKinds
<1>8. ASSUME NEW p \in posted, LtAnswerSave(p)
      PROVE  LtTypeOK' /\ HistoryTypeOK'
  <2>1. p.t \in Torrents /\ p.id \in Tokens /\ ver[p.t] \in Int
    BY DEF SaveRequest
  <2>2. /\ [kind |-> "saved", t |-> p.t, id |-> p.id, v |-> ver[p.t]] \in Alert
        /\ [kind |-> "saveFailed", t |-> p.t, id |-> p.id, v |-> 0] \in Alert
    BY <2>1 DEF Alert, AlertKinds
  <2>3. alerts' \in Seq(Alert)
    <3>1. \E a \in Alert : alerts' = Append(alerts, a)
      BY <1>8, <2>2 DEF LtAnswerSave
    <3> QED
      BY <3>1, SeqTypes
  <2>4. need' \subseteq Torrents
    BY <1>8 DEF LtAnswerSave
  <2>5. HistoryTypeOK'
    BY <1>8, <2>1 DEF LtAnswerSave, HistoryTypeOK, Stages, observed
  <2> QED
    BY <1>8, <2>3, <2>4, <2>5 DEF LtAnswerSave
<1>9. LtTypeOK' /\ HistoryTypeOK'
  BY <1>2, <1>3, <1>4, <1>5, <1>6, <1>7, <1>8, TypeUnchanged DEF LibtorrentNext
<1>10. UNCHANGED <<shared, pumpVars, calls, current, sweepTodo, shutVars>>
  BY DEF LibtorrentNext, LtAdd, LtRemove, LtExpire, LtChange, LtFinished,
         LtMoved, LtAnswerSave
<1> QED
  BY <1>9, <1>10, TypeUnchanged

\* An accepted save, and a release.
LEMMA TypePost ==
    ASSUME TypeOK, NEW t \in Torrents, NEW flag \in {"always", "ifModified"},
           PostSave(t, flag) \/ NoPost
    PROVE  /\ posted' \subseteq SaveRequest
           /\ inflight' \in Nat
           /\ token' \in [Tokens -> Stages]
<1> USE DEF TypeOK, LtTypeOK, SharedTypeOK, HistoryTypeOK
<1>1. CASE NoPost
  BY <1>1 DEF NoPost
<1>2. CASE PostSave(t, flag)
  <2>1. \A id \in Tokens :
           [t |-> t, id |-> id, flag |-> flag] \in SaveRequest
    BY DEF SaveRequest
  <2> QED
    BY <1>2, <2>1 DEF PostSave, Stages
<1> QED
  BY <1>1, <1>2

LEMMA TypeDec ==
    ASSUME TypeOK, NEW id \in Tokens, Dec(id)
    PROVE  /\ inflight' \in Nat
           /\ process' \in {"up", "aborted"}
           /\ token' \in [Tokens -> Stages]
  BY DEF TypeOK, SharedTypeOK, HistoryTypeOK, Dec, Stages

LEMMA TypePump ==
    ASSUME Accounting, PumpNext
    PROVE  TypeOK'
<1> USE DEF Accounting
<1>1. CASE PumpPop
  <2>1. LtTypeOK' /\ PumpTypeOK'
    BY <1>1 DEF PumpPop, TypeOK, LtTypeOK, PumpTypeOK, PumpStates
  <2>2. CallsTypeOK'
    BY <1>1 DEF PumpPop, TypeOK, CallsTypeOK, AddStates
  <2>3. HistoryTypeOK'
    BY <1>1 DEF PumpPop, TypeOK, HistoryTypeOK, Stages, observed
  <2> QED
    BY <1>1, <2>1, <2>2, <2>3, TypeUnchanged DEF PumpPop, TypeOK
<1>2. ASSUME NEW k, Consume(k)
      PROVE  /\ batch' \in Seq(Alert) /\ pc' \in PumpStates
             /\ Head(batch) \in Alert
  BY <1>2, SeqTypes DEF Consume, TypeOK, PumpTypeOK, PumpStates
<1>3. \A a \in Alert : a.t \in Torrents /\ a.v \in Int
  BY DEF Alert
<1>4. CASE HandleAddFailed
  BY <1>2, <1>4, TypeUnchanged DEF HandleAddFailed, TypeOK, PumpTypeOK
<1>5. CASE HandleAdded
  <2>1. PumpTypeOK'
    BY <1>2, <1>5 DEF HandleAdded, TypeOK, PumpTypeOK
  <2>2. SharedTypeOK'
    BY <1>2, <1>3, <1>5 DEF HandleAdded, upsert, TypeOK, SharedTypeOK
  <2> QED
    BY <1>5, <2>1, <2>2, TypeUnchanged DEF HandleAdded, TypeOK
<1>6. CASE HandleRemoved
  <2>1. Head(batch).t \in Torrents
    BY <1>2, <1>3, <1>6 DEF HandleRemoved
  <2>2. ops' \in Seq(PersistOp)
    <3>1. [kind |-> "delete", t |-> Head(batch).t] \in PersistOp
      BY <2>1 DEF PersistOp, DeleteOp
    <3>2. \/ ops' = Append(ops, [kind |-> "delete", t |-> Head(batch).t])
          \/ ops' = ops
      BY <1>6 DEF HandleRemoved, WithDelete
    <3> QED
      BY <3>1, <3>2, SeqTypes DEF TypeOK, PumpTypeOK
  <2>3. PumpTypeOK'
    BY <1>2, <1>6, <2>2 DEF HandleRemoved, TypeOK, PumpTypeOK
  <2>4. SharedTypeOK'
    BY <1>6 DEF HandleRemoved, unregister, TypeOK, SharedTypeOK
  <2>5. CallsTypeOK'
    BY <1>6, <2>1 DEF HandleRemoved, TypeOK, CallsTypeOK, Answer, CallStates
  <2> QED
    BY <1>6, <2>3, <2>4, <2>5, TypeUnchanged DEF HandleRemoved, TypeOK
<1>7. CASE HandleSaveTrigger
  <2>1. PumpTypeOK'
    BY <1>2, <1>7 DEF HandleSaveTrigger, TypeOK, PumpTypeOK, PumpStates
  <2> QED
    BY <1>7, <2>1, TypeUnchanged DEF HandleSaveTrigger, TypeOK
<1>8. CASE RequestSave
  <2>1. Head(batch) \in Alert /\ Tail(batch) \in Seq(Alert)
    BY <1>8, SeqTypes DEF RequestSave, TypeOK, PumpTypeOK
  <2>2. /\ Head(batch).t \in Torrents
        /\ PostSave(Head(batch).t, "always") \/ NoPost
    BY <1>3, <1>8, <2>1 DEF RequestSave, TriggerFlag
  <2>3. LtTypeOK' /\ SharedTypeOK' /\ HistoryTypeOK'
    BY <1>8, <2>2, TypePost DEF RequestSave, TypeOK, LtTypeOK, SharedTypeOK,
       HistoryTypeOK, observed
  <2>4. PumpTypeOK'
    BY <1>8, <2>1 DEF RequestSave, TypeOK, PumpTypeOK, PumpStates
  <2> QED
    BY <1>8, <2>3, <2>4, TypeUnchanged DEF RequestSave, TypeOK
<1>9. CASE HandleSaved
  <2> DEFINE a == Head(batch)
             w == [kind |-> "write", t |-> a.t, id |-> a.id, v |-> a.v,
                   ack |-> "none"]
  <2>1. a \in Alert /\ a.kind = "saved" /\ batch # <<>>
    BY <1>2, <1>9 DEF HandleSaved, Consume
  <2>2. a.id \in Tokens
    BY <2>1, CarryTail DEF TypeOK, PumpTypeOK, TokensCarried, SaveKinds
  <2>3. w \in PersistOp
    BY <1>3, <2>1, <2>2 DEF PersistOp, WriteOp
  <2>4. \/ /\ ops' = Append(ops, w)
           /\ token' = [token EXCEPT ![a.id] = "op"]
           /\ UNCHANGED <<inflight, process, spc>>
        \/ /\ Dec(a.id) /\ UNCHANGED ops
           /\ spc' = spc \/ spc' = Answer(spc, a.t, "err")
    BY <1>9 DEF HandleSaved
  <2>5. ops' \in Seq(PersistOp)
    BY <2>3, <2>4, SeqTypes DEF TypeOK, PumpTypeOK
  <2>6. /\ inflight' \in Nat /\ process' \in {"up", "aborted"}
        /\ token' \in [Tokens -> Stages]
    BY <2>2, <2>4, TypeDec DEF TypeOK, SharedTypeOK, HistoryTypeOK, Stages
  <2>7. spc' \in [Torrents -> CallStates]
    BY <1>3, <2>1, <2>4 DEF TypeOK, CallsTypeOK, Answer, CallStates
  <2>8. PumpTypeOK'
    BY <1>2, <1>9, <2>5 DEF HandleSaved, TypeOK, PumpTypeOK
  <2>9. SharedTypeOK' /\ HistoryTypeOK' /\ CallsTypeOK'
    BY <1>9, <2>6, <2>7 DEF HandleSaved, TypeOK, SharedTypeOK, HistoryTypeOK,
       CallsTypeOK, observed
  <2> QED
    BY <1>9, <2>8, <2>9, TypeUnchanged DEF HandleSaved, TypeOK
<1>10. CASE HandleSaveFailed
  <2> DEFINE a == Head(batch)
  <2>1. a \in Alert /\ a.kind = "saveFailed" /\ batch # <<>>
    BY <1>2, <1>10 DEF HandleSaveFailed, Consume
  <2>2. a.id \in Tokens
    BY <2>1, CarryTail DEF TypeOK, PumpTypeOK, TokensCarried, SaveKinds
  <2>3. Dec(a.id) /\ (spc' = spc \/ spc' = Answer(spc, a.t, "err"))
    BY <1>10 DEF HandleSaveFailed
  <2>4. spc' \in [Torrents -> CallStates]
    BY <1>3, <2>1, <2>3 DEF TypeOK, CallsTypeOK, Answer, CallStates
  <2>5. PumpTypeOK'
    BY <1>2, <1>10 DEF HandleSaveFailed, TypeOK, PumpTypeOK
  <2>6. SharedTypeOK' /\ HistoryTypeOK' /\ CallsTypeOK'
    BY <1>10, <2>2, <2>3, <2>4, TypeDec DEF HandleSaveFailed, TypeOK,
       SharedTypeOK, HistoryTypeOK, CallsTypeOK, observed
  <2> QED
    BY <1>10, <2>5, <2>6, TypeUnchanged DEF HandleSaveFailed, TypeOK
<1>11. CASE PumpSend
  <2>1. CASE ops = <<>>
    <3>1. UNCHANGED <<queue, ops, token>> /\ pc' = "select"
      BY <1>11, <2>1 DEF PumpSend
    <3> QED
      BY <1>11, <3>1, TypeUnchanged DEF PumpSend, TypeOK, PumpTypeOK,
         PumpStates, shared, history
  <2>2. CASE ops # <<>>
    <3>1. Head(ops) \in PersistOp /\ Tail(ops) \in Seq(PersistOp)
      BY <2>2, SeqTypes DEF TypeOK, PumpTypeOK
    <3>2. /\ queue' = Append(queue, Head(ops)) /\ ops' = Tail(ops)
          /\ \/ token' = token
             \/ token' = [token EXCEPT ![Head(ops).id] = "queue"]
      BY <1>11, <2>2 DEF PumpSend
    <3>3. queue' \in Seq(PersistOp)
      BY <3>1, <3>2, SeqTypes DEF TypeOK, SharedTypeOK
    <3>4. SharedTypeOK' /\ PumpTypeOK'
      BY <1>11, <2>2, <3>1, <3>2, <3>3 DEF PumpSend, TypeOK, SharedTypeOK,
         PumpTypeOK
    <3>5. HistoryTypeOK'
      BY <1>11, <3>2 DEF PumpSend, TypeOK, HistoryTypeOK, Stages, observed
    <3> QED
      BY <1>11, <3>4, <3>5, TypeUnchanged DEF PumpSend, TypeOK
  <2> QED
    BY <2>1, <2>2
<1>12. CASE RetryTick
  <2>1. budget' \in Int
    BY <1>12, QueueCapAssumption DEF RetryTick, TypeOK, SharedTypeOK
  <2>2. PumpTypeOK'
    BY <1>12, <2>1 DEF RetryTick, TypeOK, SharedTypeOK, PumpTypeOK, PumpStates
  <2> QED
    BY <1>12, <2>2, TypeUnchanged DEF RetryTick, TypeOK
<1>13. ASSUME NEW t \in Torrents, RetryVisit(t)
       PROVE  TypeOK'
  <2>1. PostSave(t, "always") \/ NoPost
    BY <1>13 DEF RetryVisit
  <2>2. LtTypeOK' /\ HistoryTypeOK'
    BY <1>13, <2>1, TypePost DEF RetryVisit, TypeOK, LtTypeOK, HistoryTypeOK,
       observed
  <2>3. SharedTypeOK'
    BY <1>13, <2>1, TypePost DEF RetryVisit, TypeOK, SharedTypeOK
  <2>4. PumpTypeOK'
    BY <1>13 DEF RetryVisit, TypeOK, PumpTypeOK
  <2> QED
    BY <1>13, <2>2, <2>3, <2>4, TypeUnchanged DEF RetryVisit, TypeOK
<1>14. CASE RetryDone
  BY <1>14, TypeUnchanged DEF RetryDone, TypeOK, PumpTypeOK, PumpStates
<1>15. CASE PumpStop
  BY <1>15, TypeUnchanged DEF PumpStop, TypeOK, PumpTypeOK, PumpStates
<1>16. CASE PumpAbort
  <2>1. PumpTypeOK'
    BY <1>16 DEF PumpAbort, TypeOK, PumpTypeOK, PumpStates
  <2>2. HistoryTypeOK'
    BY <1>16 DEF PumpAbort, TypeOK, HistoryTypeOK, Stages
  <2> QED
    BY <1>16, <2>1, <2>2, TypeUnchanged DEF PumpAbort, TypeOK
<1> QED
  BY <1>1, <1>4, <1>5, <1>6, <1>7, <1>8, <1>9, <1>10, <1>11, <1>12, <1>13,
     <1>14, <1>15, <1>16 DEF PumpNext

LEMMA TypePersister ==
    ASSUME Accounting, PersisterNext
    PROVE  TypeOK'
<1> USE DEF Accounting
<1>1. CASE PersistRecv
  <2>1. Head(queue) \in PersistOp /\ Tail(queue) \in Seq(PersistOp)
    BY <1>1, SeqTypes DEF PersistRecv, TypeOK, SharedTypeOK
  <2>2. <<Head(queue)>> \in Seq(PersistOp)
    BY <2>1
  <2>3. SharedTypeOK' /\ TasksTypeOK'
    BY <1>1, <2>1, <2>2 DEF PersistRecv, TypeOK, SharedTypeOK, TasksTypeOK,
       shutVars
  <2>4. HistoryTypeOK'
    BY <1>1 DEF PersistRecv, TypeOK, HistoryTypeOK, Stages, observed
  <2> QED
    BY <1>1, <2>3, <2>4, TypeUnchanged DEF PersistRecv, TypeOK
<1>2. \A op \in PersistOp : op.kind = "write" => op \in WriteOp
  BY DEF PersistOp, WriteOp, DeleteOp, StateOp
<1>3. \A op \in PersistOp : op.kind = "delete" => op \in DeleteOp
  BY DEF PersistOp, WriteOp, DeleteOp, StateOp
<1>4. current # <<>> => current[1] \in PersistOp
  BY DEF TypeOK, TasksTypeOK
<1>5. CASE PersistWrite
  <2> DEFINE op == current[1]
  <2>1. /\ op.t \in Torrents /\ op.id \in Tokens /\ op.v \in Int
        /\ Dec(op.id) /\ current' = <<>>
    BY <1>2, <1>4, <1>5 DEF PersistWrite, WriteOp
  <2>2. SharedTypeOK'
    BY <1>5, <2>1, TypeDec DEF PersistWrite, write_atomic, MarkDirty, TypeOK,
       SharedTypeOK
  <2>3. CallsTypeOK'
    <3>1. apc' \in [Torrents -> AddStates]
      BY <1>5, <2>1 DEF PersistWrite, TypeOK, CallsTypeOK, AddStates
    <3>2. spc' \in [Torrents -> CallStates]
      BY <1>5, <2>1 DEF PersistWrite, TypeOK, CallsTypeOK, Answer, CallStates
    <3> QED
      BY <1>5, <3>1, <3>2 DEF PersistWrite, TypeOK, CallsTypeOK
  <2>4. TasksTypeOK'
    BY <1>5, <2>1 DEF PersistWrite, TypeOK, TasksTypeOK, shutVars
  <2>5. HistoryTypeOK'
    BY <1>5, <2>1, TypeDec DEF PersistWrite, TypeOK, HistoryTypeOK
  <2> QED
    BY <1>5, <2>2, <2>3, <2>4, <2>5, TypeUnchanged DEF PersistWrite, TypeOK
<1>6. CASE PersistDelete
  <2>1. current[1].t \in Torrents
    BY <1>3, <1>4, <1>6 DEF PersistDelete, DeleteOp
  <2>2. SharedTypeOK' /\ HistoryTypeOK'
    BY <1>6, <2>1 DEF PersistDelete, TypeOK, SharedTypeOK, HistoryTypeOK, NoFile
  <2>3. TasksTypeOK'
    BY <1>6 DEF PersistDelete, TypeOK, TasksTypeOK, shutVars
  <2> QED
    BY <1>6, <2>2, <2>3, TypeUnchanged DEF PersistDelete, TypeOK
<1>7. CASE PersistState
  <2>1. TasksTypeOK'
    BY <1>7 DEF PersistState, TypeOK, TasksTypeOK, Phases
  <2> QED
    BY <1>7, <2>1, TypeUnchanged DEF PersistState, TypeOK
<1> QED
  BY <1>1, <1>5, <1>6, <1>7 DEF PersisterNext

LEMMA TypeCalls ==
    ASSUME Accounting, CallNext
    PROVE  TypeOK'
<1> USE DEF Accounting
<1>1. ASSUME NEW t \in Torrents, Unwind(t)
      PROVE  /\ apc' \in [Torrents -> AddStates]
             /\ dirty' \subseteq Torrents /\ registry' \subseteq Torrents
             /\ rmPosted' \subseteq Torrents
  BY <1>1 DEF Unwind, unregister, TypeOK, LtTypeOK, SharedTypeOK, CallsTypeOK,
     AddStates
<1>2. ASSUME NEW t \in Torrents, AddCall(t)
      PROVE  TypeOK'
  <2>1. LtTypeOK' /\ CallsTypeOK'
    BY <1>2 DEF AddCall, TypeOK, LtTypeOK, CallsTypeOK, AddStates, Lives
  <2> QED
    BY <1>2, <2>1, TypeUnchanged DEF AddCall, TypeOK
<1>3. ASSUME NEW t \in Torrents, AddRegister(t)
      PROVE  TypeOK'
  <2>1. SharedTypeOK' /\ CallsTypeOK'
    BY <1>3 DEF AddRegister, upsert, TypeOK, SharedTypeOK, CallsTypeOK, AddStates
  <2> QED
    BY <1>3, <2>1, TypeUnchanged DEF AddRegister, TypeOK
<1>4. ASSUME NEW t \in Torrents, AddEnqueue(t)
      PROVE  TypeOK'
  <2>1. CASE Unwind(t) /\ UNCHANGED <<token, addId, inflight>>
    BY <1>1, <1>4, <2>1, TypeUnchanged DEF AddEnqueue, TypeOK, LtTypeOK,
       SharedTypeOK, CallsTypeOK, HistoryTypeOK, observed
  <2>2. CASE ~(Unwind(t) /\ UNCHANGED <<token, addId, inflight>>)
    <3>1. PICK id \in Tokens :
             /\ token' = [token EXCEPT ![id] = "sending"]
             /\ addId' = [addId EXCEPT ![t] = id]
      BY <1>4, <2>2 DEF AddEnqueue
    <3>2. /\ inflight' = inflight + 1
          /\ apc' = [apc EXCEPT ![t] = "sending"]
          /\ UNCHANGED <<dirty, registry, rmPosted>>
      BY <1>4, <2>2 DEF AddEnqueue
    <3>3. CallsTypeOK' /\ HistoryTypeOK'
      BY <1>4, <3>1, <3>2 DEF AddEnqueue, TypeOK, CallsTypeOK, HistoryTypeOK,
         AddStates, Stages, observed
    <3>4. SharedTypeOK' /\ LtTypeOK'
      BY <1>4, <3>2 DEF AddEnqueue, TypeOK, SharedTypeOK, LtTypeOK
    <3> QED
      BY <1>4, <3>3, <3>4, TypeUnchanged DEF AddEnqueue, TypeOK
  <2> QED
    BY <2>1, <2>2
<1>5. ASSUME NEW t \in Torrents, AddSend(t)
      PROVE  TypeOK'
  <2> DEFINE w == [kind |-> "write", t |-> t, id |-> addId[t], v |-> 0,
                   ack |-> "add"]
  <2>1. addId[t] \in Tokens
    BY <1>5 DEF AddSend, TokensCarried, CarryAdds
  <2>2. w \in PersistOp
    BY <2>1 DEF PersistOp, WriteOp
  <2>3. queue' = Append(queue, w)
    BY <1>5 DEF AddSend
  <2>4. queue' \in Seq(PersistOp)
    BY <2>2, <2>3, SeqTypes DEF TypeOK, SharedTypeOK
  <2>5. SharedTypeOK'
    BY <1>5, <2>4 DEF AddSend, TypeOK, SharedTypeOK
  <2>6. CallsTypeOK' /\ HistoryTypeOK'
    BY <1>5, <2>1 DEF AddSend, TypeOK, CallsTypeOK, HistoryTypeOK, AddStates,
       Stages, observed
  <2> QED
    BY <1>5, <2>5, <2>6, TypeUnchanged DEF AddSend, TypeOK
<1>6. ASSUME NEW t \in Torrents, AddAcked(t)
      PROVE  TypeOK'
  <2>1. CallsTypeOK' /\ HistoryTypeOK'
    BY <1>6 DEF AddAcked, TypeOK, CallsTypeOK, HistoryTypeOK, AddStates
  <2> QED
    BY <1>6, <2>1, TypeUnchanged DEF AddAcked, TypeOK
<1>7. ASSUME NEW t \in Torrents, AddDelete(t)
      PROVE  TypeOK'
  <2>1. [kind |-> "delete", t |-> t] \in PersistOp
    BY DEF PersistOp, DeleteOp
  <2>2. queue' \in Seq(PersistOp)
    BY <1>7, <2>1, SeqTypes DEF AddDelete, TypeOK, SharedTypeOK
  <2>3. SharedTypeOK' /\ CallsTypeOK'
    BY <1>7, <2>2 DEF AddDelete, TypeOK, SharedTypeOK, CallsTypeOK, AddStates
  <2> QED
    BY <1>7, <2>3, TypeUnchanged DEF AddDelete, TypeOK
<1>8. ASSUME NEW t \in Torrents, AddNacked(t)
      PROVE  TypeOK'
  BY <1>1, <1>8, TypeUnchanged DEF AddNacked, TypeOK, LtTypeOK, SharedTypeOK,
     CallsTypeOK
<1>9. ASSUME NEW t \in Torrents, AddDrop(t)
      PROVE  TypeOK'
  <2>1. CallsTypeOK' /\ HistoryTypeOK'
    BY <1>9 DEF AddDrop, TypeOK, CallsTypeOK, HistoryTypeOK, AddStates, Stages,
       observed
  <2> QED
    BY <1>9, <2>1, TypeUnchanged DEF AddDrop, TypeOK
<1>10. ASSUME NEW t \in Torrents, RemoveCall(t)
       PROVE  TypeOK'
  <2>1. LtTypeOK' /\ CallsTypeOK'
    BY <1>10 DEF RemoveCall, TypeOK, LtTypeOK, CallsTypeOK, CallStates
  <2> QED
    BY <1>10, <2>1, TypeUnchanged DEF RemoveCall, TypeOK
<1>11. ASSUME NEW t \in Torrents, RemoveGiveUp(t) \/ SaveGiveUp(t)
       PROVE  TypeOK'
  <2>1. CallsTypeOK'
    BY <1>11 DEF RemoveGiveUp, SaveGiveUp, TypeOK, CallsTypeOK, CallStates
  <2> QED
    BY <1>11, <2>1, TypeUnchanged DEF RemoveGiveUp, SaveGiveUp, TypeOK
<1>12. ASSUME NEW t \in Torrents, SaveCall(t)
       PROVE  TypeOK'
  <2>1. PostSave(t, "always") \/ NoPost
    BY <1>12 DEF SaveCall
  <2>2. LtTypeOK' /\ SharedTypeOK' /\ HistoryTypeOK'
    BY <1>12, <2>1, TypePost DEF SaveCall, TypeOK, LtTypeOK, SharedTypeOK,
       HistoryTypeOK, observed
  <2>3. CallsTypeOK'
    BY <1>12 DEF SaveCall, TypeOK, CallsTypeOK, CallStates
  <2> QED
    BY <1>12, <2>2, <2>3, TypeUnchanged DEF SaveCall, TypeOK
<1> QED
  BY <1>2, <1>3, <1>4, <1>5, <1>6, <1>7, <1>8, <1>9, <1>10, <1>11, <1>12
  DEF CallNext

LEMMA TypeSweepShutdown ==
    ASSUME TypeOK, SweepNext \/ ShutdownNext
    PROVE  TypeOK'
<1>1. CASE SweepTick
  BY <1>1, TypeUnchanged DEF SweepTick, TypeOK, SharedTypeOK, TasksTypeOK,
     shutVars
<1>2. ASSUME NEW t \in Torrents, SweepVisit(t) \/ FlushVisit(t)
      PROVE  TypeOK'
  <2>1. PICK flag \in {"always", "ifModified"} : PostSave(t, flag) \/ NoPost
    BY <1>2 DEF SweepVisit, FlushVisit
  <2>2. LtTypeOK' /\ SharedTypeOK'
    BY <1>2, <2>1, TypePost DEF SweepVisit, FlushVisit, TypeOK, LtTypeOK,
       SharedTypeOK
  <2>3. HistoryTypeOK'
    <3>1. flushVer' \in [Torrents -> Int]
      BY <1>2 DEF SweepVisit, FlushVisit, TypeOK, LtTypeOK, HistoryTypeOK,
         observed
    <3> QED
      BY <1>2, <2>1, <3>1, TypePost DEF SweepVisit, FlushVisit, TypeOK,
         HistoryTypeOK, observed
  <2>4. TasksTypeOK'
    BY <1>2 DEF SweepVisit, FlushVisit, TypeOK, TasksTypeOK, shutVars
  <2> QED
    BY <1>2, <2>2, <2>3, <2>4, TypeUnchanged DEF SweepVisit, FlushVisit, TypeOK
<1>3. CASE StateSend
  <2>1. [kind |-> "state"] \in PersistOp
    BY DEF PersistOp, StateOp
  <2>2. queue' \in Seq(PersistOp)
    BY <1>3, <2>1, SeqTypes DEF StateSend, TypeOK, SharedTypeOK
  <2>3. SharedTypeOK' /\ TasksTypeOK'
    BY <1>3, <2>2 DEF StateSend, TypeOK, SharedTypeOK, TasksTypeOK, Phases
  <2> QED
    BY <1>3, <2>3, TypeUnchanged DEF StateSend, TypeOK
<1>4. CASE ShutdownStart \/ FlushStart \/ FlushWait \/ FlushEnd \/ StateGiveUp
             \/ DropSender \/ PersisterEnd
  <2>1. TasksTypeOK'
    BY <1>4 DEF ShutdownStart, FlushStart, FlushWait, FlushEnd, StateGiveUp,
       DropSender, PersisterEnd, TypeOK, SharedTypeOK, TasksTypeOK, Phases
  <2>2. UNCHANGED <<ltVars, shared, pumpVars, calls, history>>
    BY <1>4 DEF ShutdownStart, FlushStart, FlushWait, FlushEnd, StateGiveUp,
       DropSender, PersisterEnd
  <2> QED
    BY <2>1, <2>2, TypeUnchanged DEF TypeOK
<1> QED
  BY <1>1, <1>2, <1>3, <1>4 DEF SweepNext, ShutdownNext

(***************************************************************************)
(* Who carries tokens, step by step.                                       *)
(***************************************************************************)
Absent(s, kinds, id) ==
    \A i \in 1 .. Len(s) : s[i].kind \in kinds => s[i].id # id

\* What Accounting says beyond the types.
Carried ==
    /\ TokensCarried /\ InflightExact /\ NeverFatal
    /\ pc = "save" => batch # <<>>

LEMMA CarriedInit == Init => Carried
<1> SUFFICES ASSUME Init PROVE Carried
  OBVIOUS
<1>1. TokensCarried
  BY DEF Init, TokensCarried, Carry, CarryPosted, CarryAdds
<1>2. InUse(token) = {}
  BY DEF Init, InUse
<1> QED
  BY <1>1, <1>2, FS_EmptySet DEF Init, Carried, InflightExact, NeverFatal

\* A step that touches no holder of a token.
LEMMA CarriedUnchanged ==
    ASSUME Accounting,
           UNCHANGED <<token, posted, alerts, batch, ops, queue, current,
                       inflight, process>>,
           \A t \in Torrents : apc'[t] = "sending" =>
                apc[t] = "sending" /\ addId'[t] = addId[t],
           pc' = "save" => pc = "save"
    PROVE  Carried'
<1>1. CarryAdds(apc', addId', token)
  BY DEF Accounting, TokensCarried, CarryAdds
<1> QED
  BY <1>1 DEF Accounting, TokensCarried, Carried, InflightExact, NeverFatal

\* When the stage of one token changes, only its holder can notice.
LEMMA CarriedElsewhere ==
    ASSUME Accounting, NEW id \in Tokens, NEW x \in Stages,
           NEW tk, tk = [token EXCEPT ![id] = x]
    PROVE  /\ token[id] # "posted" => CarryPosted(posted, tk)
           /\ token[id] # "alert" => /\ Carry(alerts, SaveKinds, "alert", tk)
                                     /\ Absent(alerts, SaveKinds, id)
           /\ token[id] # "batch" => /\ Carry(batch, SaveKinds, "batch", tk)
                                     /\ Absent(batch, SaveKinds, id)
           /\ token[id] # "op" => /\ Carry(ops, WriteKinds, "op", tk)
                                  /\ Absent(ops, WriteKinds, id)
           /\ token[id] # "queue" => /\ Carry(queue, WriteKinds, "queue", tk)
                                     /\ Absent(queue, WriteKinds, id)
           /\ token[id] # "writing" => Carry(current, WriteKinds, "writing", tk)
           /\ token[id] # "sending" => CarryAdds(apc, addId, tk)
<1> USE DEF Accounting, TokensCarried
<1>1. token \in [Tokens -> Stages] /\ posted \subseteq SaveRequest
  BY DEF TypeOK, HistoryTypeOK, LtTypeOK
<1>2. token[id] # "posted" => CarryPosted(posted, tk)
  BY <1>1 DEF CarryPosted, SaveRequest
<1>3. token[id] # "sending" => CarryAdds(apc, addId, tk)
  BY <1>1 DEF CarryAdds
<1>4. token[id] # "alert" => /\ Carry(alerts, SaveKinds, "alert", tk)
                             /\ Absent(alerts, SaveKinds, id)
  BY <1>1, CarryOther DEF Absent
<1>5. token[id] # "batch" => /\ Carry(batch, SaveKinds, "batch", tk)
                             /\ Absent(batch, SaveKinds, id)
  BY <1>1, CarryOther DEF Absent
<1>6. token[id] # "op" => /\ Carry(ops, WriteKinds, "op", tk)
                          /\ Absent(ops, WriteKinds, id)
  BY <1>1, CarryOther DEF Absent
<1>7. token[id] # "queue" => /\ Carry(queue, WriteKinds, "queue", tk)
                             /\ Absent(queue, WriteKinds, id)
  BY <1>1, CarryOther DEF Absent
<1>8. token[id] # "writing" => Carry(current, WriteKinds, "writing", tk)
  BY <1>1, CarryOther
<1> QED
  BY <1>2, <1>3, <1>4, <1>5, <1>6, <1>7, <1>8

\* An accepted or refused save: the token it takes was free.
LEMMA CarriedPost ==
    ASSUME Accounting, NEW t \in Torrents, NEW flag,
           PostSave(t, flag) \/ NoPost
    PROVE  /\ CarryPosted(posted', token')
           /\ Carry(alerts, SaveKinds, "alert", token')
           /\ Carry(batch, SaveKinds, "batch", token')
           /\ Carry(ops, WriteKinds, "op", token')
           /\ Carry(queue, WriteKinds, "queue", token')
           /\ Carry(current, WriteKinds, "writing", token')
           /\ CarryAdds(apc, addId, token')
           /\ inflight' = Cardinality(InUse(token'))
<1>1. CASE NoPost
  BY <1>1 DEF NoPost, Accounting, TokensCarried, InflightExact
<1>2. CASE PostSave(t, flag)
  <2>1. PICK id \in Tokens :
           /\ token[id] = "free"
           /\ token' = [token EXCEPT ![id] = "posted"]
           /\ posted' = posted \cup {[t |-> t, id |-> id, flag |-> flag]}
           /\ inflight' = inflight + 1
    BY <1>2 DEF PostSave
  <2>2. token \in [Tokens -> Stages] /\ posted \subseteq SaveRequest
    BY DEF Accounting, TypeOK, HistoryTypeOK, LtTypeOK
  <2>3. CarryPosted(posted', token')
    BY <2>1, <2>2 DEF Accounting, TokensCarried, CarryPosted, SaveRequest
  <2>4. inflight' = Cardinality(InUse(token'))
    BY <2>1, <2>2, Take DEF Accounting, InflightExact, Stages
  <2> QED
    BY <2>1, <2>3, <2>4, CarriedElsewhere DEF Stages
<1> QED
  BY <1>1, <1>2

\* A release: the token was in use, so the counter was not zero.
LEMMA CountDec ==
    ASSUME Accounting, NEW id \in Tokens, token[id] # "free", Dec(id)
    PROVE  /\ token' = [token EXCEPT ![id] = "free"]
           /\ inflight' = Cardinality(InUse(token'))
           /\ NeverFatal'
<1>1. token \in [Tokens -> Stages] /\ inflight = Cardinality(InUse(token))
  BY DEF Accounting, TypeOK, HistoryTypeOK, InflightExact
<1>2. inflight # 0
  BY <1>1, Release
<1> QED
  BY <1>1, <1>2, Release DEF Accounting, Dec, NeverFatal

LEMMA CarriedLibtorrent ==
    ASSUME Accounting, LibtorrentNext
    PROVE  Carried'
<1> USE DEF ltVars, shared, pumpVars, calls, shutVars, observed, history
<1>1. ASSUME NEW k \in {"added", "addFailed", "removed", "finished", "moved"},
             NEW t \in Torrents
      PROVE  Carry(Append(alerts, PlainAlert(k, t)), SaveKinds, "alert", token)
  <2>1. PlainAlert(k, t) \in Alert /\ PlainAlert(k, t).kind \notin SaveKinds
    BY DEF PlainAlert, Alert, AlertKinds, SaveKinds
  <2> QED
    BY <2>1, CarryAppend DEF Accounting, TypeOK, LtTypeOK, TokensCarried
<1>2. ASSUME NEW t \in Torrents,
             LtAdd(t) \/ LtRemove(t) \/ LtExpire(t) \/ LtChange(t)
                \/ LtFinished(t) \/ LtMoved(t)
      PROVE  Carried'
  <2>1. \/ UNCHANGED alerts
        \/ \E k \in {"added", "addFailed", "removed", "finished", "moved"} :
              alerts' = Append(alerts, PlainAlert(k, t))
    BY <1>2 DEF LtAdd, LtRemove, LtExpire, LtChange, LtFinished, LtMoved
  <2>2. Carry(alerts', SaveKinds, "alert", token)
    BY <1>1, <2>1 DEF Accounting, TokensCarried
  <2>3. UNCHANGED <<token, posted, shared, pumpVars, current, calls>>
    BY <1>2 DEF LtAdd, LtRemove, LtExpire, LtChange, LtFinished, LtMoved
  <2> QED
    BY <2>2, <2>3 DEF Accounting, TokensCarried, Carried, InflightExact,
       NeverFatal
<1>3. ASSUME NEW p \in posted, LtAnswerSave(p)
      PROVE  Carried'
  <2>1. /\ p.id \in Tokens /\ p.t \in Torrents /\ token[p.id] = "posted"
        /\ token \in [Tokens -> Stages] /\ ver[p.t] \in Int
    BY DEF Accounting, TypeOK, LtTypeOK, HistoryTypeOK, SaveRequest,
       TokensCarried, CarryPosted
  <2>2. PICK a \in Alert : /\ a.kind \in SaveKinds /\ a.id = p.id
                           /\ alerts' = Append(alerts, a)
    <3>1. /\ [kind |-> "saved", t |-> p.t, id |-> p.id, v |-> ver[p.t]]
                \in Alert
          /\ [kind |-> "saveFailed", t |-> p.t, id |-> p.id, v |-> 0] \in Alert
      BY <2>1 DEF Alert, AlertKinds
    <3> QED
      BY <1>3, <3>1 DEF LtAnswerSave, SaveKinds
  <2>3. token' = [token EXCEPT ![p.id] = "alert"] /\ posted' = posted \ {p}
    BY <1>3 DEF LtAnswerSave
  <2>4. Carry(alerts', SaveKinds, "alert", token')
    <3>1. /\ Carry(alerts, SaveKinds, "alert", token')
          /\ Absent(alerts, SaveKinds, p.id) /\ token'[p.id] = "alert"
      BY <2>1, <2>3, CarriedElsewhere DEF Stages
    <3> QED
      BY <2>1, <2>2, <3>1, CarryAppend DEF Accounting, TypeOK, LtTypeOK, Absent
  <2>5. CarryPosted(posted', token')
    BY <2>1, <2>3 DEF Accounting, TypeOK, LtTypeOK, SaveRequest, TokensCarried,
       CarryPosted
  <2>6. InUse(token') = InUse(token)
    BY <2>1, <2>3, PassOn DEF Stages
  <2>7. UNCHANGED <<shared, pumpVars, current, calls>>
    BY <1>3 DEF LtAnswerSave
  <2> QED
    BY <2>1, <2>3, <2>4, <2>5, <2>6, <2>7, CarriedElsewhere DEF Accounting,
       TokensCarried, Carried, InflightExact, NeverFatal, Stages
<1> QED
  BY <1>2, <1>3 DEF LibtorrentNext

\* A step that consumes the first alert of the batch and touches no token.
LEMMA CarriedConsume ==
    ASSUME Accounting, batch # <<>>, batch' = Tail(batch),
           UNCHANGED <<token, posted, alerts, queue, current, inflight,
                       process, apc, addId>>,
           Carry(ops', WriteKinds, "op", token), pc' # "save"
    PROVE  Carried'
<1>1. Carry(Tail(batch), SaveKinds, "batch", token)
  BY CarryTail DEF Accounting, TypeOK, PumpTypeOK, TokensCarried
<1> QED
  BY <1>1 DEF Accounting, TokensCarried, Carried, InflightExact, NeverFatal

LEMMA CarriedPump ==
    ASSUME Accounting, PumpNext
    PROVE  Carried'
<1> USE DEF ltVars, shared, pumpVars, calls, shutVars, observed, history
<1>1. /\ token \in [Tokens -> Stages] /\ batch \in Seq(Alert)
      /\ ops \in Seq(PersistOp) /\ queue \in Seq(PersistOp)
  BY DEF Accounting, TypeOK, SharedTypeOK, PumpTypeOK, HistoryTypeOK
<1>2. CASE PumpPop
  <2>1. /\ batch' = alerts /\ alerts' = <<>> /\ pc' = "handle"
        /\ token' = [id \in Tokens |-> IF token[id] = "alert" THEN "batch"
                                                              ELSE token[id]]
        /\ UNCHANGED <<posted, ops, queue, current, inflight, process, addId>>
    BY <1>2 DEF PumpPop
  <2>2. \A t \in Torrents : apc'[t] = "sending" => apc[t] = "sending"
    BY <1>2 DEF PumpPop
  <2>3. Carry(batch', SaveKinds, "batch", token') /\ Len(alerts') = 0
    BY <2>1 DEF Accounting, TokensCarried, Carry
  <2>4. Carry(alerts', SaveKinds, "alert", token')
    BY <2>3 DEF Carry
  <2>5. CarryPosted(posted', token')
    BY <2>1 DEF Accounting, TypeOK, LtTypeOK, SaveRequest, TokensCarried,
       CarryPosted
  <2>6. /\ Carry(ops', WriteKinds, "op", token')
        /\ Carry(queue', WriteKinds, "queue", token')
        /\ Carry(current', WriteKinds, "writing", token')
    BY <2>1 DEF Accounting, TokensCarried, Carry
  <2>7. CarryAdds(apc', addId', token')
    BY <2>1, <2>2 DEF Accounting, TokensCarried, CarryAdds
  <2>8. InUse(token') = InUse(token)
    BY <1>1, <2>1 DEF InUse
  <2> QED
    BY <2>1, <2>3, <2>4, <2>5, <2>6, <2>7, <2>8 DEF Accounting, TokensCarried,
       Carried, InflightExact, NeverFatal
<1>3. CASE HandleAddFailed \/ HandleAdded
  BY <1>3, CarriedConsume DEF HandleAddFailed, HandleAdded, Consume, Accounting,
     TokensCarried
<1>4. CASE HandleRemoved
  <2> DEFINE d == [kind |-> "delete", t |-> Head(batch).t]
  <2>1. batch # <<>> /\ Head(batch) \in Alert
    BY <1>1, <1>4, SeqTypes DEF HandleRemoved, Consume
  <2>2. d \in PersistOp /\ d.kind \notin WriteKinds
    BY <2>1 DEF Alert, PersistOp, DeleteOp, WriteKinds
  <2>3. Carry(Append(ops, d), WriteKinds, "op", token)
    BY <1>1, <2>2, CarryAppend DEF Accounting, TokensCarried
  <2>4. ops' = Append(ops, d) \/ ops' = ops
    BY <1>4 DEF HandleRemoved, WithDelete
  <2>5. Carry(ops', WriteKinds, "op", token)
    BY <2>3, <2>4 DEF Accounting, TokensCarried
  <2> QED
    BY <1>4, <2>5, CarriedConsume DEF HandleRemoved, Consume
<1>5. CASE HandleSaveTrigger
  <2>1. CASE Quiesced
    BY <1>5, <2>1, CarriedConsume DEF HandleSaveTrigger, Consume, Accounting,
       TokensCarried
  <2>2. CASE ~Quiesced
    BY <1>5, <2>2 DEF HandleSaveTrigger, Accounting, TokensCarried, Carried,
       InflightExact, NeverFatal
  <2> QED
    BY <2>1, <2>2
<1>6. CASE RequestSave
  <2>1. batch # <<>> /\ Head(batch) \in Alert
    BY <1>1, <1>6, SeqTypes DEF RequestSave, Accounting
  <2>2. /\ Head(batch).t \in Torrents
        /\ PostSave(Head(batch).t, TriggerFlag) \/ NoPost
    BY <1>6, <2>1 DEF RequestSave, Alert
  <2>3. Carry(Tail(batch), SaveKinds, "batch", token')
    BY <1>1, <2>1, <2>2, CarriedPost, CarryTail
  <2> QED
    BY <1>6, <2>2, <2>3, CarriedPost DEF RequestSave, Accounting,
       TokensCarried, Carried, InflightExact, NeverFatal
<1>7. CASE HandleSaved
  <2> DEFINE a == Head(batch)
             w == [kind |-> "write", t |-> a.t, id |-> a.id, v |-> a.v,
                   ack |-> "none"]
  <2>1. batch # <<>> /\ a \in Alert /\ a.kind \in SaveKinds
    BY <1>1, <1>7, SeqTypes DEF HandleSaved, Consume, SaveKinds
  <2>2. a.id \in Tokens /\ token[a.id] = "batch"
    BY <1>1, <2>1, CarryTail DEF Accounting, TokensCarried
  <2>3. /\ UNCHANGED <<posted, alerts, queue, current, apc, addId>>
        /\ batch' = Tail(batch) /\ pc' # "save"
    BY <1>7 DEF HandleSaved, Consume
  <2>4. CASE ops' = Append(ops, w) /\ token' = [token EXCEPT ![a.id] = "op"]
               /\ UNCHANGED <<inflight, process, spc>>
    <3>1. Carry(batch', SaveKinds, "batch", token')
      BY <1>1, <2>1, <2>3, <2>4, CarryMoved DEF Accounting, TokensCarried,
         Stages
    <3>2. w \in PersistOp
      BY <2>1, <2>2 DEF Alert, PersistOp, WriteOp
    <3>3. /\ Carry(ops, WriteKinds, "op", token') /\ Absent(ops, WriteKinds, a.id)
          /\ token'[a.id] = "op"
      BY <1>1, <2>2, <2>4, CarriedElsewhere DEF Stages
    <3>4. Carry(ops', WriteKinds, "op", token')
      BY <1>1, <2>2, <2>4, <3>2, <3>3, CarryAppend DEF Absent
    <3>5. InUse(token') = InUse(token)
      BY <1>1, <2>2, <2>4, PassOn DEF Stages
    <3> QED
      BY <2>2, <2>3, <2>4, <3>1, <3>4, <3>5, CarriedElsewhere DEF Accounting,
         TokensCarried, Carried, InflightExact, NeverFatal, Stages
  <2>5. CASE Dec(a.id) /\ UNCHANGED ops
    <3>1. /\ token' = [token EXCEPT ![a.id] = "free"]
          /\ inflight' = Cardinality(InUse(token')) /\ NeverFatal'
      BY <2>2, <2>5, CountDec
    <3>2. Carry(batch', SaveKinds, "batch", token')
      BY <1>1, <2>1, <2>3, <3>1, CarryMoved DEF Accounting, TokensCarried,
         Stages
    <3> QED
      BY <2>2, <2>3, <2>5, <3>1, <3>2, CarriedElsewhere DEF Accounting,
         TokensCarried, Carried, InflightExact, Stages
  <2> QED
    BY <1>7, <2>4, <2>5 DEF HandleSaved
<1>8. CASE HandleSaveFailed
  <2> DEFINE a == Head(batch)
  <2>1. batch # <<>> /\ a.kind \in SaveKinds
    BY <1>8 DEF HandleSaveFailed, Consume, SaveKinds
  <2>2. a.id \in Tokens /\ token[a.id] = "batch"
    BY <1>1, <2>1, CarryTail DEF Accounting, TokensCarried
  <2>3. /\ UNCHANGED <<posted, alerts, ops, queue, current, apc, addId>>
        /\ batch' = Tail(batch) /\ pc' # "save" /\ Dec(a.id)
    BY <1>8 DEF HandleSaveFailed, Consume
  <2>4. /\ token' = [token EXCEPT ![a.id] = "free"]
        /\ inflight' = Cardinality(InUse(token')) /\ NeverFatal'
    BY <2>2, <2>3, CountDec
  <2>5. Carry(batch', SaveKinds, "batch", token')
    BY <1>1, <2>1, <2>3, <2>4, CarryMoved DEF Accounting, TokensCarried, Stages
  <2> QED
    BY <2>2, <2>3, <2>4, <2>5, CarriedElsewhere DEF Accounting, TokensCarried,
       Carried, InflightExact, Stages
<1>9. CASE PumpSend
  <2>1. CASE ops = <<>>
    <3>1. UNCHANGED <<queue, ops, token>> /\ pc' = "select"
      BY <1>9, <2>1 DEF PumpSend
    <3> QED
      BY <1>9, <3>1, CarriedUnchanged DEF PumpSend
  <2>2. CASE ops # <<>>
    <3> DEFINE o == Head(ops)
    <3>1. /\ queue' = Append(queue, o) /\ ops' = Tail(ops)
          /\ token' = IF o.kind = "write"
                      THEN [token EXCEPT ![o.id] = "queue"] ELSE token
          /\ UNCHANGED <<pc, posted, alerts, batch, current, inflight, process,
                         apc, addId>>
      BY <1>9, <2>2 DEF PumpSend
    <3>2. o \in PersistOp
      BY <1>1, <2>2, SeqTypes
    <3>3. CASE o.kind = "write"
      <4>1. o.kind \in WriteKinds /\ o.id \in Tokens /\ token[o.id] = "op"
        BY <1>1, <2>2, <3>3, CarryTail DEF WriteKinds, Accounting, TokensCarried
      <4>2. Carry(ops', WriteKinds, "op", token')
        BY <1>1, <2>2, <3>1, <3>3, <4>1, CarryMoved DEF Accounting,
           TokensCarried, Stages
      <4>3. /\ Carry(queue, WriteKinds, "queue", token')
            /\ Absent(queue, WriteKinds, o.id) /\ token'[o.id] = "queue"
        BY <1>1, <3>1, <3>3, <4>1, CarriedElsewhere DEF Stages
      <4>4. Carry(queue', WriteKinds, "queue", token')
        BY <1>1, <3>1, <3>2, <4>1, <4>3, CarryAppend DEF Absent
      <4>5. InUse(token') = InUse(token)
        BY <1>1, <3>1, <3>3, <4>1, PassOn DEF Stages
      <4> QED
        BY <3>1, <3>3, <4>1, <4>2, <4>4, <4>5, CarriedElsewhere DEF Accounting,
           TokensCarried, Carried, InflightExact, NeverFatal, Stages
    <3>4. CASE o.kind # "write"
      <4>1. Carry(ops', WriteKinds, "op", token)
        BY <1>1, <2>2, <3>1, CarryTail DEF Accounting, TokensCarried
      <4>2. Carry(queue', WriteKinds, "queue", token)
        BY <1>1, <3>1, <3>2, <3>4, CarryAppend DEF WriteKinds, Accounting,
           TokensCarried
      <4> QED
        BY <3>1, <3>4, <4>1, <4>2 DEF Accounting, TokensCarried, Carried,
           InflightExact, NeverFatal
    <3> QED
      BY <3>3, <3>4
  <2> QED
    BY <2>1, <2>2
<1>10. CASE RetryTick \/ RetryDone \/ PumpStop
  BY <1>10, CarriedUnchanged DEF RetryTick, RetryDone, PumpStop
<1>11. ASSUME NEW t \in Torrents, RetryVisit(t)
       PROVE  Carried'
  <2>1. PostSave(t, "always") \/ NoPost
    BY <1>11 DEF RetryVisit
  <2>2. UNCHANGED <<pc, alerts, batch, ops, queue, current, process, apc, addId>>
    BY <1>11 DEF RetryVisit
  <2> QED
    BY <2>1, <2>2, CarriedPost DEF Accounting, TokensCarried, Carried,
       InflightExact, NeverFatal
<1>12. CASE PumpAbort
  <2>1. /\ ops' = <<>> /\ pc' = "stopped"
        /\ token' = [id \in Tokens |-> IF token[id] = "op" THEN "leaked"
                                                           ELSE token[id]]
        /\ UNCHANGED <<posted, alerts, batch, queue, current, inflight, process,
                       apc, addId>>
    BY <1>12 DEF PumpAbort
  <2>2. Carry(ops', WriteKinds, "op", token')
    BY <2>1 DEF Carry
  <2>3. CarryPosted(posted', token')
    BY <2>1 DEF Accounting, TypeOK, LtTypeOK, SaveRequest, TokensCarried,
       CarryPosted
  <2>4. /\ Carry(alerts', SaveKinds, "alert", token')
        /\ Carry(batch', SaveKinds, "batch", token')
        /\ Carry(queue', WriteKinds, "queue", token')
        /\ Carry(current', WriteKinds, "writing", token')
    BY <2>1 DEF Accounting, TokensCarried, Carry
  <2>5. CarryAdds(apc', addId', token')
    BY <2>1 DEF Accounting, TokensCarried, CarryAdds
  <2>6. InUse(token') = InUse(token)
    BY <1>1, <2>1 DEF InUse
  <2> QED
    BY <2>1, <2>2, <2>3, <2>4, <2>5, <2>6 DEF Accounting, TokensCarried,
       Carried, InflightExact, NeverFatal
<1> QED
  BY <1>2, <1>3, <1>4, <1>5, <1>6, <1>7, <1>8, <1>9, <1>10, <1>11, <1>12
  DEF PumpNext

LEMMA CarriedPersister ==
    ASSUME Accounting, PersisterNext
    PROVE  Carried'
<1> USE DEF ltVars, shared, pumpVars, calls, shutVars, observed, history
<1>1. /\ token \in [Tokens -> Stages] /\ queue \in Seq(PersistOp)
      /\ current \in Seq(PersistOp)
  BY DEF Accounting, TypeOK, SharedTypeOK, TasksTypeOK, HistoryTypeOK
<1>2. \A tk : Carry(<<>>, WriteKinds, "writing", tk)
  BY DEF Carry
<1>3. CASE PersistRecv
  <2> DEFINE o == Head(queue)
  <2>1. /\ current' = <<o>> /\ queue' = Tail(queue) /\ queue # <<>>
        /\ token' = IF o.kind = "write"
                    THEN [token EXCEPT ![o.id] = "writing"] ELSE token
        /\ UNCHANGED <<pc, posted, alerts, batch, ops, inflight, process,
                       apc, addId>>
    BY <1>3 DEF PersistRecv
  <2>2. CASE o.kind = "write"
    <3>1. o.kind \in WriteKinds /\ o.id \in Tokens /\ token[o.id] = "queue"
      BY <1>1, <2>1, <2>2, CarryTail DEF WriteKinds, Accounting, TokensCarried
    <3>2. Carry(queue', WriteKinds, "queue", token')
      BY <1>1, <2>1, <2>2, <3>1, CarryMoved DEF Accounting, TokensCarried,
         Stages
    <3>3. Len(current') = 1 /\ current'[1] = o /\ token'[o.id] = "writing"
      BY <1>1, <2>1, <2>2, <3>1
    <3>4. Carry(current', WriteKinds, "writing", token')
      BY <3>1, <3>3 DEF Carry
    <3>5. InUse(token') = InUse(token)
      BY <1>1, <2>1, <2>2, <3>1, PassOn DEF Stages
    <3> QED
      BY <2>1, <2>2, <3>1, <3>2, <3>4, <3>5, CarriedElsewhere DEF Accounting,
         TokensCarried, Carried, InflightExact, NeverFatal, Stages
  <2>3. CASE o.kind # "write"
    <3>1. Carry(queue', WriteKinds, "queue", token)
      BY <1>1, <2>1, CarryTail DEF Accounting, TokensCarried
    <3>2. Len(current') = 1 /\ current'[1] = o
      BY <2>1
    <3>3. Carry(current', WriteKinds, "writing", token)
      BY <2>3, <3>2 DEF Carry, WriteKinds
    <3> QED
      BY <2>1, <2>3, <3>1, <3>3 DEF Accounting, TokensCarried, Carried,
         InflightExact, NeverFatal
  <2> QED
    BY <2>2, <2>3
<1>4. CASE PersistWrite
  <2> DEFINE o == current[1]
  <2>1. o.id \in Tokens /\ token[o.id] = "writing"
    <3>1. current # <<>> /\ o.kind = "write" /\ Head(current) = o
      BY <1>1, <1>4 DEF PersistWrite
    <3> QED
      BY <1>1, <3>1, CarryTail DEF WriteKinds, Accounting, TokensCarried
  <2>2. /\ Dec(o.id) /\ current' = <<>>
        /\ UNCHANGED <<pc, posted, alerts, batch, ops, queue, addId>>
    BY <1>4 DEF PersistWrite
  <2>3. /\ token' = [token EXCEPT ![o.id] = "free"]
        /\ inflight' = Cardinality(InUse(token')) /\ NeverFatal'
    BY <2>1, <2>2, CountDec
  <2>4. CarryAdds(apc', addId', token')
    <3>1. \A t \in Torrents : apc'[t] = "sending" => apc[t] = "sending"
      BY <1>4 DEF PersistWrite, Accounting, TypeOK, CallsTypeOK
    <3>2. CarryAdds(apc, addId, token')
      BY <2>1, <2>3, CarriedElsewhere DEF Stages
    <3> QED
      BY <2>2, <3>1, <3>2 DEF CarryAdds
  <2> QED
    BY <1>2, <2>1, <2>2, <2>3, <2>4, CarriedElsewhere DEF Accounting,
       TokensCarried, Carried, InflightExact, Stages
<1>5. CASE PersistDelete \/ PersistState
  BY <1>2, <1>5 DEF PersistDelete, PersistState, Accounting, TokensCarried,
     Carried, InflightExact, NeverFatal
<1> QED
  BY <1>3, <1>4, <1>5 DEF PersisterNext

LEMMA CarriedCalls ==
    ASSUME Accounting, CallNext
    PROVE  Carried'
<1> USE DEF ltVars, shared, pumpVars, calls, shutVars, observed, history
<1>1. /\ token \in [Tokens -> Stages] /\ queue \in Seq(PersistOp)
      /\ apc \in [Torrents -> AddStates]
      /\ addId \in [Torrents -> Tokens \cup {NoToken}]
  BY DEF Accounting, TypeOK, SharedTypeOK, CallsTypeOK, HistoryTypeOK
<1>2. PICK t \in Torrents :
        \/ AddCall(t) \/ AddRegister(t) \/ AddEnqueue(t) \/ AddSend(t)
        \/ AddAcked(t) \/ AddDelete(t) \/ AddNacked(t) \/ AddDrop(t)
        \/ RemoveCall(t) \/ RemoveGiveUp(t) \/ SaveCall(t) \/ SaveGiveUp(t)
  BY DEF CallNext
<1>3. CASE \/ AddCall(t) \/ AddRegister(t) \/ AddAcked(t) \/ AddNacked(t)
           \/ RemoveCall(t) \/ RemoveGiveUp(t) \/ SaveGiveUp(t)
  <2>1. \A u \in Torrents : apc'[u] = "sending" => apc[u] = "sending"
    BY <1>1, <1>3 DEF AddCall, AddRegister, AddAcked, AddNacked, Unwind,
       RemoveCall, RemoveGiveUp, SaveGiveUp
  <2>2. UNCHANGED <<token, posted, alerts, batch, ops, queue, current,
                    inflight, process, addId, pc>>
    BY <1>3 DEF AddCall, AddRegister, AddAcked, AddNacked, RemoveCall,
       RemoveGiveUp, SaveGiveUp
  <2> QED
    BY <2>1, <2>2, CarriedUnchanged
<1>4. CASE AddEnqueue(t)
  <2>1. UNCHANGED <<posted, alerts, batch, ops, queue, current, process, pc>>
    BY <1>4 DEF AddEnqueue
  <2>2. CASE Unwind(t) /\ UNCHANGED <<token, addId, inflight>>
    <3>1. \A u \in Torrents : apc'[u] = "sending" => apc[u] = "sending"
      BY <1>1, <2>2 DEF Unwind
    <3> QED
      BY <2>1, <2>2, <3>1, CarriedUnchanged
  <2>3. CASE ~(Unwind(t) /\ UNCHANGED <<token, addId, inflight>>)
    <3>1. PICK id \in Tokens :
             /\ token[id] = "free"
             /\ token' = [token EXCEPT ![id] = "sending"]
             /\ addId' = [addId EXCEPT ![t] = id]
      BY <1>4, <2>3 DEF AddEnqueue
    <3>2. inflight' = inflight + 1 /\ apc' = [apc EXCEPT ![t] = "sending"]
      BY <1>4, <2>3 DEF AddEnqueue
    <3>3. CarryAdds(apc', addId', token')
      BY <1>1, <3>1, <3>2 DEF Accounting, TokensCarried, CarryAdds
    <3>4. inflight' = Cardinality(InUse(token'))
      BY <1>1, <3>1, <3>2, Take DEF Accounting, InflightExact, Stages
    <3> QED
      BY <2>1, <3>1, <3>3, <3>4, CarriedElsewhere DEF Accounting,
         TokensCarried, Carried, InflightExact, NeverFatal, Stages
  <2> QED
    BY <2>2, <2>3
<1>5. CASE AddSend(t)
  <2> DEFINE w == [kind |-> "write", t |-> t, id |-> addId[t], v |-> 0,
                   ack |-> "add"]
  <2>1. addId[t] \in Tokens /\ token[addId[t]] = "sending"
    BY <1>5 DEF AddSend, Accounting, TokensCarried, CarryAdds
  <2>2. /\ queue' = Append(queue, w)
        /\ token' = [token EXCEPT ![addId[t]] = "queue"]
        /\ addId' = [addId EXCEPT ![t] = NoToken]
        /\ apc' = [apc EXCEPT ![t] = "acking"]
        /\ UNCHANGED <<posted, alerts, batch, ops, current, inflight, process,
                       pc>>
    BY <1>5 DEF AddSend
  <2>3. w \in PersistOp
    BY <2>1 DEF PersistOp, WriteOp
  <2>4. /\ Carry(queue, WriteKinds, "queue", token')
        /\ Absent(queue, WriteKinds, addId[t]) /\ token'[addId[t]] = "queue"
    BY <1>1, <2>1, <2>2, CarriedElsewhere DEF Stages
  <2>5. Carry(queue', WriteKinds, "queue", token')
    BY <1>1, <2>1, <2>2, <2>3, <2>4, CarryAppend DEF Absent
  <2>6. CarryAdds(apc', addId', token')
    BY <1>1, <1>5, <2>1, <2>2 DEF AddSend, Accounting, TokensCarried, CarryAdds
  <2>7. InUse(token') = InUse(token)
    BY <1>1, <2>1, <2>2, PassOn DEF Stages
  <2> QED
    BY <2>1, <2>2, <2>5, <2>6, <2>7, CarriedElsewhere DEF Accounting,
       TokensCarried, Carried, InflightExact, NeverFatal, Stages
<1>6. CASE AddDelete(t)
  <2> DEFINE d == [kind |-> "delete", t |-> t]
  <2>1. d \in PersistOp /\ d.kind \notin WriteKinds
    BY DEF PersistOp, DeleteOp, WriteKinds
  <2>2. /\ queue' = Append(queue, d) /\ apc' = [apc EXCEPT ![t] = "ok"]
        /\ UNCHANGED <<token, posted, alerts, batch, ops, current, inflight,
                       process, addId, pc>>
    BY <1>6 DEF AddDelete
  <2>3. Carry(queue', WriteKinds, "queue", token)
    BY <1>1, <2>1, <2>2, CarryAppend DEF Accounting, TokensCarried
  <2>4. CarryAdds(apc', addId', token)
    BY <1>1, <2>2 DEF Accounting, TokensCarried, CarryAdds
  <2> QED
    BY <2>2, <2>3, <2>4 DEF Accounting, TokensCarried, Carried, InflightExact,
       NeverFatal
<1>7. CASE AddDrop(t)
  <2>1. /\ UNCHANGED <<posted, alerts, batch, ops, queue, current, inflight,
                       process, pc>>
        /\ apc' = [apc EXCEPT ![t] = "dropped"]
    BY <1>7 DEF AddDrop
  <2>2. CASE apc[t] = "sending"
    <3>1. addId[t] \in Tokens /\ token[addId[t]] = "sending"
      BY <2>2 DEF Accounting, TokensCarried, CarryAdds
    <3>2. /\ token' = [token EXCEPT ![addId[t]] = "leaked"]
          /\ addId' = [addId EXCEPT ![t] = NoToken]
      BY <1>7, <2>2 DEF AddDrop
    <3>3. CarryAdds(apc', addId', token')
      BY <1>1, <2>1, <2>2, <3>1, <3>2 DEF Accounting, TokensCarried, CarryAdds
    <3>4. InUse(token') = InUse(token)
      BY <1>1, <3>1, <3>2, PassOn DEF Stages
    <3> QED
      BY <2>1, <3>1, <3>2, <3>3, <3>4, CarriedElsewhere DEF Accounting,
         TokensCarried, Carried, InflightExact, NeverFatal, Stages
  <2>3. CASE apc[t] # "sending"
    <3>1. UNCHANGED <<token, addId>>
      BY <1>7, <2>3 DEF AddDrop
    <3> QED
      BY <1>1, <2>1, <3>1, CarriedUnchanged
  <2> QED
    BY <2>2, <2>3
<1>8. CASE SaveCall(t)
  <2>1. PostSave(t, "always") \/ NoPost
    BY <1>8 DEF SaveCall
  <2>2. UNCHANGED <<pc, alerts, batch, ops, queue, current, process, apc, addId>>
    BY <1>8 DEF SaveCall
  <2> QED
    BY <2>1, <2>2, CarriedPost DEF Accounting, TokensCarried, Carried,
       InflightExact, NeverFatal
<1> QED
  BY <1>2, <1>3, <1>4, <1>5, <1>6, <1>7, <1>8

LEMMA CarriedSweepShutdown ==
    ASSUME Accounting, SweepNext \/ ShutdownNext
    PROVE  Carried'
<1> USE DEF ltVars, shared, pumpVars, calls, shutVars, observed, history
<1>1. ASSUME NEW t \in Torrents, SweepVisit(t) \/ FlushVisit(t)
      PROVE  Carried'
  <2>1. PICK flag \in {"always", "ifModified"} : PostSave(t, flag) \/ NoPost
    BY <1>1 DEF SweepVisit, FlushVisit
  <2>2. UNCHANGED <<pc, alerts, batch, ops, queue, current, process, apc, addId>>
    BY <1>1 DEF SweepVisit, FlushVisit
  <2> QED
    BY <2>1, <2>2, CarriedPost DEF Accounting, TokensCarried, Carried,
       InflightExact, NeverFatal
<1>2. CASE StateSend
  <2>1. [kind |-> "state"] \in PersistOp /\ "state" \notin WriteKinds
    BY DEF PersistOp, StateOp, WriteKinds
  <2>2. Carry(Append(queue, [kind |-> "state"]), WriteKinds, "queue", token)
    BY <2>1, CarryAppend DEF Accounting, TypeOK, SharedTypeOK, TokensCarried
  <2> QED
    BY <1>2, <2>2 DEF StateSend, Accounting, TokensCarried, Carried,
       InflightExact, NeverFatal
<1>3. CASE \/ SweepTick \/ ShutdownStart \/ FlushStart \/ FlushWait \/ FlushEnd
           \/ StateGiveUp \/ DropSender \/ PersisterEnd
  BY <1>3, CarriedUnchanged DEF SweepTick, ShutdownStart, FlushStart, FlushWait,
     FlushEnd, StateGiveUp, DropSender, PersisterEnd
<1> QED
  BY <1>1, <1>2, <1>3 DEF SweepNext, ShutdownNext

(***************************************************************************)
(* The theorems.                                                           *)
(***************************************************************************)

\* The in-flight accounting of the engine (Inflight::inc and dec and every
\* path between them): at any time every token in use has one holder, which
\* is at the stage the token is at, and the counter is their number.
THEOREM AccountingInvariant == Spec => []Accounting
<1>1. Init => Accounting
  BY TypeInit, CarriedInit DEF Accounting, Carried
<1>2. Accounting /\ [Next]_vars => Accounting'
  <2> SUFFICES ASSUME Accounting, [Next]_vars PROVE TypeOK' /\ Carried'
    BY DEF Accounting, Carried
  <2>1. CASE LibtorrentNext
    BY <2>1, TypeLibtorrent, CarriedLibtorrent DEF Accounting
  <2>2. CASE PumpNext
    BY <2>2, TypePump, CarriedPump
  <2>3. CASE PersisterNext
    BY <2>3, TypePersister, CarriedPersister
  <2>4. CASE CallNext
    BY <2>4, TypeCalls, CarriedCalls
  <2>5. CASE SweepNext \/ ShutdownNext
    BY <2>5, TypeSweepShutdown, CarriedSweepShutdown DEF Accounting
  <2>6. CASE UNCHANGED vars
    <3>1. TypeOK'
      BY <2>6, TypeUnchanged DEF Accounting, TypeOK, vars
    <3>2. Carried'
      BY <2>6, CarriedUnchanged DEF vars, ltVars, shared, pumpVars, calls,
         history
    <3> QED
      BY <3>1, <3>2
  <2> QED
    BY <2>1, <2>2, <2>3, <2>4, <2>5, <2>6 DEF Next
<1> QED
  BY <1>1, <1>2, PTL DEF Spec

\* Every variable of the engine keeps its type; in particular the counter
\* stays a natural number, and a queued write always carries a token.
THEOREM TypeCorrect == Spec => []TypeOK
<1>1. Accounting => TypeOK
  BY DEF Accounting
<1> QED
  BY <1>1, AccountingInvariant, PTL

\* The strict decrement never meets a counter at zero, so that `fatal` is
\* never reached from Inflight::dec.
THEOREM CounterNeverUnderflows == Spec => []NeverFatal
<1>1. Accounting => NeverFatal
  BY DEF Accounting
<1> QED
  BY <1>1, AccountingInvariant, PTL

\* The counter is the number of tokens taken and not yet released.
THEOREM CounterIsExact == Spec => []InflightExact
<1>1. Accounting => InflightExact
  BY DEF Accounting
<1> QED
  BY <1>1, AccountingInvariant, PTL

\* When Inflight::wait_zero returns, no save is outstanding anywhere: not in
\* libtorrent, the pump, the persist queue, the persister or an add call.
THEOREM QuietAtZero == Spec => []ZeroMeansQuiet
<1>1. Accounting => ZeroMeansQuiet
  <2> SUFFICES ASSUME Accounting, inflight = 0, NEW t \in Torrents
               PROVE  ~Outstanding(t) /\ apc[t] # "sending"
    BY DEF ZeroMeansQuiet
  <2>1. token \in [Tokens -> Stages] /\ posted \subseteq SaveRequest
    BY DEF Accounting, TypeOK, LtTypeOK, HistoryTypeOK
  <2>2. InUse(token) = {}
    BY <2>1, InUseFinite, FS_EmptySet DEF Accounting, InflightExact
  <2>3. \A id \in Tokens : token[id] = "free"
    BY <2>2 DEF InUse
  <2>4. posted = {} /\ apc[t] # "sending"
    BY <2>1, <2>3 DEF Accounting, TokensCarried, CarryPosted, CarryAdds,
       SaveRequest
  <2>5. ~AlertPending({"saved", "saveFailed"}, t) /\ ~OpPending({"write"}, t)
    BY <2>3 DEF Accounting, TokensCarried, Carry, AlertPending, OpPending,
       Mentions, SaveKinds, WriteKinds
  <2> QED
    BY <2>4, <2>5 DEF Outstanding
<1> QED
  BY <1>1, AccountingInvariant, PTL

-------------------------------------------------------------------------------
(***************************************************************************)
(* What the resume files hold.                                             *)
(***************************************************************************)

(***************************************************************************)
(* Entries of queues, one at a time.                                       *)
(***************************************************************************)
Is(e, kinds, t) == e.kind \in kinds /\ e.kind # "state" /\ e.t = t

\* No entry of the kinds mentioned has a version out of range.
Within(s, kinds, vs) ==
    \A i \in 1 .. Len(s) : s[i].kind \in kinds =>
        s[i].v >= 0 /\ s[i].v <= vs[s[i].t]

LEMMA SeqFacts ==
    ASSUME NEW S, NEW s \in Seq(S)
    PROVE  /\ Len(s) \in Nat
           /\ \A e \in S : /\ Len(Append(s, e)) = Len(s) + 1
                           /\ Append(s, e)[Len(s) + 1] = e
                           /\ \A i \in 1 .. Len(s) : Append(s, e)[i] = s[i]
           /\ s # <<>> => /\ Len(s) >= 1 /\ Len(Tail(s)) = Len(s) - 1
                          /\ Head(s) = s[1]
                          /\ \A i \in 1 .. Len(Tail(s)) : Tail(s)[i] = s[i + 1]
  OBVIOUS

LEMMA MentionsAppend ==
    ASSUME NEW S, NEW s \in Seq(S), NEW e \in S, NEW kinds, NEW t
    PROVE  Mentions(Append(s, e), kinds, t) <=>
                Mentions(s, kinds, t) \/ Is(e, kinds, t)
<1> DEFINE x == Append(s, e)
<1>1. /\ Len(s) \in Nat /\ Len(x) = Len(s) + 1 /\ x[Len(s) + 1] = e
      /\ \A i \in 1 .. Len(s) : x[i] = s[i]
  BY SeqFacts
<1>2. \A i \in 1 .. Len(x) : i \in 1 .. Len(s) \/ i = Len(s) + 1
  BY <1>1
<1>3. Len(s) + 1 \in 1 .. Len(x) /\ \A i \in 1 .. Len(s) : i \in 1 .. Len(x)
  BY <1>1
<1> HIDE DEF x
<1>4. Mentions(x, kinds, t) <=> Mentions(s, kinds, t) \/ Is(e, kinds, t)
  BY <1>1, <1>2, <1>3 DEF Mentions, Is
<1> QED
  BY <1>4 DEF x

LEMMA MentionsTail ==
    ASSUME NEW S, NEW s \in Seq(S), s # <<>>, NEW kinds, NEW t
    PROVE  Mentions(s, kinds, t) <=>
                Is(Head(s), kinds, t) \/ Mentions(Tail(s), kinds, t)
<1> DEFINE x == Tail(s)
<1>1. /\ Len(s) \in Nat /\ Len(s) >= 1 /\ Len(x) = Len(s) - 1
      /\ Head(s) = s[1] /\ \A i \in 1 .. Len(x) : x[i] = s[i + 1]
  BY SeqFacts
<1>2. \A i \in 1 .. Len(s) : i = 1 \/ (i - 1 \in 1 .. Len(x) /\ s[i] = x[i - 1])
  BY <1>1
<1>3. 1 \in 1 .. Len(s) /\ \A i \in 1 .. Len(x) : i + 1 \in 1 .. Len(s)
  BY <1>1
<1> HIDE DEF x
<1>4. Mentions(s, kinds, t) <=> Is(Head(s), kinds, t) \/ Mentions(x, kinds, t)
  BY <1>1, <1>2, <1>3 DEF Mentions, Is
<1> QED
  BY <1>4 DEF x

LEMMA MentionsEmpty == \A kinds, t : ~Mentions(<<>>, kinds, t)
  BY DEF Mentions

LEMMA WithinAppend ==
    ASSUME NEW S, NEW s \in Seq(S), NEW e \in S, NEW kinds, NEW vs,
           Within(s, kinds, vs),
           e.kind \in kinds => e.v >= 0 /\ e.v <= vs[e.t]
    PROVE  Within(Append(s, e), kinds, vs)
<1>1. /\ Len(s) \in Nat /\ Len(Append(s, e)) = Len(s) + 1
      /\ Append(s, e)[Len(s) + 1] = e
      /\ \A i \in 1 .. Len(s) : Append(s, e)[i] = s[i]
  BY SeqFacts
<1>2. \A i \in 1 .. Len(Append(s, e)) : i \in 1 .. Len(s) \/ i = Len(s) + 1
  BY <1>1
<1> QED
  BY <1>1, <1>2 DEF Within

LEMMA WithinTail ==
    ASSUME NEW S, NEW s \in Seq(S), s # <<>>, NEW kinds, NEW vs,
           Within(s, kinds, vs)
    PROVE  /\ Within(Tail(s), kinds, vs)
           /\ Head(s).kind \in kinds =>
                Head(s).v >= 0 /\ Head(s).v <= vs[Head(s).t]
<1>1. /\ Len(s) \in Nat /\ Len(s) >= 1 /\ Len(Tail(s)) = Len(s) - 1
      /\ Head(s) = s[1] /\ \A i \in 1 .. Len(Tail(s)) : Tail(s)[i] = s[i + 1]
  BY SeqFacts
<1>2. 1 \in 1 .. Len(s) /\ \A i \in 1 .. Len(Tail(s)) : i + 1 \in 1 .. Len(s)
  BY <1>1
<1> QED
  BY <1>1, <1>2 DEF Within

(***************************************************************************)
(* First part: nothing deletes the record of a torrent unless its removal  *)
(* was asked for.                                                          *)
(***************************************************************************)
\* A removal is on its way, from the request to the delete of the file.
Leaving(t) ==
    \/ t \in rmPosted \/ life[t] \in {"removed", "gone"}
    \/ AlertPending({"removed"}, t)
    \/ OpPending({"delete"}, t) \/ apc[t] = "deleting"

AskedInv == \A t \in Torrents : Leaving(t) => Asked(t)

\* Until its add is acknowledged a torrent is registered.
RegisteredInv ==
    \A t \in Torrents :
        apc[t] \in {"registered", "sending", "acking", "acked"}
            => t \in registry \/ Asked(t)

\* Every version under way is one the torrent has had.
VersionsInv ==
    /\ Within(alerts, {"saved"}, ver) /\ Within(batch, {"saved"}, ver)
    /\ Within(ops, {"write"}, ver) /\ Within(queue, {"write"}, ver)
    /\ Within(current, {"write"}, ver)
    /\ \A t \in Torrents : disk[t] >= NoFile /\ disk[t] <= ver[t]

StoredInv ==
    \A t \in Torrents :
        apc[t] \in {"acked", "deleting", "ok", "restored"}
            => disk[t] # NoFile \/ Asked(t)

\* Between two batches there is no alert left, a save is requested for the
\* first one, and the persister runs one operation at a time.
TasksInv ==
    /\ pc \notin {"handle", "save"} => batch = <<>>
    /\ pc = "save" => Head(batch).kind \in {"finished", "moved"}
    /\ Len(current) <= 1

AskedFirst ==
    AskedInv /\ RegisteredInv /\ VersionsInv /\ StoredInv /\ TasksInv

LEMMA AskedStays ==
    ASSUME TypeOK, Next, NEW t \in Torrents, Asked(t)
    PROVE  Asked(t)'
<1> USE DEF Asked, TypeOK, CallsTypeOK
<1>1. CASE UNCHANGED <<apc, rpc>>
  BY <1>1
<1>2. CASE LibtorrentNext
  BY <1>1, <1>2 DEF LibtorrentNext, LtAdd, LtRemove, LtExpire, LtChange,
     LtFinished, LtMoved, LtAnswerSave, calls
<1>3. CASE PumpNext
  <2>1. CASE PumpPop
    BY <2>1 DEF PumpPop
  <2>2. CASE HandleRemoved
    BY <2>2 DEF HandleRemoved, Answer
  <2> QED
    BY <1>1, <1>3, <2>1, <2>2 DEF PumpNext, HandleAddFailed, HandleAdded,
       HandleSaveTrigger, RequestSave, HandleSaved, HandleSaveFailed, PumpSend,
       RetryTick, RetryDone, PumpStop, PumpAbort, RetryVisit, calls
<1>4. CASE PersisterNext
  BY <1>1, <1>4 DEF PersisterNext, PersistRecv, PersistWrite, PersistDelete,
     PersistState, calls
<1>5. CASE CallNext
  <2> SUFFICES ASSUME NEW u \in Torrents,
                      \/ AddCall(u) \/ AddRegister(u) \/ AddEnqueue(u)
                      \/ AddSend(u) \/ AddAcked(u) \/ AddDelete(u)
                      \/ AddNacked(u) \/ AddDrop(u) \/ RemoveCall(u)
                      \/ RemoveGiveUp(u) \/ SaveCall(u) \/ SaveGiveUp(u)
               PROVE  Asked(t)'
    BY <1>5 DEF CallNext
  <2>1. CASE RemoveCall(u) \/ RemoveGiveUp(u)
    BY <2>1 DEF RemoveCall, RemoveGiveUp
  <2>2. CASE SaveCall(u) \/ SaveGiveUp(u)
    BY <2>2 DEF SaveCall, SaveGiveUp
  <2> QED
    BY <2>1, <2>2 DEF AddCall, AddRegister, AddEnqueue, AddSend, AddAcked,
       AddDelete, AddNacked, AddDrop, Unwind, AddRunning
<1>6. CASE SweepNext
  BY <1>1, <1>6 DEF SweepNext, SweepTick, SweepVisit, calls
<1>7. CASE ShutdownNext
  BY <1>1, <1>7 DEF ShutdownNext, ShutdownStart, FlushStart, FlushWait, FlushEnd,
     StateSend, StateGiveUp, DropSender, PersisterEnd, FlushVisit, calls
<1> QED
  BY <1>2, <1>3, <1>4, <1>5, <1>6, <1>7 DEF Next

\* A saved alert carries a token, and so a version from then on.
LEMMA HeadFacts ==
    ASSUME Accounting
    PROVE  /\ batch # <<>> => /\ Head(batch) \in Alert /\ Head(batch).t \in Torrents
                              /\ Tail(batch) \in Seq(Alert)
                              /\ Head(batch).kind = "saved" =>
                                   Head(batch).id \in Tokens
           /\ ops # <<>> => Head(ops) \in PersistOp /\ Tail(ops) \in Seq(PersistOp)
           /\ queue # <<>> =>
                Head(queue) \in PersistOp /\ Tail(queue) \in Seq(PersistOp)
           /\ alerts \in Seq(Alert) /\ batch \in Seq(Alert)
           /\ ops \in Seq(PersistOp) /\ queue \in Seq(PersistOp)
           /\ current \in Seq(PersistOp)
<1> USE DEF Accounting, TypeOK, LtTypeOK, PumpTypeOK, SharedTypeOK, TasksTypeOK
<1>1. /\ alerts \in Seq(Alert) /\ batch \in Seq(Alert)
      /\ ops \in Seq(PersistOp) /\ queue \in Seq(PersistOp)
      /\ current \in Seq(PersistOp)
  OBVIOUS
<1>2. batch # <<>> => Head(batch) \in Alert /\ Tail(batch) \in Seq(Alert)
  BY <1>1, SeqTypes
<1>3. batch # <<>> => Head(batch).t \in Torrents
  BY <1>2 DEF Alert
<1>4. batch # <<>> /\ Head(batch).kind = "saved" => Head(batch).id \in Tokens
  BY <1>1, CarryTail DEF TokensCarried, SaveKinds
<1>5. /\ ops # <<>> => Head(ops) \in PersistOp /\ Tail(ops) \in Seq(PersistOp)
      /\ queue # <<>> =>
           Head(queue) \in PersistOp /\ Tail(queue) \in Seq(PersistOp)
  BY <1>1, SeqTypes
<1> QED
  BY <1>1, <1>2, <1>3, <1>4, <1>5

\* The entries the tasks make.
LEMMA Entries ==
    ASSUME NEW t \in Torrents
    PROVE  /\ \A k \in AlertKinds : PlainAlert(k, t) \in Alert
           /\ \A id \in Tokens, v \in Int :
                /\ [kind |-> "saved", t |-> t, id |-> id, v |-> v] \in Alert
                /\ [kind |-> "saveFailed", t |-> t, id |-> id, v |-> v] \in Alert
                /\ \A a \in {"add", "none"} :
                     [kind |-> "write", t |-> t, id |-> id, v |-> v, ack |-> a]
                        \in PersistOp
           /\ [kind |-> "delete", t |-> t] \in PersistOp
           /\ [kind |-> "state"] \in PersistOp
  BY DEF PlainAlert, Alert, AlertKinds, PersistOp, WriteOp, DeleteOp, StateOp

LEMMA TasksStep ==
    ASSUME Accounting, TasksInv, Next
    PROVE  TasksInv'
<1> USE DEF TasksInv
<1>1. CASE UNCHANGED <<pc, batch, current>>
  BY <1>1
<1>2. CASE LibtorrentNext
  BY <1>1, <1>2 DEF LibtorrentNext, LtAdd, LtRemove, LtExpire, LtChange,
     LtFinished, LtMoved, LtAnswerSave, pumpVars
<1>3. CASE PumpNext
  <2>1. UNCHANGED current
    BY <1>3 DEF PumpNext, PumpPop, HandleAddFailed, HandleAdded, HandleRemoved,
       HandleSaveTrigger, RequestSave, HandleSaved, HandleSaveFailed, PumpSend,
       RetryTick, RetryDone, PumpStop, PumpAbort, RetryVisit
  <2>2. ASSUME NEW k, Consume(k)
        PROVE  pc' # "save" /\ (pc' # "handle" => batch' = <<>>)
    <3>1. /\ batch # <<>> /\ batch' = Tail(batch)
          /\ pc' = IF Len(batch) = 1 THEN "send" ELSE "handle"
      BY <2>2 DEF Consume
    <3>2. Len(batch) = 1 => Tail(batch) = <<>>
      BY <3>1, HeadFacts
    <3> QED
      BY <3>1, <3>2
  <2>3. CASE RequestSave
    <3>1. batch # <<>> /\ (Len(batch) = 1 => Tail(batch) = <<>>)
      BY <2>3, HeadFacts DEF RequestSave, Accounting
    <3> QED
      BY <2>1, <2>3, <3>1 DEF RequestSave
  <2>4. CASE HandleSaveTrigger
    BY <2>1, <2>2, <2>4 DEF HandleSaveTrigger
  <2> QED
    BY <1>3, <2>1, <2>2, <2>3, <2>4 DEF PumpNext, PumpPop, HandleAddFailed,
       HandleAdded, HandleRemoved, HandleSaved, HandleSaveFailed, PumpSend,
       RetryTick, RetryDone, PumpStop, PumpAbort, RetryVisit
<1>4. CASE PersisterNext
  <2>1. current' = <<>> \/ current' = <<Head(queue)>>
    BY <1>4 DEF PersisterNext, PersistRecv, PersistWrite, PersistDelete,
       PersistState
  <2>2. Len(<<Head(queue)>>) = 1 /\ Len(<<>>) = 0
    OBVIOUS
  <2>3. Len(current') <= 1
    <3>1. CASE current' = <<>>
      BY <2>2, <3>1
    <3>2. CASE current' = <<Head(queue)>>
      BY <2>2, <3>2
    <3> QED
      BY <2>1, <3>1, <3>2
  <2> QED
    BY <1>4, <2>3 DEF PersisterNext, PersistRecv, PersistWrite, PersistDelete,
       PersistState, pumpVars
<1>5. CASE CallNext
  BY <1>1, <1>5 DEF CallNext, AddCall, AddRegister, AddEnqueue, AddSend, AddAcked,
     AddDelete, AddNacked, AddDrop, RemoveCall, RemoveGiveUp, SaveCall, SaveGiveUp,
     pumpVars
<1>6. CASE SweepNext
  BY <1>1, <1>6 DEF SweepNext, SweepTick, SweepVisit, pumpVars
<1>7. CASE ShutdownNext
  BY <1>1, <1>7 DEF ShutdownNext, ShutdownStart, FlushStart, FlushWait, FlushEnd,
     StateSend, StateGiveUp, DropSender, PersisterEnd, FlushVisit, pumpVars
<1> QED
  BY <1>2, <1>3, <1>4, <1>5, <1>6, <1>7 DEF Next

LEMMA WithinEmpty == \A kinds, vs : Within(<<>>, kinds, vs)
  BY DEF Within

\* The versions of alerts and operations are numbers.
LEMMA EntryTypes ==
    /\ \A s \in Seq(Alert) : \A i \in 1 .. Len(s) :
         s[i].t \in Torrents /\ s[i].v \in Int
    /\ \A s \in Seq(PersistOp) : \A i \in 1 .. Len(s) : s[i].kind = "write" =>
         s[i].t \in Torrents /\ s[i].v \in Int
<1>1. \A s \in Seq(Alert) : \A i \in 1 .. Len(s) : s[i] \in Alert
  OBVIOUS
<1>2. \A s \in Seq(PersistOp) : \A i \in 1 .. Len(s) : s[i] \in PersistOp
  OBVIOUS
<1>3. \A a \in Alert : a.t \in Torrents /\ a.v \in Int
  BY DEF Alert
<1>4. \A o \in PersistOp : o.kind = "write" => o.t \in Torrents /\ o.v \in Int
  BY DEF PersistOp, WriteOp, DeleteOp, StateOp
<1> QED
  BY <1>1, <1>2, <1>3, <1>4

\* A change of a torrent leaves all bounds valid.
LEMMA VersionsGrow ==
    ASSUME Accounting, NEW t \in Torrents, ver' = [ver EXCEPT ![t] = @ + 1]
    PROVE  /\ \A s \in Seq(Alert) :
                Within(s, {"saved"}, ver) => Within(s, {"saved"}, ver')
           /\ \A s \in Seq(PersistOp) :
                Within(s, {"write"}, ver) => Within(s, {"write"}, ver')
           /\ \A u \in Torrents : disk[u] <= ver[u] => disk[u] <= ver'[u]
<1>1. /\ ver \in [Torrents -> Nat] /\ ver' \in [Torrents -> Nat]
      /\ disk \in [Torrents -> Int]
      /\ \A u \in Torrents : ver[u] <= ver'[u]
  BY DEF Accounting, TypeOK, LtTypeOK, SharedTypeOK
<1>2. ASSUME NEW s \in Seq(Alert), Within(s, {"saved"}, ver)
      PROVE  Within(s, {"saved"}, ver')
  <2> SUFFICES ASSUME NEW i \in 1 .. Len(s), s[i].kind = "saved"
               PROVE  s[i].v >= 0 /\ s[i].v <= ver'[s[i].t]
    BY DEF Within
  <2>1. s[i].t \in Torrents /\ s[i].v \in Int
    BY EntryTypes
  <2>2. s[i].v >= 0 /\ s[i].v <= ver[s[i].t]
    BY <1>2 DEF Within
  <2> QED
    BY <1>1, <2>1, <2>2
<1>3. ASSUME NEW s \in Seq(PersistOp), Within(s, {"write"}, ver)
      PROVE  Within(s, {"write"}, ver')
  <2>1. \A i \in 1 .. Len(s) : s[i].kind = "write" =>
           s[i].t \in Torrents /\ s[i].v \in Int
    BY EntryTypes
  <2> QED
    BY <1>1, <1>3, <2>1 DEF Within
<1>4. \A u \in Torrents : disk[u] <= ver[u] => disk[u] <= ver'[u]
  BY <1>1
<1> QED
  BY <1>2, <1>3, <1>4

\* Bounds that hold for the versions hold for the entries left alone.
LEMMA VersionsKept ==
    ASSUME Accounting, VersionsInv, NEW t \in Torrents,
           ver' = [ver EXCEPT ![t] = @ + 1],
           UNCHANGED <<batch, ops, queue, current, disk>>,
           Within(alerts', {"saved"}, ver')
    PROVE  VersionsInv'
<1>1. /\ Within(batch, {"saved"}, ver') /\ Within(ops, {"write"}, ver')
      /\ Within(queue, {"write"}, ver') /\ Within(current, {"write"}, ver')
  BY VersionsGrow, HeadFacts DEF VersionsInv
<1>2. \A u \in Torrents : disk[u] >= NoFile /\ disk[u] <= ver'[u]
  BY VersionsGrow DEF VersionsInv
<1> QED
  BY <1>1, <1>2 DEF VersionsInv

LEMMA VersionsLibtorrent ==
    ASSUME Accounting, VersionsInv, LibtorrentNext
    PROVE  VersionsInv'
<1> USE DEF VersionsInv
<1>1. UNCHANGED <<batch, ops, queue, current, disk>>
  BY DEF LibtorrentNext, LtAdd, LtRemove, LtExpire, LtChange, LtFinished,
     LtMoved, LtAnswerSave, pumpVars, shared
<1>2. ASSUME NEW a \in Alert, NEW vs, Within(alerts, {"saved"}, vs),
             a.kind # "saved"
      PROVE  Within(Append(alerts, a), {"saved"}, vs)
  BY <1>2, HeadFacts, WithinAppend
<1>3. ASSUME NEW t \in Torrents, LtAdd(t) PROVE VersionsInv'
  <2>1. \E k \in {"added", "addFailed"} : alerts' = Append(alerts, PlainAlert(k, t))
    BY <1>3 DEF LtAdd
  <2>2. \A k \in {"added", "addFailed"} :
          PlainAlert(k, t) \in Alert /\ PlainAlert(k, t).kind # "saved"
    BY Entries DEF AlertKinds, PlainAlert
  <2> QED
    BY <1>1, <1>2, <1>3, <2>1, <2>2 DEF LtAdd
<1>4. ASSUME NEW t \in Torrents, LtRemove(t) PROVE VersionsInv'
  <2>1. alerts' = alerts \/ alerts' = Append(alerts, PlainAlert("removed", t))
    BY <1>4 DEF LtRemove
  <2>2. PlainAlert("removed", t) \in Alert /\ PlainAlert("removed", t).kind # "saved"
    BY Entries DEF AlertKinds, PlainAlert
  <2> QED
    BY <1>1, <1>2, <1>4, <2>1, <2>2 DEF LtRemove
<1>5. ASSUME NEW t \in Torrents, LtExpire(t) PROVE VersionsInv'
  BY <1>1, <1>5 DEF LtExpire
<1>6. ASSUME NEW t \in Torrents, LtChange(t) PROVE VersionsInv'
  <2>1. Within(alerts', {"saved"}, ver')
    BY <1>6, VersionsGrow, HeadFacts DEF LtChange
  <2> QED
    BY <1>1, <1>6, <2>1, VersionsKept DEF LtChange
<1>7. ASSUME NEW t \in Torrents, LtFinished(t) \/ LtMoved(t) PROVE VersionsInv'
  <2>1. /\ ver' = [ver EXCEPT ![t] = @ + 1]
        /\ \E k \in {"finished", "moved"} : alerts' = Append(alerts, PlainAlert(k, t))
    BY <1>7 DEF LtFinished, LtMoved
  <2>2. \A k \in {"finished", "moved"} :
          PlainAlert(k, t) \in Alert /\ PlainAlert(k, t).kind # "saved"
    BY Entries DEF AlertKinds, PlainAlert
  <2>3. Within(alerts, {"saved"}, ver')
    BY <2>1, VersionsGrow, HeadFacts
  <2>4. Within(alerts', {"saved"}, ver')
    BY <1>2, <2>1, <2>2, <2>3
  <2> QED
    BY <1>1, <2>1, <2>4, VersionsKept
<1>8. ASSUME NEW p \in posted, LtAnswerSave(p) PROVE VersionsInv'
  <2>1. p.t \in Torrents /\ p.id \in Tokens /\ ver[p.t] \in Nat
    BY DEF Accounting, TypeOK, LtTypeOK, SaveRequest
  <2> DEFINE a == [kind |-> "saved", t |-> p.t, id |-> p.id, v |-> ver[p.t]]
             b == [kind |-> "saveFailed", t |-> p.t, id |-> p.id, v |-> 0]
  <2>2. alerts' = Append(alerts, a) \/ alerts' = Append(alerts, b)
    BY <1>8 DEF LtAnswerSave
  <2>3. a \in Alert /\ b \in Alert /\ a.v >= 0 /\ a.v <= ver[a.t] /\ b.kind # "saved"
    <3>1. a \in Alert /\ b \in Alert
      BY <2>1, 0 \in Int, ver[p.t] \in Int, Entries
    <3> QED
      BY <2>1, <3>1
  <2> HIDE DEF a, b
  <2>4. Within(Append(alerts, a), {"saved"}, ver)
    BY <2>3, HeadFacts, WithinAppend
  <2>5. Within(Append(alerts, b), {"saved"}, ver)
    BY <1>2, <2>3
  <2> QED
    BY <1>1, <1>8, <2>2, <2>4, <2>5 DEF LtAnswerSave
<1> QED
  BY <1>3, <1>4, <1>5, <1>6, <1>7, <1>8 DEF LibtorrentNext

\* What is taken from the head of the batch, the operations and the queue.
LEMMA VersionsHeads ==
    ASSUME Accounting, VersionsInv
    PROVE  /\ batch # <<>> => /\ Within(Tail(batch), {"saved"}, ver)
                              /\ Head(batch).kind = "saved" =>
                                   /\ Head(batch).v >= 0
                                   /\ Head(batch).v <= ver[Head(batch).t]
           /\ ops # <<>> => Within(Tail(ops), {"write"}, ver)
           /\ queue # <<>> => Within(Tail(queue), {"write"}, ver)
           /\ \A o \in PersistOp : (o.kind = "write" => o.v >= 0 /\ o.v <= ver[o.t])
                => /\ Within(Append(ops, o), {"write"}, ver)
                   /\ Within(Append(queue, o), {"write"}, ver)
                   /\ Within(<<o>>, {"write"}, ver)
<1>1. batch # <<>> => /\ Within(Tail(batch), {"saved"}, ver)
                      /\ Head(batch).kind = "saved" =>
                           /\ Head(batch).v >= 0
                           /\ Head(batch).v <= ver[Head(batch).t]
  BY HeadFacts, WithinTail DEF VersionsInv
<1>2. /\ ops # <<>> => Within(Tail(ops), {"write"}, ver)
      /\ queue # <<>> => Within(Tail(queue), {"write"}, ver)
  BY HeadFacts, WithinTail DEF VersionsInv
<1>3. ASSUME NEW o \in PersistOp, o.kind = "write" => o.v >= 0 /\ o.v <= ver[o.t]
      PROVE  /\ Within(Append(ops, o), {"write"}, ver)
             /\ Within(Append(queue, o), {"write"}, ver)
  BY <1>3, HeadFacts, WithinAppend DEF VersionsInv
<1>4. ASSUME NEW o \in PersistOp, o.kind = "write" => o.v >= 0 /\ o.v <= ver[o.t]
      PROVE  Within(<<o>>, {"write"}, ver)
  <2>1. Len(<<o>>) = 1 /\ <<o>>[1] = o
    OBVIOUS
  <2> QED
    BY <1>4, <2>1 DEF Within
<1> QED
  BY <1>1, <1>2, <1>3, <1>4

LEMMA VersionsPump ==
    ASSUME Accounting, VersionsInv, TasksInv, PumpNext
    PROVE  VersionsInv'
<1>1. UNCHANGED <<ver, disk, current>>
  BY DEF PumpNext, PumpPop, HandleAddFailed, HandleAdded, HandleRemoved,
     HandleSaveTrigger, RequestSave, HandleSaved, HandleSaveFailed, PumpSend,
     RetryTick, RetryDone, PumpStop, PumpAbort, RetryVisit, ltVars, shared
<1>2. CASE PumpPop
  BY <1>1, <1>2, WithinEmpty DEF PumpPop, VersionsInv, shared
<1>3. ASSUME UNCHANGED <<alerts, ops, queue>>, batch' = batch \/ batch' = Tail(batch),
             batch # <<>>
      PROVE  VersionsInv'
  BY <1>1, <1>3, VersionsHeads DEF VersionsInv
<1>4. CASE HandleAddFailed \/ HandleAdded \/ HandleSaveTrigger \/ HandleSaveFailed
  BY <1>3, <1>4 DEF HandleAddFailed, HandleAdded, HandleSaveTrigger,
     HandleSaveFailed, Consume, ltVars, shared
<1>5. CASE RequestSave
  BY <1>3, <1>5 DEF RequestSave, Accounting
<1>6. CASE HandleRemoved
  <2> DEFINE d == [kind |-> "delete", t |-> Head(batch).t]
  <2>1. /\ batch # <<>> /\ batch' = Tail(batch) /\ UNCHANGED <<alerts, queue>>
        /\ ops' = ops \/ ops' = Append(ops, d)
    BY <1>6 DEF HandleRemoved, Consume, WithDelete, ltVars
  <2>2. d \in PersistOp /\ d.kind # "write"
    BY <2>1, HeadFacts, Entries
  <2> HIDE DEF d
  <2>3. Within(ops', {"write"}, ver)
    BY <2>1, <2>2, VersionsHeads DEF VersionsInv
  <2> QED
    BY <1>1, <2>1, <2>3, VersionsHeads DEF VersionsInv
<1>7. CASE HandleSaved
  <2> DEFINE a == Head(batch)
             w == [kind |-> "write", t |-> a.t, id |-> a.id, v |-> a.v,
                   ack |-> "none"]
  <2>1. /\ batch # <<>> /\ batch' = Tail(batch) /\ a.kind = "saved"
        /\ UNCHANGED <<alerts, queue>>
        /\ ops' = ops \/ ops' = Append(ops, w)
    BY <1>7 DEF HandleSaved, Consume, ltVars
  <2>2. a.t \in Torrents /\ a.id \in Tokens /\ a.v \in Int
        /\ a.v >= 0 /\ a.v <= ver[a.t]
    BY <2>1, HeadFacts, VersionsHeads DEF Alert
  <2>3. w \in PersistOp
    BY <2>2, Entries
  <2>4. w.v >= 0 /\ w.v <= ver[w.t]
    BY <2>2
  <2> HIDE DEF w
  <2>5. Within(ops', {"write"}, ver)
    BY <2>1, <2>3, <2>4, VersionsHeads DEF VersionsInv
  <2> QED
    BY <1>1, <2>1, <2>5, VersionsHeads DEF VersionsInv
<1>8. CASE PumpSend
  <2>1. UNCHANGED <<alerts, batch>>
    BY <1>8 DEF PumpSend, ltVars
  <2>2. CASE UNCHANGED <<ops, queue>>
    BY <1>1, <2>1, <2>2 DEF VersionsInv
  <2>3. CASE ops # <<>> /\ queue' = Append(queue, Head(ops)) /\ ops' = Tail(ops)
    <3>1. Head(ops) \in PersistOp
          /\ (Head(ops).kind = "write" =>
                Head(ops).v >= 0 /\ Head(ops).v <= ver[Head(ops).t])
      BY <2>3, HeadFacts, WithinTail DEF VersionsInv
    <3>2. Within(queue', {"write"}, ver) /\ Within(ops', {"write"}, ver)
      BY <2>3, <3>1, VersionsHeads
    <3> QED
      BY <1>1, <2>1, <3>2 DEF VersionsInv
  <2> QED
    BY <1>8, <2>2, <2>3 DEF PumpSend
<1>9. CASE PumpAbort
  BY <1>1, <1>9, WithinEmpty DEF PumpAbort, VersionsInv, ltVars, shared
<1>10. CASE \/ RetryTick \/ RetryDone \/ PumpStop
            \/ \E t \in Torrents : RetryVisit(t)
  <2>1. UNCHANGED <<alerts, batch, ops, queue>>
    BY <1>10 DEF RetryTick, RetryDone, PumpStop, RetryVisit, ltVars, shared
  <2> QED
    BY <1>1, <2>1 DEF VersionsInv
<1> QED
  BY <1>2, <1>4, <1>5, <1>6, <1>7, <1>8, <1>9, <1>10 DEF PumpNext

LEMMA VersionsPersister ==
    ASSUME Accounting, VersionsInv, PersisterNext
    PROVE  VersionsInv'
<1>1. UNCHANGED <<ver, alerts, batch, ops>>
  BY DEF PersisterNext, PersistRecv, PersistWrite, PersistDelete, PersistState,
     ltVars, pumpVars
<1>2. CASE PersistRecv
  <2>1. /\ queue # <<>> /\ queue' = Tail(queue) /\ current' = <<Head(queue)>>
        /\ UNCHANGED disk
    BY <1>2 DEF PersistRecv
  <2>2. Head(queue) \in PersistOp
        /\ (Head(queue).kind = "write" =>
              Head(queue).v >= 0 /\ Head(queue).v <= ver[Head(queue).t])
    BY <2>1, HeadFacts, WithinTail DEF VersionsInv
  <2>3. Within(queue', {"write"}, ver) /\ Within(current', {"write"}, ver)
    BY <2>1, <2>2, VersionsHeads
  <2> QED
    BY <1>1, <2>1, <2>3 DEF VersionsInv
<1>3. ASSUME current # <<>> PROVE current[1] \in PersistOp
  <2>1. Len(current) \in Nat /\ Len(current) >= 1
    BY <1>3, HeadFacts
  <2> QED
    BY <2>1, HeadFacts
<1>4. CASE PersistWrite
  <2> DEFINE o == current[1]
  <2>1. /\ o \in PersistOp /\ o.kind = "write" /\ current' = <<>>
        /\ UNCHANGED queue
        /\ disk' = disk \/ disk' = [disk EXCEPT ![o.t] = o.v]
    BY <1>3, <1>4 DEF PersistWrite, write_atomic
  <2>2. Len(current) \in Nat /\ Len(current) >= 1
    BY <1>4, HeadFacts DEF PersistWrite
  <2>3. o.t \in Torrents /\ o.v \in Int /\ o.v >= 0 /\ o.v <= ver[o.t]
    BY <2>1, <2>2, EntryTypes, HeadFacts DEF VersionsInv, Within
  <2> HIDE DEF o
  <2>4. (\A u \in Torrents : disk[u] >= NoFile /\ disk[u] <= ver[u])'
    BY <1>1, <2>1, <2>3 DEF VersionsInv, NoFile, Accounting, TypeOK, SharedTypeOK
  <2> QED
    BY <1>1, <2>1, <2>4, WithinEmpty DEF VersionsInv
<1>5. CASE PersistDelete
  <2>1. /\ current' = <<>> /\ UNCHANGED queue
        /\ disk' = disk \/ disk' = [disk EXCEPT ![current[1].t] = NoFile]
    BY <1>5 DEF PersistDelete
  <2>2. (\A u \in Torrents : disk[u] >= NoFile /\ disk[u] <= ver[u])'
    BY <1>1, <2>1 DEF VersionsInv, NoFile, Accounting, TypeOK, SharedTypeOK,
       LtTypeOK
  <2> QED
    BY <1>1, <2>1, <2>2, WithinEmpty DEF VersionsInv
<1>6. CASE PersistState
  BY <1>1, <1>6, WithinEmpty DEF PersistState, VersionsInv, shared
<1> QED
  BY <1>2, <1>4, <1>5, <1>6 DEF PersisterNext

LEMMA VersionsRest ==
    ASSUME Accounting, VersionsInv, CallNext \/ SweepNext \/ ShutdownNext
    PROVE  VersionsInv'
<1>1. UNCHANGED <<ver, disk, current, alerts, batch, ops>>
  BY DEF CallNext, AddCall, AddRegister, AddEnqueue, AddSend, AddAcked, AddDelete,
     AddNacked, AddDrop, RemoveCall, RemoveGiveUp, SaveCall, SaveGiveUp, SweepNext,
     SweepTick, SweepVisit, ShutdownNext, ShutdownStart, FlushStart, FlushWait,
     FlushEnd, StateSend, StateGiveUp, DropSender, PersisterEnd, FlushVisit,
     ltVars, shared, pumpVars
<1>2. ASSUME UNCHANGED queue PROVE VersionsInv'
  BY <1>1, <1>2 DEF VersionsInv
<1>3. ASSUME NEW o \in PersistOp, queue' = Append(queue, o),
             o.kind = "write" => o.v >= 0 /\ o.v <= ver[o.t]
      PROVE  VersionsInv'
  BY <1>1, <1>3, VersionsHeads DEF VersionsInv
<1>4. ASSUME NEW t \in Torrents, AddSend(t) PROVE VersionsInv'
  <2> DEFINE w == [kind |-> "write", t |-> t, id |-> addId[t], v |-> 0,
                   ack |-> "add"]
  <2>1. addId[t] \in Tokens /\ ver[t] \in Nat
    BY <1>4 DEF AddSend, Accounting, TokensCarried, CarryAdds, TypeOK, LtTypeOK
  <2>2. w \in PersistOp /\ w.v >= 0 /\ w.v <= ver[w.t]
    <3>1. w \in PersistOp
      BY <2>1, 0 \in Int, Entries
    <3> QED
      BY <2>1, <3>1
  <2>3. queue' = Append(queue, w)
    BY <1>4 DEF AddSend
  <2> HIDE DEF w
  <2> QED
    BY <1>3, <2>2, <2>3
<1>5. ASSUME NEW t \in Torrents, AddDelete(t) PROVE VersionsInv'
  <2> DEFINE d == [kind |-> "delete", t |-> t]
  <2>1. d \in PersistOp /\ d.kind # "write" /\ queue' = Append(queue, d)
    BY <1>5, Entries DEF AddDelete
  <2> HIDE DEF d
  <2> QED
    BY <1>3, <2>1
<1>6. CASE StateSend
  <2> DEFINE s == [kind |-> "state"]
  <2>1. s \in PersistOp /\ s.kind # "write" /\ queue' = Append(queue, s)
    BY <1>6 DEF StateSend, PersistOp, StateOp
  <2> HIDE DEF s
  <2> QED
    BY <1>3, <2>1
<1>7. CASE CallNext
  BY <1>2, <1>4, <1>5, <1>7 DEF CallNext, AddCall, AddRegister, AddEnqueue,
     AddAcked, AddNacked, AddDrop, RemoveCall, RemoveGiveUp, SaveCall, SaveGiveUp,
     shared
<1>8. CASE SweepNext
  BY <1>2, <1>8 DEF SweepNext, SweepTick, SweepVisit, shared
<1>9. CASE ShutdownNext
  BY <1>2, <1>6, <1>9 DEF ShutdownNext, ShutdownStart, FlushStart, FlushWait,
     FlushEnd, StateGiveUp, DropSender, PersisterEnd, FlushVisit, shared
<1> QED
  BY <1>7, <1>8, <1>9

\* A removal is announced when libtorrent performs it, and in no other step.
LEMMA NewsStep ==
    ASSUME Accounting, TasksInv, Next, NEW t \in Torrents,
           Mentions(alerts', {"removed"}, t) \/ Mentions(batch', {"removed"}, t)
    PROVE  AlertPending({"removed"}, t) \/ t \in rmPosted
<1> USE DEF AlertPending
<1>1. CASE UNCHANGED <<alerts, batch>>
  BY <1>1
<1>2. CASE LibtorrentNext
  <2>1. UNCHANGED batch
    BY <1>2 DEF LibtorrentNext, LtAdd, LtRemove, LtExpire, LtChange, LtFinished,
       LtMoved, LtAnswerSave, pumpVars
  <2>2. ASSUME NEW a \in Alert, alerts' = Append(alerts, a),
               a.kind # "removed" \/ a.t \in rmPosted
        PROVE  AlertPending({"removed"}, t) \/ t \in rmPosted
    BY <2>1, <2>2, HeadFacts, MentionsAppend DEF Is
  <2>3. ASSUME NEW u \in Torrents, LtAdd(u)
        PROVE  AlertPending({"removed"}, t) \/ t \in rmPosted
    <3>1. \E k \in {"added", "addFailed"} : alerts' = Append(alerts, PlainAlert(k, u))
      BY <2>3 DEF LtAdd
    <3>2. \A k \in {"added", "addFailed"} :
            PlainAlert(k, u) \in Alert /\ PlainAlert(k, u).kind # "removed"
      BY Entries DEF AlertKinds, PlainAlert
    <3> QED
      BY <2>2, <3>1, <3>2
  <2>4. ASSUME NEW u \in Torrents, LtRemove(u)
        PROVE  AlertPending({"removed"}, t) \/ t \in rmPosted
    <3>1. alerts' = alerts \/ alerts' = Append(alerts, PlainAlert("removed", u))
      BY <2>4 DEF LtRemove
    <3>2. PlainAlert("removed", u) \in Alert /\ PlainAlert("removed", u).t \in rmPosted
      BY <2>4, Entries DEF AlertKinds, PlainAlert, LtRemove
    <3> QED
      BY <2>1, <2>2, <3>1, <3>2
  <2>5. ASSUME NEW u \in Torrents, LtFinished(u) \/ LtMoved(u)
        PROVE  AlertPending({"removed"}, t) \/ t \in rmPosted
    <3>1. \E k \in {"finished", "moved"} : alerts' = Append(alerts, PlainAlert(k, u))
      BY <2>5 DEF LtFinished, LtMoved
    <3>2. \A k \in {"finished", "moved"} :
            PlainAlert(k, u) \in Alert /\ PlainAlert(k, u).kind # "removed"
      BY Entries DEF AlertKinds, PlainAlert
    <3> QED
      BY <2>2, <3>1, <3>2
  <2>6. ASSUME NEW p \in posted, LtAnswerSave(p)
        PROVE  AlertPending({"removed"}, t) \/ t \in rmPosted
    <3>1. p.t \in Torrents /\ p.id \in Tokens /\ ver[p.t] \in Int
      BY DEF Accounting, TypeOK, LtTypeOK, SaveRequest
    <3> DEFINE a == [kind |-> "saved", t |-> p.t, id |-> p.id, v |-> ver[p.t]]
               b == [kind |-> "saveFailed", t |-> p.t, id |-> p.id, v |-> 0]
    <3>2. alerts' = Append(alerts, a) \/ alerts' = Append(alerts, b)
      BY <2>6 DEF LtAnswerSave
    <3>3. a \in Alert /\ b \in Alert
      BY <3>1, 0 \in Int, Entries
    <3>4. a.kind # "removed" /\ b.kind # "removed"
      OBVIOUS
    <3> HIDE DEF a, b
    <3> QED
      BY <2>2, <3>2, <3>3, <3>4
  <2> QED
    BY <1>1, <1>2, <2>1, <2>3, <2>4, <2>5, <2>6 DEF LibtorrentNext, LtExpire, LtChange
<1>3. CASE PumpNext
  <2>1. CASE PumpPop
    BY <2>1, MentionsEmpty DEF PumpPop
  <2>2. CASE UNCHANGED alerts /\ batch # <<>> /\ batch' = Tail(batch)
    BY <2>2, HeadFacts, MentionsTail
  <2>3. CASE RequestSave
    BY <2>2, <2>3 DEF RequestSave, Accounting
  <2> QED
    BY <1>1, <1>3, <2>1, <2>2, <2>3 DEF PumpNext, HandleAddFailed, HandleAdded,
       HandleRemoved, HandleSaveTrigger, HandleSaved, HandleSaveFailed, Consume,
       PumpSend, RetryTick, RetryDone, PumpStop, PumpAbort, RetryVisit, ltVars
<1>4. CASE PersisterNext
  BY <1>1, <1>4 DEF PersisterNext, PersistRecv, PersistWrite, PersistDelete,
     PersistState, ltVars, pumpVars
<1>5. CASE CallNext
  BY <1>1, <1>5 DEF CallNext, AddCall, AddRegister, AddEnqueue, AddSend, AddAcked,
     AddDelete, AddNacked, AddDrop, RemoveCall, RemoveGiveUp, SaveCall, SaveGiveUp,
     ltVars, pumpVars
<1>6. CASE SweepNext
  BY <1>1, <1>6 DEF SweepNext, SweepTick, SweepVisit, ltVars, pumpVars
<1>7. CASE ShutdownNext
  BY <1>1, <1>7 DEF ShutdownNext, ShutdownStart, FlushStart, FlushWait, FlushEnd,
     StateSend, StateGiveUp, DropSender, PersisterEnd, FlushVisit, ltVars, pumpVars
<1> QED
  BY <1>2, <1>3, <1>4, <1>5, <1>6, <1>7 DEF Next

\* An operation of torrent t is new only if the pump or a call of t makes it.
LEMMA MovedOn ==
    ASSUME Accounting, NEW kinds, NEW t
    PROVE  /\ queue # <<>> => (Mentions(queue, kinds, t) <=>
                \/ Mentions(<<Head(queue)>>, kinds, t)
                \/ Mentions(Tail(queue), kinds, t))
           /\ ops # <<>> =>
                (Mentions(ops, kinds, t) <=>
                    Is(Head(ops), kinds, t) \/ Mentions(Tail(ops), kinds, t))
           /\ ops # <<>> =>
                (Mentions(Append(queue, Head(ops)), kinds, t) <=>
                    Is(Head(ops), kinds, t) \/ Mentions(queue, kinds, t))
           /\ \A o \in PersistOp :
                /\ Mentions(Append(ops, o), kinds, t) <=>
                     Mentions(ops, kinds, t) \/ Is(o, kinds, t)
                /\ Mentions(Append(queue, o), kinds, t) <=>
                     Mentions(queue, kinds, t) \/ Is(o, kinds, t)
<1>1. \A o : Mentions(<<o>>, kinds, t) <=> Is(o, kinds, t)
  <2> TAKE o
  <2>1. Len(<<o>>) = 1 /\ <<o>>[1] = o
    OBVIOUS
  <2>2. \A i \in 1 .. Len(<<o>>) : i = 1
    BY <2>1
  <2>3. 1 \in 1 .. Len(<<o>>)
    BY <2>1
  <2> QED
    BY <2>1, <2>2, <2>3 DEF Mentions, Is
<1>2. queue # <<>> => (Mentions(queue, kinds, t) <=>
         Is(Head(queue), kinds, t) \/ Mentions(Tail(queue), kinds, t))
  BY HeadFacts, MentionsTail
<1>3. ops # <<>> => (Mentions(ops, kinds, t) <=>
         Is(Head(ops), kinds, t) \/ Mentions(Tail(ops), kinds, t))
  BY HeadFacts, MentionsTail
<1>4. \A o \in PersistOp :
        /\ Mentions(Append(ops, o), kinds, t) <=>
             Mentions(ops, kinds, t) \/ Is(o, kinds, t)
        /\ Mentions(Append(queue, o), kinds, t) <=>
             Mentions(queue, kinds, t) \/ Is(o, kinds, t)
  BY HeadFacts, MentionsAppend
<1>5. ops # <<>> => Head(ops) \in PersistOp
  BY HeadFacts
<1> QED
  BY <1>1, <1>2, <1>3, <1>4, <1>5

LEMMA DeletesStep ==
    ASSUME Accounting, Next, NEW t \in Torrents,
           \/ Mentions(ops', {"delete"}, t) \/ Mentions(queue', {"delete"}, t)
           \/ Mentions(current', {"delete"}, t)
    PROVE  \/ OpPending({"delete"}, t) \/ AlertPending({"removed"}, t)
           \/ apc[t] = "deleting"
<1> USE DEF OpPending
<1>1. CASE UNCHANGED <<ops, queue, current>>
  BY <1>1
<1>2. ASSUME NEW o \in PersistOp, o.kind # "delete", UNCHANGED current,
             \/ ops' = Append(ops, o) /\ UNCHANGED queue
             \/ queue' = Append(queue, o) /\ UNCHANGED ops
      PROVE  OpPending({"delete"}, t)
  BY <1>2, MovedOn DEF Is
<1>3. CASE LibtorrentNext
  BY <1>1, <1>3 DEF LibtorrentNext, LtAdd, LtRemove, LtExpire, LtChange, LtFinished,
     LtMoved, LtAnswerSave, pumpVars, shared
<1>4. CASE PumpNext
  <2>1. CASE HandleRemoved
    <3> DEFINE u == Head(batch).t
               d == [kind |-> "delete", t |-> u]
    <3>1. /\ batch # <<>> /\ Head(batch).kind = "removed"
          /\ UNCHANGED <<queue, current>>
          /\ ops' = ops \/ ops' = Append(ops, d)
      BY <2>1 DEF HandleRemoved, Consume, WithDelete
    <3>2. d \in PersistOp /\ d.t = u
      BY <3>1, HeadFacts, Entries
    <3>3. CASE u = t
      <4>1. Is(Head(batch), {"removed"}, t)
        BY <3>1, <3>3 DEF Is
      <4>2. Mentions(batch, {"removed"}, t)
        BY <3>1, <4>1, HeadFacts, MentionsTail
      <4> QED
        BY <4>2 DEF AlertPending
    <3>4. CASE u # t
      <4> HIDE DEF d, u
      <4> QED
        BY <3>1, <3>2, <3>4, MovedOn DEF Is
    <3> QED
      BY <3>3, <3>4
  <2>2. CASE HandleSaved
    <3> DEFINE a == Head(batch)
               w == [kind |-> "write", t |-> a.t, id |-> a.id, v |-> a.v,
                     ack |-> "none"]
    <3>1. /\ batch # <<>> /\ a.kind = "saved" /\ UNCHANGED <<queue, current>>
          /\ ops' = ops \/ ops' = Append(ops, w)
      BY <2>2 DEF HandleSaved, Consume
    <3>2. a.t \in Torrents /\ a.id \in Tokens /\ a.v \in Int
      BY <3>1, HeadFacts DEF Alert
    <3>3. w \in PersistOp /\ w.kind # "delete"
      BY <3>2, Entries
    <3> HIDE DEF w, a
    <3> QED
      BY <1>1, <1>2, <3>1, <3>3
  <2>3. CASE PumpSend
    BY <1>1, <2>3, MovedOn DEF PumpSend
  <2>4. CASE PumpAbort
    BY <2>4, MentionsEmpty DEF PumpAbort, shared
  <2> QED
    BY <1>1, <1>4, <2>1, <2>2, <2>3, <2>4 DEF PumpNext, PumpPop, HandleAddFailed,
       HandleAdded, HandleSaveTrigger, RequestSave, HandleSaveFailed, RetryTick,
       RetryDone, PumpStop, RetryVisit, shared
<1>5. CASE PersisterNext
  <2>1. CASE PersistRecv
    BY <2>1, MovedOn DEF PersistRecv, pumpVars
  <2> QED
    BY <1>1, <1>5, <2>1, MentionsEmpty DEF PersisterNext, PersistWrite, PersistDelete,
       PersistState, pumpVars, shared
<1>6. CASE CallNext
  <2>1. ASSUME NEW u \in Torrents, AddSend(u) PROVE OpPending({"delete"}, t)
    <3> DEFINE w == [kind |-> "write", t |-> u, id |-> addId[u], v |-> 0,
                     ack |-> "add"]
    <3>1. addId[u] \in Tokens
      BY <2>1 DEF AddSend, Accounting, TokensCarried, CarryAdds
    <3>2. w \in PersistOp /\ w.kind # "delete"
      BY <3>1, 0 \in Int, Entries
    <3>3. queue' = Append(queue, w) /\ UNCHANGED <<ops, current>>
      BY <2>1 DEF AddSend, pumpVars
    <3> HIDE DEF w
    <3> QED
      BY <1>2, <3>2, <3>3
  <2>2. ASSUME NEW u \in Torrents, AddDelete(u)
        PROVE  OpPending({"delete"}, t) \/ apc[t] = "deleting"
    <3> DEFINE d == [kind |-> "delete", t |-> u]
    <3>1. /\ d \in PersistOp /\ d.t = u /\ apc[u] = "deleting"
          /\ queue' = Append(queue, d) /\ UNCHANGED <<ops, current>>
      BY <2>2, Entries DEF AddDelete, pumpVars
    <3> HIDE DEF d
    <3> QED
      BY <3>1, MovedOn DEF Is
  <2> QED
    BY <1>1, <1>6, <2>1, <2>2 DEF CallNext, AddCall, AddRegister, AddEnqueue,
       AddAcked, AddNacked, AddDrop, RemoveCall, RemoveGiveUp, SaveCall, SaveGiveUp,
       shared, pumpVars
<1>7. CASE SweepNext
  BY <1>1, <1>7 DEF SweepNext, SweepTick, SweepVisit, shared, pumpVars
<1>8. CASE ShutdownNext
  <2>1. CASE StateSend
    <3> DEFINE s == [kind |-> "state"]
    <3>1. /\ s \in PersistOp /\ s.kind # "delete" /\ queue' = Append(queue, s)
          /\ UNCHANGED <<ops, current>>
      BY <2>1, Entries DEF StateSend, pumpVars, PersistOp, StateOp
    <3> HIDE DEF s
    <3> QED
      BY <1>2, <3>1
  <2> QED
    BY <1>1, <1>8, <2>1 DEF ShutdownNext, ShutdownStart, FlushStart, FlushWait,
       FlushEnd, StateGiveUp, DropSender, PersisterEnd, FlushVisit, shared, pumpVars
<1> QED
  BY <1>3, <1>4, <1>5, <1>6, <1>7, <1>8 DEF Next

\* The state a call of torrent t leaves to the others.
LEMMA CallsStep ==
    ASSUME TypeOK, Next, NEW t \in Torrents
    PROVE  /\ t \in rmPosted' => t \in rmPosted \/ Asked(t)'
           /\ life'[t] = life[t] \/ life'[t] \in {"adding", "live", "failed"}
                \/ (life[t] = "live" /\ t \in rmPosted /\ life'[t] = "removed")
                \/ (life[t] = "removed" /\ life'[t] = "gone")
           /\ apc'[t] = "deleting" => apc[t] = "deleting"
                \/ (apc[t] = "acked" /\ t \notin registry)
<1> DEFINE P == 
           /\ t \in rmPosted' => t \in rmPosted \/ Asked(t)'
           /\ life'[t] = life[t] \/ life'[t] \in {"adding", "live", "failed"}
                \/ (life[t] = "live" /\ t \in rmPosted /\ life'[t] = "removed")
                \/ (life[t] = "removed" /\ life'[t] = "gone")
           /\ apc'[t] = "deleting" => apc[t] = "deleting"
                \/ (apc[t] = "acked" /\ t \notin registry)
<1> USE DEF TypeOK, CallsTypeOK, LtTypeOK
<1>1. CASE UNCHANGED <<rmPosted, life, apc>>
  BY <1>1
<1>2. CASE LibtorrentNext
  BY <1>1, <1>2 DEF LibtorrentNext, LtAdd, LtRemove, LtExpire, LtChange,
     LtFinished, LtMoved, LtAnswerSave, calls
<1>3. CASE PumpNext
  <2>1. CASE PumpPop
    BY <2>1 DEF PumpPop
  <2> QED
    BY <1>1, <1>3, <2>1 DEF PumpNext, HandleAddFailed, HandleAdded, HandleRemoved,
       HandleSaveTrigger, RequestSave, HandleSaved, HandleSaveFailed, PumpSend,
       RetryTick, RetryDone, PumpStop, PumpAbort, RetryVisit, calls, ltVars
<1>4. CASE PersisterNext
  BY <1>1, <1>4 DEF PersisterNext, PersistRecv, PersistWrite, PersistDelete,
     PersistState, calls, ltVars
<1>5. CASE CallNext
  <2> SUFFICES ASSUME NEW u \in Torrents,
                      \/ AddCall(u) \/ AddRegister(u) \/ AddEnqueue(u)
                      \/ AddSend(u) \/ AddAcked(u) \/ AddDelete(u)
                      \/ AddNacked(u) \/ AddDrop(u) \/ RemoveCall(u)
                      \/ RemoveGiveUp(u) \/ SaveCall(u) \/ SaveGiveUp(u)
               PROVE  P
    BY <1>5 DEF CallNext
  <2>1. CASE RemoveCall(u) \/ RemoveGiveUp(u)
    BY <2>1 DEF RemoveCall, RemoveGiveUp, Asked, ltVars
  <2>2. CASE SaveCall(u) \/ SaveGiveUp(u)
    BY <1>1, <2>2 DEF SaveCall, SaveGiveUp, ltVars
  <2>3. CASE AddCall(u) \/ AddRegister(u) \/ AddSend(u) \/ AddAcked(u)
             \/ AddDelete(u) \/ AddDrop(u)
    BY <2>3 DEF AddCall, AddRegister, AddSend, AddAcked, AddDelete, AddDrop, ltVars
  <2>4. CASE AddEnqueue(u) \/ AddNacked(u)
    BY <2>4 DEF AddEnqueue, AddNacked, Unwind, Asked
  <2> QED
    BY <2>1, <2>2, <2>3, <2>4
<1>6. CASE SweepNext
  BY <1>1, <1>6 DEF SweepNext, SweepTick, SweepVisit, calls, ltVars
<1>7. CASE ShutdownNext
  BY <1>1, <1>7 DEF ShutdownNext, ShutdownStart, FlushStart, FlushWait, FlushEnd,
     StateSend, StateGiveUp, DropSender, PersisterEnd, FlushVisit, calls, ltVars
<1> QED
  BY <1>2, <1>3, <1>4, <1>5, <1>6, <1>7 DEF Next

LEMMA AskedStep ==
    ASSUME Accounting, AskedFirst, Next
    PROVE  AskedInv'
<1> SUFFICES ASSUME NEW t \in Torrents, Leaving(t)'
             PROVE  Asked(t)'
  BY DEF AskedInv
<1>1. TypeOK /\ TasksInv /\ (Leaving(t) => Asked(t))
  BY DEF Accounting, AskedFirst, AskedInv
<1>2. Asked(t) => Asked(t)'
  BY <1>1, AskedStays
<1>3. Leaving(t) => Asked(t)'
  BY <1>1, <1>2
<1>4. t \in rmPosted' => Asked(t)'
  BY <1>1, <1>3, CallsStep DEF Leaving
<1>5. ASSUME life'[t] \in {"removed", "gone"} PROVE Asked(t)'
  BY <1>1, <1>3, <1>5, CallsStep DEF Leaving
<1>6. ASSUME Mentions(alerts', {"removed"}, t) \/ Mentions(batch', {"removed"}, t)
      PROVE  Asked(t)'
  BY <1>1, <1>3, <1>6, NewsStep DEF Leaving
<1>7. ASSUME \/ Mentions(ops', {"delete"}, t) \/ Mentions(queue', {"delete"}, t)
             \/ Mentions(current', {"delete"}, t)
      PROVE  Asked(t)'
  BY <1>1, <1>3, <1>7, DeletesStep DEF Leaving
<1>8. ASSUME apc'[t] = "deleting" PROVE Asked(t)'
  BY <1>1, <1>2, <1>3, <1>8, CallsStep DEF Leaving, AskedFirst, RegisteredInv
<1> QED
  BY <1>4, <1>5, <1>6, <1>7, <1>8 DEF Leaving, AlertPending, OpPending

LEMMA RegisteredStep ==
    ASSUME Accounting, AskedFirst, Next
    PROVE  RegisteredInv'
<1> DEFINE In(t) == apc[t] \in {"registered", "sending", "acking", "acked"}
<1> SUFFICES ASSUME NEW t \in Torrents, In(t)', ~Asked(t)
             PROVE  t \in registry' \/ Asked(t)'
  BY AskedStays DEF RegisteredInv, Accounting
<1>1. /\ In(t) => t \in registry
      /\ ~Leaving(t) /\ apc \in [Torrents -> AddStates] /\ registry \subseteq Torrents
  BY DEF AskedFirst, RegisteredInv, AskedInv, Accounting, TypeOK, CallsTypeOK,
     SharedTypeOK
<1>2. CASE UNCHANGED <<apc, registry>>
  BY <1>1, <1>2
<1>3. CASE LibtorrentNext
  BY <1>2, <1>3 DEF LibtorrentNext, LtAdd, LtRemove, LtExpire, LtChange,
     LtFinished, LtMoved, LtAnswerSave, calls, shared
<1>4. CASE PumpNext
  <2>1. CASE PumpPop
    BY <1>1, <2>1 DEF PumpPop, shared
  <2>2. CASE HandleAdded
    BY <1>1, <2>2 DEF HandleAdded, calls, upsert
  <2>3. CASE HandleRemoved
    <3>1. batch # <<>> /\ Head(batch).kind = "removed" /\ UNCHANGED apc
          /\ \A u \in registry : u # Head(batch).t => u \in registry'
      BY <2>3 DEF HandleRemoved, Consume, unregister
    <3>2. Is(Head(batch), {"removed"}, t) => Leaving(t)
      BY <3>1, HeadFacts, MentionsTail DEF Leaving, AlertPending
    <3>3. Head(batch).t # t
      BY <1>1, <3>1, <3>2 DEF Is
    <3> QED
      BY <1>1, <3>1, <3>3
  <2> QED
    BY <1>2, <1>4, <2>1, <2>2, <2>3 DEF PumpNext, HandleAddFailed,
       HandleSaveTrigger, RequestSave, HandleSaved, HandleSaveFailed, PumpSend,
       RetryTick, RetryDone, PumpStop, PumpAbort, RetryVisit, calls, shared
<1>5. CASE PersisterNext
  <2>1. CASE PersistWrite
    BY <1>1, <2>1 DEF PersistWrite
  <2> QED
    BY <1>2, <1>5, <2>1 DEF PersisterNext, PersistRecv, PersistDelete, PersistState,
       calls, shared
<1>6. CASE CallNext
  <2> SUFFICES ASSUME NEW u \in Torrents,
                      \/ AddCall(u) \/ AddRegister(u) \/ AddEnqueue(u)
                      \/ AddSend(u) \/ AddAcked(u) \/ AddDelete(u)
                      \/ AddNacked(u) \/ AddDrop(u) \/ RemoveCall(u)
                      \/ RemoveGiveUp(u) \/ SaveCall(u) \/ SaveGiveUp(u)
               PROVE  t \in registry' \/ Asked(t)'
    BY <1>6 DEF CallNext
  <2>1. CASE RemoveCall(u) \/ RemoveGiveUp(u) \/ SaveCall(u) \/ SaveGiveUp(u)
    BY <1>2, <2>1 DEF RemoveCall, RemoveGiveUp, SaveCall, SaveGiveUp, shared
  <2>2. CASE AddRegister(u)
    BY <1>1, <2>2 DEF AddRegister, upsert
  <2>3. CASE AddCall(u) \/ AddSend(u) \/ AddAcked(u) \/ AddDelete(u) \/ AddDrop(u)
    BY <1>1, <2>3 DEF AddCall, AddSend, AddAcked, AddDelete, AddDrop, shared
  <2>4. CASE AddEnqueue(u) \/ AddNacked(u)
    BY <1>1, <2>4 DEF AddEnqueue, AddNacked, Unwind, unregister, Asked
  <2> QED
    BY <2>1, <2>2, <2>3, <2>4
<1>7. CASE SweepNext
  BY <1>2, <1>7 DEF SweepNext, SweepTick, SweepVisit, calls, shared
<1>8. CASE ShutdownNext
  BY <1>2, <1>8 DEF ShutdownNext, ShutdownStart, FlushStart, FlushWait, FlushEnd,
     StateSend, StateGiveUp, DropSender, PersisterEnd, FlushVisit, calls, shared
<1> QED
  BY <1>3, <1>4, <1>5, <1>6, <1>7, <1>8 DEF Next

\* What the persister runs.
LEMMA CurrentFacts ==
    ASSUME Accounting, VersionsInv, current # <<>>
    PROVE  /\ current[1] \in PersistOp
           /\ current[1].kind = "write" =>
                /\ current[1].t \in Torrents /\ current[1].id \in Tokens
                /\ current[1].v \in Nat /\ current[1].v <= ver[current[1].t]
           /\ current[1].kind = "delete" =>
                /\ current[1].t \in Torrents
                /\ Mentions(current, {"delete"}, current[1].t)
<1>1. Len(current) \in Nat /\ Len(current) >= 1 /\ current[1] \in PersistOp
      /\ 1 \in 1 .. Len(current)
  BY HeadFacts
<1>2. ASSUME current[1].kind = "write"
      PROVE  /\ current[1].t \in Torrents /\ current[1].id \in Tokens
             /\ current[1].v \in Nat /\ current[1].v <= ver[current[1].t]
  <2>1. current[1].v >= 0 /\ current[1].v <= ver[current[1].t]
    BY <1>1, <1>2 DEF VersionsInv, Within
  <2>2. current[1].t \in Torrents /\ current[1].id \in Tokens /\ current[1].v \in Int
    BY <1>1, <1>2 DEF PersistOp, WriteOp, DeleteOp, StateOp
  <2> QED
    BY <2>1, <2>2
<1>3. ASSUME current[1].kind = "delete"
      PROVE  /\ current[1].t \in Torrents
             /\ Mentions(current, {"delete"}, current[1].t)
  <2>1. current[1].t \in Torrents
    BY <1>1, <1>3 DEF PersistOp, WriteOp, DeleteOp, StateOp
  <2> QED
    BY <1>1, <1>3, <2>1 DEF Mentions
<1> QED
  BY <1>1, <1>2, <1>3

LEMMA StoredStep ==
    ASSUME Accounting, AskedFirst, Next
    PROVE  StoredInv'
<1> DEFINE In(t) == apc[t] \in {"acked", "deleting", "ok", "restored"}
<1> SUFFICES ASSUME NEW t \in Torrents, In(t)', ~Asked(t)
             PROVE  disk'[t] # NoFile
  BY AskedStays DEF StoredInv, Accounting
<1>1. /\ In(t) => disk[t] # NoFile
      /\ ~Leaving(t) /\ apc \in [Torrents -> AddStates] /\ disk \in [Torrents -> Int]
      /\ VersionsInv
  BY DEF AskedFirst, StoredInv, AskedInv, Accounting, TypeOK, CallsTypeOK,
     SharedTypeOK
<1>2. CASE UNCHANGED <<apc, disk>>
  BY <1>1, <1>2
<1>3. CASE LibtorrentNext
  BY <1>2, <1>3 DEF LibtorrentNext, LtAdd, LtRemove, LtExpire, LtChange,
     LtFinished, LtMoved, LtAnswerSave, calls, shared
<1>4. CASE PumpNext
  <2>1. CASE PumpPop
    BY <1>1, <2>1 DEF PumpPop, shared
  <2> QED
    BY <1>2, <1>4, <2>1 DEF PumpNext, HandleAddFailed, HandleAdded, HandleRemoved,
       HandleSaveTrigger, RequestSave, HandleSaved, HandleSaveFailed, PumpSend,
       RetryTick, RetryDone, PumpStop, PumpAbort, RetryVisit, calls, shared
<1>5. CASE PersisterNext
  <2>1. CASE PersistWrite
    <3> DEFINE o == current[1]
    <3>1. /\ o.t \in Torrents /\ o.v \in Nat
          /\ \/ /\ disk' = [disk EXCEPT ![o.t] = o.v]
                /\ apc'[t] = apc[t] \/ o.t = t
             \/ disk' = disk /\ (apc'[t] = apc[t] \/ apc'[t] = "nacked")
      BY <1>1, <2>1, CurrentFacts DEF PersistWrite, write_atomic
    <3> HIDE DEF o
    <3> QED
      BY <1>1, <3>1 DEF NoFile
  <2>2. CASE PersistDelete
    <3> DEFINE o == current[1]
    <3>1. /\ o.t \in Torrents /\ Mentions(current, {"delete"}, o.t)
          /\ disk' = disk \/ disk' = [disk EXCEPT ![o.t] = NoFile]
          /\ UNCHANGED apc
      BY <1>1, <2>2, CurrentFacts DEF PersistDelete, calls
    <3>2. o.t # t
      BY <1>1, <3>1 DEF Leaving, OpPending
    <3> HIDE DEF o
    <3> QED
      BY <1>1, <3>1, <3>2
  <2> QED
    BY <1>2, <1>5, <2>1, <2>2 DEF PersisterNext, PersistRecv, PersistState, calls,
       shared
<1>6. CASE CallNext
  <2> SUFFICES ASSUME NEW u \in Torrents,
                      \/ AddCall(u) \/ AddRegister(u) \/ AddEnqueue(u)
                      \/ AddSend(u) \/ AddAcked(u) \/ AddDelete(u)
                      \/ AddNacked(u) \/ AddDrop(u) \/ RemoveCall(u)
                      \/ RemoveGiveUp(u) \/ SaveCall(u) \/ SaveGiveUp(u)
               PROVE  disk'[t] # NoFile
    BY <1>6 DEF CallNext
  <2>1. CASE RemoveCall(u) \/ RemoveGiveUp(u) \/ SaveCall(u) \/ SaveGiveUp(u)
    BY <1>2, <2>1 DEF RemoveCall, RemoveGiveUp, SaveCall, SaveGiveUp, shared
  <2>2. CASE AddRegister(u) \/ AddCall(u) \/ AddSend(u) \/ AddAcked(u)
             \/ AddDelete(u) \/ AddDrop(u)
    BY <1>1, <2>2 DEF AddCall, AddRegister, AddSend, AddAcked, AddDelete, AddDrop,
       shared
  <2>3. CASE AddEnqueue(u) \/ AddNacked(u)
    BY <1>1, <2>3 DEF AddEnqueue, AddNacked, Unwind
  <2> QED
    BY <2>1, <2>2, <2>3
<1>7. CASE SweepNext
  BY <1>2, <1>7 DEF SweepNext, SweepTick, SweepVisit, calls, shared
<1>8. CASE ShutdownNext
  BY <1>2, <1>8 DEF ShutdownNext, ShutdownStart, FlushStart, FlushWait, FlushEnd,
     StateSend, StateGiveUp, DropSender, PersisterEnd, FlushVisit, calls, shared
<1> QED
  BY <1>3, <1>4, <1>5, <1>6, <1>7, <1>8 DEF Next

LEMMA AskedInit == Init => AskedFirst
<1> SUFFICES ASSUME Init PROVE AskedFirst
  OBVIOUS
<1>1. AskedInv
  BY MentionsEmpty DEF Init, AskedInv, Leaving, AlertPending, OpPending
<1>2. RegisteredInv /\ StoredInv
  BY DEF Init, RegisteredInv, StoredInv, NoFile
<1>3. VersionsInv
  BY WithinEmpty DEF Init, VersionsInv, NoFile
<1>4. TasksInv
  BY DEF Init, TasksInv
<1> QED
  BY <1>1, <1>2, <1>3, <1>4 DEF AskedFirst

LEMMA VersionsStep ==
    ASSUME Accounting, VersionsInv, TasksInv, Next
    PROVE  VersionsInv'
  BY VersionsLibtorrent, VersionsPump, VersionsPersister, VersionsRest DEF Next

\* Nothing leaves unless its removal was asked for, and an acknowledged add
\* has its record: the inductive invariant of durable adds.
THEOREM AskedFirstInvariant == Spec => [](Accounting /\ AskedFirst)
<1>1. Accounting /\ AskedFirst /\ [Next]_vars => AskedFirst'
  <2> SUFFICES ASSUME Accounting, AskedFirst, [Next]_vars
               PROVE  AskedFirst'
    OBVIOUS
  <2>1. CASE Next
    BY <2>1, AskedStep, RegisteredStep, VersionsStep, StoredStep, TasksStep
       DEF AskedFirst
  <2>2. CASE UNCHANGED vars
    <3>1. UNCHANGED <<life, ver, rmPosted, alerts, batch, ops, queue, current,
                      apc, rpc, registry, disk, pc>>
      BY <2>2 DEF vars, ltVars, shared, pumpVars, calls
    <3>2. AskedInv'
      BY <3>1 DEF AskedFirst, AskedInv, Leaving, Asked, AlertPending, OpPending
    <3>3. RegisteredInv' /\ StoredInv' /\ TasksInv'
      BY <3>1 DEF AskedFirst, RegisteredInv, StoredInv, TasksInv, Asked
    <3>4. VersionsInv'
      BY <3>1 DEF AskedFirst, VersionsInv
    <3> QED
      BY <3>2, <3>3, <3>4 DEF AskedFirst
  <2> QED
    BY <2>1, <2>2
<1> QED
  BY <1>1, AskedInit, AccountingInvariant, PTL DEF Spec

\* An acknowledged add survives: from the moment add_torrent reports success
\* until somebody asks for the removal of the torrent, its resume file is
\* there, whatever the saves, the retries, failing writes and the shutdown do
\* with it in between.
THEOREM AckedAddsAreDurable == Spec => []AckedAddIsDurable
<1>1. AskedFirst => AckedAddIsDurable
  BY DEF AskedFirst, StoredInv, Asked, AckedAddIsDurable
<1> QED
  BY <1>1, AskedFirstInvariant, PTL

(***************************************************************************)
(* Second part: a removal has the last word.                               *)
(***************************************************************************)
\* Every write of t in s is followed by a delete of t.
IsWrite(e, t) == Is(e, {"write"}, t)
IsDelete(e, t) == Is(e, {"delete"}, t)
Settles(s, t) ==
    \A i \in 1 .. Len(s) : IsWrite(s[i], t) =>
        \E j \in 1 .. Len(s) : i < j /\ IsDelete(s[j], t)

\* In s a torrent is removed once, and not added after that.
Orderly(s, t) ==
    \A i, j \in 1 .. Len(s) : Is(s[i], {"removed"}, t) =>
        /\ Is(s[j], {"added"}, t) => j < i
        /\ Is(s[j], {"removed"}, t) => j = i

\* The add got as far as registering the torrent, and was not unwound.
Inside(t) == apc[t] \in {"registered", "sending", "acking", "acked", "nacked",
                         "deleting", "ok", "restored"}

\* libtorrent removed t, and the pump knows.
Handled(t) == life[t] \in {"removed", "gone"} /\ ~AlertPending({"removed"}, t)

NewsInv ==
    \A t \in Torrents :
        /\ AlertPending({"added"}, t) => life[t] \in {"live", "removed", "gone"}
        /\ AlertPending({"removed"}, t) => life[t] \in {"removed", "gone"}
        /\ Orderly(batch, t) /\ Orderly(alerts, t)
        /\ Mentions(batch, {"removed"}, t) =>
             ~Mentions(alerts, {"added"}, t) /\ ~Mentions(alerts, {"removed"}, t)
        /\ Handled(t) => ~AlertPending({"added"}, t)

\* A torrent nobody added is not in the session.
IdleInv == \A t \in Torrents : apc[t] = "idle" => life[t] = "none"

\* Only a torrent whose add was registered is removed.
EarlyInv ==
    \A t \in Torrents :
        /\ apc[t] = "idle" => life[t] = "none"
        /\ t \in registry \/ apc[t] = "resolved"
             => life[t] \in {"live", "removed", "gone"}
        /\ t \in rmPosted \/ life[t] \in {"removed", "gone"}
             => apc[t] \notin {"idle", "posted", "resolved"}

\* The registry has what is in the session, as far as the pump knows.
SessionInv ==
    \A t \in Torrents : Inside(t) =>
        /\ ~Handled(t) <=> t \in registry
        /\ apc[t] = "deleting" => Handled(t)

\* A delete comes after every write that is still on its way.
Covered(t) ==
    \/ Mentions(ops, {"delete"}, t)
    \/ Mentions(queue, {"delete"}, t) /\ Settles(queue, t)
    \/ Settles(queue, t) /\ ~Mentions(current, {"write"}, t)

LastWordInv ==
    \A t \in Torrents : Inside(t) /\ Handled(t) /\ t \notin undeleted =>
        /\ Settles(ops, t)
        /\ apc[t] \in {"ok", "restored"} =>
             Covered(t) /\ (OpPending({"delete"}, t) \/ disk[t] = NoFile)

DeletedInv == \A t \in Torrents :
    OpPending({"delete"}, t) => life[t] \in {"removed", "gone"}

RemovalInv ==
    NewsInv /\ EarlyInv /\ SessionInv /\ LastWordInv /\ DeletedInv

(***************************************************************************)
(* Entries in order.                                                       *)
(***************************************************************************)
LEMMA SettlesEmpty == \A t : Settles(<<>>, t)
  BY DEF Settles

LEMMA SettlesAppend ==
    ASSUME NEW S, NEW s \in Seq(S), NEW e \in S, NEW t,
           IsDelete(e, t) \/ (Settles(s, t) /\ ~IsWrite(e, t))
    PROVE  Settles(Append(s, e), t)
<1> DEFINE x == Append(s, e)
<1>1. /\ Len(s) \in Nat /\ Len(x) = Len(s) + 1 /\ x[Len(s) + 1] = e
      /\ \A i \in 1 .. Len(s) : x[i] = s[i]
  BY SeqFacts
<1>2. /\ \A i \in 1 .. Len(x) : i \in 1 .. Len(s) \/ i = Len(s) + 1
      /\ Len(s) + 1 \in 1 .. Len(x)
      /\ \A i \in 1 .. Len(s) : i \in 1 .. Len(x) /\ i < Len(s) + 1
  BY <1>1
<1>3. IsDelete(e, t) => ~IsWrite(e, t)
  BY DEF IsDelete, IsWrite, Is
<1> HIDE DEF x
<1>4. Settles(x, t)
  BY <1>1, <1>2, <1>3 DEF Settles
<1> QED
  BY <1>4 DEF x

LEMMA SettlesTail ==
    ASSUME NEW S, NEW s \in Seq(S), s # <<>>, NEW t, Settles(s, t)
    PROVE  /\ Settles(Tail(s), t)
           /\ IsWrite(Head(s), t) => Mentions(Tail(s), {"delete"}, t)
<1> DEFINE x == Tail(s)
<1>1. /\ Len(s) \in Nat /\ Len(s) >= 1 /\ Len(x) = Len(s) - 1
      /\ Head(s) = s[1] /\ \A i \in 1 .. Len(x) : x[i] = s[i + 1]
  BY SeqFacts
<1>2. /\ \A i \in 1 .. Len(s) : 1 < i => i - 1 \in 1 .. Len(x) /\ s[i] = x[i - 1]
      /\ \A i \in 1 .. Len(x) : i + 1 \in 1 .. Len(s)
      /\ 1 \in 1 .. Len(s)
  BY <1>1
<1> HIDE DEF x
<1>3. ASSUME NEW i \in 1 .. Len(x), IsWrite(x[i], t)
      PROVE  \E j \in 1 .. Len(x) : i < j /\ IsDelete(x[j], t)
  <2>1. PICK j \in 1 .. Len(s) : i + 1 < j /\ IsDelete(s[j], t)
    BY <1>1, <1>2, <1>3 DEF Settles
  <2>2. j - 1 \in 1 .. Len(x) /\ i < j - 1 /\ x[j - 1] = s[j]
    BY <1>2, <2>1
  <2> QED
    BY <2>1, <2>2
<1>4. ASSUME IsWrite(s[1], t) PROVE Mentions(x, {"delete"}, t)
  <2>1. PICK j \in 1 .. Len(s) : 1 < j /\ IsDelete(s[j], t)
    BY <1>2, <1>4 DEF Settles
  <2> QED
    BY <1>2, <2>1 DEF IsDelete, Is, Mentions
<1>5. Settles(x, t)
  BY <1>3 DEF Settles
<1> QED
  BY <1>1, <1>4, <1>5 DEF x

LEMMA SettlesNone ==
    ASSUME NEW s, NEW t, Settles(s, t), ~Mentions(s, {"delete"}, t)
    PROVE  ~Mentions(s, {"write"}, t)
  BY DEF Settles, Mentions, IsWrite, IsDelete, Is

LEMMA OrderlyEmpty == \A t : Orderly(<<>>, t)
  BY DEF Orderly

LEMMA OrderlyAppend ==
    ASSUME NEW S, NEW s \in Seq(S), NEW e \in S, NEW t, Orderly(s, t),
           Is(e, {"added"}, t) \/ Is(e, {"removed"}, t)
             => ~Mentions(s, {"removed"}, t)
    PROVE  Orderly(Append(s, e), t)
<1> DEFINE x == Append(s, e)
<1>1. /\ Len(s) \in Nat /\ Len(x) = Len(s) + 1 /\ x[Len(s) + 1] = e
      /\ \A i \in 1 .. Len(s) : x[i] = s[i]
  BY SeqFacts
<1>2. /\ \A i \in 1 .. Len(x) : i \in 1 .. Len(s) \/ i = Len(s) + 1
      /\ \A i \in 1 .. Len(s) : i < Len(s) + 1
  BY <1>1
<1>3. ~(Is(e, {"added"}, t) /\ Is(e, {"removed"}, t))
  BY DEF Is
<1>4. \A i \in 1 .. Len(s) : Is(s[i], {"removed"}, t) => Mentions(s, {"removed"}, t)
  BY DEF Is, Mentions
<1> HIDE DEF x
<1>5. Orderly(x, t)
  <2> SUFFICES ASSUME NEW i \in 1 .. Len(x), NEW j \in 1 .. Len(x),
                      Is(x[i], {"removed"}, t)
               PROVE  /\ Is(x[j], {"added"}, t) => j < i
                      /\ Is(x[j], {"removed"}, t) => j = i
    BY DEF Orderly
  <2>1. CASE i \in 1 .. Len(s) /\ j \in 1 .. Len(s)
    BY <1>1, <2>1 DEF Orderly
  <2>2. CASE i \in 1 .. Len(s) /\ j = Len(s) + 1
    BY <1>1, <1>4, <2>2
  <2>3. CASE i = Len(s) + 1 /\ j \in 1 .. Len(s)
    BY <1>1, <1>2, <1>4, <2>3
  <2>4. CASE i = Len(s) + 1 /\ j = Len(s) + 1
    BY <1>1, <1>3, <2>4
  <2> QED
    BY <1>2, <2>1, <2>2, <2>3, <2>4
<1> QED
  BY <1>5 DEF x

LEMMA OrderlyTail ==
    ASSUME NEW S, NEW s \in Seq(S), s # <<>>, NEW t, Orderly(s, t)
    PROVE  /\ Orderly(Tail(s), t)
           /\ Is(Head(s), {"removed"}, t) =>
                /\ ~Mentions(Tail(s), {"added"}, t)
                /\ ~Mentions(Tail(s), {"removed"}, t)
<1> DEFINE x == Tail(s)
<1>1. /\ Len(s) \in Nat /\ Len(s) >= 1 /\ Len(x) = Len(s) - 1
      /\ Head(s) = s[1] /\ \A i \in 1 .. Len(x) : x[i] = s[i + 1]
  BY SeqFacts
<1>2. /\ \A i \in 1 .. Len(x) : i + 1 \in 1 .. Len(s) /\ ~(i + 1 < 1) /\ i + 1 # 1
      /\ 1 \in 1 .. Len(s)
      /\ \A i, j \in 1 .. Len(x) : /\ i + 1 < j + 1 => i < j
                                   /\ i + 1 = j + 1 => i = j
  BY <1>1
<1> HIDE DEF x
<1>3. Orderly(x, t)
  <2> SUFFICES ASSUME NEW i \in 1 .. Len(x), NEW j \in 1 .. Len(x),
                      Is(x[i], {"removed"}, t)
               PROVE  /\ Is(x[j], {"added"}, t) => j < i
                      /\ Is(x[j], {"removed"}, t) => j = i
    BY DEF Orderly
  <2>1. /\ Is(s[j + 1], {"added"}, t) => j + 1 < i + 1
        /\ Is(s[j + 1], {"removed"}, t) => j + 1 = i + 1
    BY <1>1, <1>2 DEF Orderly
  <2> QED
    BY <1>1, <1>2, <2>1
<1>4. ASSUME Is(s[1], {"removed"}, t), NEW j \in 1 .. Len(x)
      PROVE  ~Is(x[j], {"added"}, t) /\ ~Is(x[j], {"removed"}, t)
  <2>1. /\ Is(s[j + 1], {"added"}, t) => j + 1 < 1
        /\ Is(s[j + 1], {"removed"}, t) => j + 1 = 1
    BY <1>2, <1>4 DEF Orderly
  <2> QED
    BY <1>1, <1>2, <2>1
<1> QED
  BY <1>1, <1>3, <1>4 DEF x, Mentions, Is

(***************************************************************************)
(* How alerts move, and torrents live.                                     *)
(***************************************************************************)
AlertQueued ==
    \E a \in Alert :
        /\ alerts' = Append(alerts, a) /\ UNCHANGED <<batch, registry, apc>>
        /\ a.kind \in {"added", "addFailed"} =>
             life[a.t] = "adding" /\ UNCHANGED rmPosted
        /\ a.kind = "added" => life' = [life EXCEPT ![a.t] = "live"]
        /\ a.kind = "addFailed" => life' = [life EXCEPT ![a.t] = "failed"]
        /\ a.kind = "removed" =>
             /\ a.t \in rmPosted /\ life[a.t] = "live"
             /\ life' = [life EXCEPT ![a.t] = "removed"]
        /\ a.kind \notin {"added", "addFailed", "removed"} => UNCHANGED life
        /\ a.kind = "moved" => "moved" \in Env
        /\ a.kind \in {"finished", "moved"} => Settled(a.t) /\ life[a.t] = "live"
        /\ a.kind = "saved" => a.v = ver[a.t]
        /\ a.kind \in {"saved", "saveFailed"} => \E p \in posted : p.t = a.t

AlertHandled ==
    /\ batch # <<>> /\ batch' = Tail(batch) /\ UNCHANGED <<alerts, life>>
    /\ Head(batch).kind = "removed" => HandleRemoved

\* Alerts apart, a torrent is added or expires.
LifeGoesOn(t) ==
    \/ life'[t] = life[t]
    \/ apc[t] = "idle" /\ life'[t] = "adding"
    \/ life[t] = "removed" /\ life'[t] = "gone"

AlertFlow ==
    \/ UNCHANGED <<alerts, batch>> /\ \A t \in Torrents : LifeGoesOn(t)
    \/ AlertQueued
    \/ PumpPop /\ batch = <<>>
    \/ AlertHandled

LEMMA AlertFlowStep ==
    ASSUME Accounting, TasksInv, Next
    PROVE  AlertFlow
<1> USE DEF AlertFlow, LifeGoesOn
<1>0. life \in [Torrents -> Lives]
  BY DEF Accounting, TypeOK, LtTypeOK
<1>1. CASE LibtorrentNext
  <2>1. ASSUME NEW t \in Torrents, LtAdd(t) PROVE AlertFlow
    <3>1. \A k \in {"added", "addFailed"} :
            /\ PlainAlert(k, t) \in Alert /\ PlainAlert(k, t).kind = k
            /\ PlainAlert(k, t).t = t
      BY Entries DEF AlertKinds, PlainAlert
    <3> QED
      BY <2>1, <3>1 DEF LtAdd, AlertQueued, pumpVars, shared, calls
  <2>2. ASSUME NEW t \in Torrents, LtRemove(t) PROVE AlertFlow
    <3>1. /\ PlainAlert("removed", t) \in Alert
          /\ PlainAlert("removed", t).kind = "removed"
          /\ PlainAlert("removed", t).t = t
      BY Entries DEF AlertKinds, PlainAlert
    <3> QED
      BY <2>2, <3>1 DEF LtRemove, AlertQueued, pumpVars, shared, calls
  <2>3. ASSUME NEW t \in Torrents, LtFinished(t) \/ LtMoved(t) PROVE AlertFlow
    <3>1. \A k \in {"finished", "moved"} :
            /\ PlainAlert(k, t) \in Alert /\ PlainAlert(k, t).kind = k
            /\ PlainAlert(k, t).t = t
      BY Entries DEF AlertKinds, PlainAlert
    <3>2. CASE LtFinished(t)
      BY <3>1, <3>2 DEF LtFinished, AlertQueued, pumpVars, shared, calls
    <3>3. CASE LtMoved(t)
      BY <3>1, <3>3 DEF LtMoved, AlertQueued, pumpVars, shared, calls
    <3> QED
      BY <2>3, <3>2, <3>3
  <2>4. ASSUME NEW p \in posted, LtAnswerSave(p) PROVE AlertFlow
    <3>1. p.t \in Torrents /\ p.id \in Tokens /\ ver[p.t] \in Int
      BY DEF Accounting, TypeOK, LtTypeOK, SaveRequest
    <3> DEFINE a == [kind |-> "saved", t |-> p.t, id |-> p.id, v |-> ver[p.t]]
               b == [kind |-> "saveFailed", t |-> p.t, id |-> p.id, v |-> 0]
    <3>2. alerts' = Append(alerts, a) \/ alerts' = Append(alerts, b)
      BY <2>4 DEF LtAnswerSave
    <3>3. a \in Alert /\ b \in Alert
      BY <3>1, 0 \in Int, Entries
    <3>4. /\ a.kind = "saved" /\ a.t = p.t /\ a.v = ver[p.t]
          /\ b.kind = "saveFailed" /\ b.t = p.t
      OBVIOUS
    <3>5. UNCHANGED <<batch, registry, apc, life>>
      BY <2>4 DEF LtAnswerSave, pumpVars, shared, calls
    <3> HIDE DEF a, b
    <3> QED
      BY <3>2, <3>3, <3>4, <3>5 DEF AlertQueued
  <2> QED
    BY <1>0, <1>1, <2>1, <2>2, <2>3, <2>4 DEF LibtorrentNext, LtExpire, LtChange,
       pumpVars
<1>2. CASE PumpNext
  <2>1. CASE PumpPop
    BY <2>1 DEF PumpPop, TasksInv
  <2>2. CASE \/ HandleAddFailed \/ HandleAdded \/ HandleRemoved \/ HandleSaved
             \/ HandleSaveFailed
    BY <2>2 DEF HandleAddFailed, HandleAdded, HandleRemoved, HandleSaved,
       HandleSaveFailed, Consume, AlertHandled, ltVars
  <2>3. CASE HandleSaveTrigger
    BY <2>3 DEF HandleSaveTrigger, Consume, AlertHandled, ltVars
  <2>4. CASE RequestSave
    <3>1. batch # <<>> /\ Head(batch).kind # "removed"
      BY <2>4 DEF RequestSave, TasksInv, Accounting
      <3> QED
      BY <2>4, <3>1 DEF RequestSave, AlertHandled
  <2> QED
    BY <1>2, <2>1, <2>2, <2>3, <2>4 DEF PumpNext, PumpSend, RetryTick, RetryDone,
       PumpStop, PumpAbort, RetryVisit, ltVars
<1>3. CASE PersisterNext
  BY <1>3 DEF PersisterNext, PersistRecv, PersistWrite, PersistDelete,
     PersistState, ltVars, pumpVars
<1>4. CASE CallNext
  BY <1>0, <1>4 DEF CallNext, AddCall, AddRegister, AddEnqueue, AddSend, AddAcked,
     AddDelete, AddNacked, AddDrop, RemoveCall, RemoveGiveUp, SaveCall, SaveGiveUp,
     ltVars, pumpVars
<1>5. CASE SweepNext
  BY <1>5 DEF SweepNext, SweepTick, SweepVisit, ltVars, pumpVars
<1>6. CASE ShutdownNext
  BY <1>6 DEF ShutdownNext, ShutdownStart, FlushStart, FlushWait, FlushEnd,
     StateSend, StateGiveUp, DropSender, PersisterEnd, FlushVisit, ltVars, pumpVars
<1> QED
  BY <1>1, <1>2, <1>3, <1>4, <1>5, <1>6 DEF Next

(***************************************************************************)
(* How operations move.                                                    *)
(***************************************************************************)
OpCollected ==
    \E o \in PersistOp :
        /\ ops' = Append(ops, o)
        /\ UNCHANGED <<queue, current, disk, apc, undeleted>>
        /\ o.kind = "write" => /\ HandleSaved /\ o.t \in registry
                               /\ o.t = Head(batch).t /\ o.v = Head(batch).v
                               /\ o.ack = "none"
        /\ o.kind = "delete" => HandleRemoved /\ o.t = Head(batch).t

OpQueued ==
    \E o \in PersistOp :
        /\ queue' = Append(queue, o)
        /\ UNCHANGED <<ops, current, disk, undeleted>>
        /\ o.kind = "write" => AddSend(o.t) /\ o.v = 0 /\ o.ack = "add"
        /\ o.kind = "delete" => AddDelete(o.t)
        /\ o.kind = "state" => UNCHANGED apc

OpsFlow ==
    \/ UNCHANGED <<ops, queue, current, disk>>
    \/ OpCollected
    \/ OpQueued
    \/ PumpSend /\ ops # <<>> /\ queue' = Append(queue, Head(ops)) /\ ops' = Tail(ops)
    \/ PumpAbort
    \/ PersistRecv
    \/ PersistWrite \/ PersistDelete \/ PersistState

LEMMA OpsFlowStep ==
    ASSUME Accounting, Next
    PROVE  OpsFlow
<1> USE DEF OpsFlow
<1>1. CASE LibtorrentNext
  BY <1>1 DEF LibtorrentNext, LtAdd, LtRemove, LtExpire, LtChange, LtFinished,
     LtMoved, LtAnswerSave, pumpVars, shared
<1>2. CASE PumpNext
  <2>1. CASE HandleRemoved
    <3> DEFINE d == [kind |-> "delete", t |-> Head(batch).t]
    <3>1. /\ d \in PersistOp /\ d.t = Head(batch).t
          /\ UNCHANGED <<queue, current, disk, apc, undeleted>>
          /\ ops' = ops \/ ops' = Append(ops, d)
      BY <2>1, HeadFacts, Entries DEF HandleRemoved, Consume, WithDelete, calls,
         history, observed
    <3>2. d.kind = "delete"
      OBVIOUS
    <3> HIDE DEF d
    <3> QED
      BY <2>1, <3>1, <3>2 DEF OpCollected
  <2>2. CASE HandleSaved
    <3> DEFINE a == Head(batch)
               w == [kind |-> "write", t |-> a.t, id |-> a.id, v |-> a.v,
                     ack |-> "none"]
    <3>1. /\ batch # <<>> /\ a.kind = "saved"
          /\ UNCHANGED <<queue, current, disk, apc, undeleted>>
          /\ ops' = ops \/ (ops' = Append(ops, w) /\ a.t \in registry)
      BY <2>2 DEF HandleSaved, Consume, StillRegistered, observed
    <3>2. a.t \in Torrents /\ a.id \in Tokens /\ a.v \in Int
      BY <3>1, HeadFacts DEF Alert
    <3>3. /\ w \in PersistOp /\ w.kind = "write" /\ w.t = a.t /\ w.v = a.v
          /\ w.ack = "none"
      BY <3>2, Entries
    <3> HIDE DEF w
    <3> QED
      BY <2>2, <3>1, <3>3 DEF OpCollected
  <2>3. CASE PumpSend
    BY <2>3 DEF PumpSend
  <2> QED
    BY <1>2, <2>1, <2>2, <2>3 DEF PumpNext, PumpPop, HandleAddFailed, HandleAdded,
       HandleSaveTrigger, RequestSave, HandleSaveFailed, RetryTick, RetryDone,
       PumpStop, RetryVisit, shared
<1>3. CASE PersisterNext
  BY <1>3 DEF PersisterNext
<1>4. CASE CallNext
  <2>1. ASSUME NEW t \in Torrents, AddSend(t) PROVE OpQueued
    <3> DEFINE w == [kind |-> "write", t |-> t, id |-> addId[t], v |-> 0,
                     ack |-> "add"]
    <3>1. addId[t] \in Tokens
      BY <2>1 DEF AddSend, Accounting, TokensCarried, CarryAdds
    <3>2. w \in PersistOp
      BY <3>1, 0 \in Int, Entries
    <3>3. /\ queue' = Append(queue, w)
          /\ UNCHANGED <<ops, current, disk, undeleted>>
      BY <2>1 DEF AddSend, pumpVars, observed
    <3>4. w.kind = "write" /\ w.t = t /\ w.v = 0 /\ w.ack = "add"
      OBVIOUS
    <3> HIDE DEF w
    <3> QED
      BY <2>1, <3>2, <3>3, <3>4 DEF OpQueued
  <2>2. ASSUME NEW t \in Torrents, AddDelete(t) PROVE OpQueued
    <3> DEFINE d == [kind |-> "delete", t |-> t]
    <3>1. /\ d \in PersistOp /\ queue' = Append(queue, d)
          /\ UNCHANGED <<ops, current, disk, undeleted>>
      BY <2>2, Entries DEF AddDelete, pumpVars, history, observed
    <3>2. d.kind = "delete" /\ d.t = t
      OBVIOUS
    <3> HIDE DEF d
    <3> QED
      BY <2>2, <3>1, <3>2 DEF OpQueued
  <2> QED
    BY <1>4, <2>1, <2>2 DEF CallNext, AddCall, AddRegister, AddEnqueue, AddAcked,
       AddNacked, AddDrop, RemoveCall, RemoveGiveUp, SaveCall, SaveGiveUp, shared,
       pumpVars
<1>5. CASE SweepNext
  BY <1>5 DEF SweepNext, SweepTick, SweepVisit, shared, pumpVars
<1>6. CASE ShutdownNext
  <2>1. CASE StateSend
    <3> DEFINE s == [kind |-> "state"]
    <3>1. /\ s \in PersistOp /\ queue' = Append(queue, s)
          /\ UNCHANGED <<ops, current, disk, apc, undeleted>>
      BY <2>1 DEF StateSend, pumpVars, PersistOp, StateOp, calls, history, observed
    <3>2. s.kind = "state"
      OBVIOUS
    <3> HIDE DEF s
    <3> QED
      BY <3>1, <3>2 DEF OpQueued
  <2> QED
    BY <1>6, <2>1 DEF ShutdownNext, ShutdownStart, FlushStart, FlushWait, FlushEnd,
       StateGiveUp, DropSender, PersisterEnd, FlushVisit, shared, pumpVars
<1> QED
  BY <1>1, <1>2, <1>3, <1>4, <1>5, <1>6 DEF Next

(***************************************************************************)
(* The parts of the invariant, step by step.                               *)
(***************************************************************************)
LEMMA EarlyIdle == EarlyInv => IdleInv
  BY DEF EarlyInv, IdleInv

LEMMA NewsKept ==
    ASSUME Accounting, TasksInv, NewsInv, IdleInv, Next
    PROVE  NewsInv'
<1> DEFINE News(t) ==
        /\ AlertPending({"added"}, t) => life[t] \in {"live", "removed", "gone"}
        /\ AlertPending({"removed"}, t) => life[t] \in {"removed", "gone"}
        /\ Orderly(batch, t) /\ Orderly(alerts, t)
        /\ Mentions(batch, {"removed"}, t) =>
             ~Mentions(alerts, {"added"}, t) /\ ~Mentions(alerts, {"removed"}, t)
        /\ Handled(t) => ~AlertPending({"added"}, t)
<1> SUFFICES ASSUME NEW t \in Torrents PROVE News(t)'
  BY DEF NewsInv
<1> USE DEF AlertPending, Handled
<1>1. /\ News(t) /\ (apc[t] = "idle" => life[t] = "none")
      /\ life \in [Torrents -> Lives]
  BY DEF NewsInv, IdleInv, Accounting, TypeOK, LtTypeOK
<1>2. CASE UNCHANGED <<alerts, batch>> /\ LifeGoesOn(t)
  BY <1>1, <1>2 DEF LifeGoesOn
<1>3. ASSUME NEW a \in Alert, alerts' = Append(alerts, a), UNCHANGED batch,
             a.t # t \/ a.kind \notin {"added", "removed"},
             life'[t] = life[t] \/ (life[t] = "adding" /\ life'[t] = "failed")
      PROVE  News(t)'
  <2>1. ~Is(a, {"added"}, t) /\ ~Is(a, {"removed"}, t)
    BY <1>3 DEF Is
  <2>2. /\ Mentions(Append(alerts, a), {"added"}, t) <=> Mentions(alerts, {"added"}, t)
        /\ Mentions(Append(alerts, a), {"removed"}, t)
             <=> Mentions(alerts, {"removed"}, t)
        /\ Orderly(Append(alerts, a), t)
    BY <1>1, <2>1, HeadFacts, MentionsAppend, OrderlyAppend
  <2> QED
    BY <1>1, <1>3, <2>2
<1>4. ASSUME NEW a \in Alert, alerts' = Append(alerts, a), UNCHANGED batch,
             a.t = t, a.kind = "added", life[t] = "adding", life'[t] = "live"
      PROVE  News(t)'
  <2>1. ~Mentions(alerts, {"removed"}, t) /\ ~Mentions(batch, {"removed"}, t)
    BY <1>1, <1>4
  <2>2. ~Is(a, {"removed"}, t)
    BY <1>4 DEF Is
  <2>3. /\ Mentions(Append(alerts, a), {"removed"}, t)
             <=> Mentions(alerts, {"removed"}, t)
        /\ Orderly(Append(alerts, a), t)
    BY <1>1, <2>1, <2>2, HeadFacts, MentionsAppend, OrderlyAppend
  <2> QED
    BY <1>1, <1>4, <2>1, <2>3
<1>5. ASSUME NEW a \in Alert, alerts' = Append(alerts, a), UNCHANGED batch,
             a.t = t, a.kind = "removed", life[t] = "live", life'[t] = "removed"
      PROVE  News(t)'
  <2>1. ~Mentions(alerts, {"removed"}, t) /\ ~Mentions(batch, {"removed"}, t)
    BY <1>1, <1>5
  <2>2. Is(a, {"removed"}, t) /\ ~Is(a, {"added"}, t)
    BY <1>5 DEF Is
  <2>3. /\ Mentions(Append(alerts, a), {"removed"}, t)
        /\ Orderly(Append(alerts, a), t)
    BY <1>1, <2>1, <2>2, HeadFacts, MentionsAppend, OrderlyAppend
  <2> QED
    BY <1>1, <1>5, <2>1, <2>3
<1>6. CASE AlertQueued
  <2>1. PICK a \in Alert :
          /\ alerts' = Append(alerts, a) /\ UNCHANGED batch
          /\ a.kind \in {"added", "addFailed"} => life[a.t] = "adding"
          /\ a.kind = "added" => life' = [life EXCEPT ![a.t] = "live"]
          /\ a.kind = "addFailed" => life' = [life EXCEPT ![a.t] = "failed"]
          /\ a.kind = "removed" =>
               life[a.t] = "live" /\ life' = [life EXCEPT ![a.t] = "removed"]
          /\ a.kind \notin {"added", "addFailed", "removed"} => UNCHANGED life
    BY <1>6 DEF AlertQueued
  <2>2. a.t # t => life'[t] = life[t]
    BY <1>1, <2>1
  <2> QED
    BY <1>1, <1>3, <1>4, <1>5, <2>1, <2>2
<1>7. CASE PumpPop /\ batch = <<>>
  BY <1>1, <1>7, MentionsEmpty, OrderlyEmpty DEF PumpPop
<1>8. CASE AlertHandled
  <2>1. /\ batch # <<>> /\ batch' = Tail(batch) /\ UNCHANGED <<alerts, life>>
    BY <1>8 DEF AlertHandled
  <2>2. /\ Mentions(batch, {"added"}, t) <=>
             Is(Head(batch), {"added"}, t) \/ Mentions(Tail(batch), {"added"}, t)
        /\ Mentions(batch, {"removed"}, t) <=>
             Is(Head(batch), {"removed"}, t) \/ Mentions(Tail(batch), {"removed"}, t)
        /\ Orderly(Tail(batch), t)
        /\ Is(Head(batch), {"removed"}, t) =>
             /\ ~Mentions(Tail(batch), {"added"}, t)
             /\ ~Mentions(Tail(batch), {"removed"}, t)
    BY <1>1, <2>1, HeadFacts, MentionsTail, OrderlyTail
  <2> QED
    BY <1>1, <2>1, <2>2
<1> QED
  BY <1>2, <1>6, <1>7, <1>8, AlertFlowStep DEF AlertFlow

\* The pump learns of a removal when it handles the alert, and only then.
LEMMA HandledStep ==
    ASSUME Accounting, TasksInv, NewsInv, IdleInv, Next, NEW t \in Torrents
    PROVE  /\ Handled(t) => Handled(t)' /\ ~(HandleRemoved /\ Head(batch).t = t)
           /\ HandleRemoved /\ Head(batch).t = t => Handled(t)'
           /\ Handled(t)' => Handled(t) \/ (HandleRemoved /\ Head(batch).t = t)
           /\ life[t] \in {"removed", "gone"} => life'[t] \in {"removed", "gone"}
<1> DEFINE P == 
           /\ Handled(t) => Handled(t)' /\ ~(HandleRemoved /\ Head(batch).t = t)
           /\ HandleRemoved /\ Head(batch).t = t => Handled(t)'
           /\ Handled(t)' => Handled(t) \/ (HandleRemoved /\ Head(batch).t = t)
           /\ life[t] \in {"removed", "gone"} => life'[t] \in {"removed", "gone"}
<1> USE DEF AlertPending, Handled
<1>1. /\ apc[t] = "idle" => life[t] = "none"
      /\ life \in [Torrents -> Lives] /\ Orderly(batch, t)
      /\ Mentions(batch, {"removed"}, t) =>
           life[t] \in {"removed", "gone"} /\ ~Mentions(alerts, {"removed"}, t)
      /\ Mentions(alerts, {"removed"}, t) => life[t] \in {"removed", "gone"}
  BY DEF NewsInv, IdleInv, Accounting, TypeOK, LtTypeOK
<1>2. ASSUME HandleRemoved
      PROVE  /\ batch # <<>> /\ batch' = Tail(batch) /\ Head(batch).kind = "removed"
             /\ UNCHANGED <<alerts, life>>
             /\ Head(batch).t = t => /\ Mentions(batch, {"removed"}, t)
                                     /\ ~Mentions(Tail(batch), {"removed"}, t)
             /\ Head(batch).t # t => (Mentions(batch, {"removed"}, t)
                                        <=> Mentions(Tail(batch), {"removed"}, t))
  <2>1. /\ batch # <<>> /\ batch' = Tail(batch) /\ Head(batch).kind = "removed"
        /\ UNCHANGED <<alerts, life>>
    BY <1>2 DEF HandleRemoved, Consume, ltVars
  <2>2. Is(Head(batch), {"removed"}, t) <=> Head(batch).t = t
    BY <2>1 DEF Is
  <2> QED
    BY <1>1, <2>1, <2>2, HeadFacts, MentionsTail, OrderlyTail
<1>3. CASE HandleRemoved
  BY <1>1, <1>2, <1>3
<1>4. CASE ~HandleRemoved
  <2>1. CASE UNCHANGED <<alerts, batch>> /\ LifeGoesOn(t)
    BY <1>1, <1>4, <2>1 DEF LifeGoesOn
  <2>2. CASE AlertQueued
    <3>1. PICK a \in Alert :
            /\ alerts' = Append(alerts, a) /\ UNCHANGED batch
            /\ a.kind \in {"added", "addFailed"} => life[a.t] = "adding"
            /\ a.kind = "added" => life' = [life EXCEPT ![a.t] = "live"]
            /\ a.kind = "addFailed" => life' = [life EXCEPT ![a.t] = "failed"]
            /\ a.kind = "removed" =>
                 life[a.t] = "live" /\ life' = [life EXCEPT ![a.t] = "removed"]
            /\ a.kind \notin {"added", "addFailed", "removed"} => UNCHANGED life
      BY <2>2 DEF AlertQueued
    <3>2. Mentions(alerts', {"removed"}, t)
            <=> Mentions(alerts, {"removed"}, t) \/ (a.t = t /\ a.kind = "removed")
      BY <3>1, HeadFacts, MentionsAppend DEF Is
    <3>3. CASE a.t # t
      BY <1>1, <1>4, <3>1, <3>2, <3>3
    <3>4. CASE a.t = t
      BY <1>1, <1>4, <3>1, <3>2, <3>4
    <3> QED
      BY <3>3, <3>4
  <2>3. CASE PumpPop /\ batch = <<>>
    BY <1>1, <1>4, <2>3, MentionsEmpty DEF PumpPop
  <2>4. CASE AlertHandled
    <3>1. /\ batch # <<>> /\ batch' = Tail(batch) /\ UNCHANGED <<alerts, life>>
          /\ Head(batch).kind # "removed"
      BY <1>4, <2>4 DEF AlertHandled
    <3>2. Mentions(batch, {"removed"}, t) <=> Mentions(Tail(batch), {"removed"}, t)
      BY <3>1, HeadFacts, MentionsTail DEF Is
    <3> QED
      BY <1>4, <3>1, <3>2
  <2> QED
    BY <2>1, <2>2, <2>3, <2>4, AlertFlowStep DEF AlertFlow
<1> QED
  BY <1>3, <1>4

LEMMA EarlyStep ==
    ASSUME Accounting, TasksInv, NewsInv, EarlyInv, Next, "earlyRace" \notin Env
    PROVE  EarlyInv'
<1> DEFINE Early(t) ==
        /\ apc[t] = "idle" => life[t] = "none"
        /\ t \in registry \/ apc[t] = "resolved"
             => life[t] \in {"live", "removed", "gone"}
        /\ t \in rmPosted \/ life[t] \in {"removed", "gone"}
             => apc[t] \notin {"idle", "posted", "resolved"}
<1> SUFFICES ASSUME NEW t \in Torrents PROVE Early(t)'
  BY DEF EarlyInv
<1>1. /\ Early(t) /\ life \in [Torrents -> Lives] /\ registry \subseteq Torrents
      /\ apc \in [Torrents -> AddStates] /\ rmPosted \subseteq Torrents
  BY DEF EarlyInv, Accounting, TypeOK, LtTypeOK, CallsTypeOK, SharedTypeOK
<1>2. CASE UNCHANGED <<apc, life, registry, rmPosted>>
  BY <1>1, <1>2
<1>3. CASE LibtorrentNext
  BY <1>1, <1>2, <1>3 DEF LibtorrentNext, LtAdd, LtRemove, LtExpire, LtChange,
     LtFinished, LtMoved, LtAnswerSave, calls, shared
<1>4. CASE PumpNext
  <2>1. CASE PumpPop
    <3>1. /\ apc'[t] = apc[t] \/ apc'[t] = "err"
             \/ (apc[t] = "posted" /\ apc'[t] = "resolved" /\ Announced("added", t))
          /\ UNCHANGED <<life, registry, rmPosted>>
      BY <1>1, <2>1 DEF PumpPop, shared
    <3>2. Announced("added", t) => life[t] \in {"live", "removed", "gone"}
      BY DEF Announced, NewsInv, AlertPending, Mentions
    <3> QED
      BY <1>1, <3>1, <3>2
  <2>2. CASE HandleAdded
    <3>1. /\ batch # <<>> /\ Head(batch).kind = "added"
          /\ registry' = registry \/ registry' = registry \cup {Head(batch).t}
          /\ UNCHANGED <<life, apc, rmPosted>>
      BY <2>2 DEF HandleAdded, Consume, upsert, ltVars, calls
    <3>2. Head(batch).t = t => AlertPending({"added"}, t)
      BY <3>1, HeadFacts, MentionsTail DEF Is, AlertPending
    <3> QED
      BY <1>1, <3>1, <3>2 DEF NewsInv
  <2>3. CASE HandleRemoved
    BY <1>1, <2>3 DEF HandleRemoved, unregister, ltVars
  <2> QED
    BY <1>2, <1>4, <2>1, <2>2, <2>3 DEF PumpNext, HandleAddFailed,
       HandleSaveTrigger, RequestSave, HandleSaved, HandleSaveFailed, PumpSend,
       RetryTick, RetryDone, PumpStop, PumpAbort, RetryVisit, calls, shared, ltVars
<1>5. CASE PersisterNext
  <2>1. CASE PersistWrite
    BY <1>1, <2>1 DEF PersistWrite, ltVars
  <2> QED
    BY <1>2, <1>5, <2>1 DEF PersisterNext, PersistRecv, PersistDelete, PersistState,
       calls, shared, ltVars
<1>6. CASE CallNext
  <2> SUFFICES ASSUME NEW u \in Torrents,
                      \/ AddCall(u) \/ AddRegister(u) \/ AddEnqueue(u)
                      \/ AddSend(u) \/ AddAcked(u) \/ AddDelete(u)
                      \/ AddNacked(u) \/ AddDrop(u) \/ RemoveCall(u)
                      \/ RemoveGiveUp(u) \/ SaveCall(u) \/ SaveGiveUp(u)
               PROVE  Early(t)'
    BY <1>6 DEF CallNext
  <2>1. CASE RemoveGiveUp(u) \/ SaveCall(u) \/ SaveGiveUp(u)
    BY <1>2, <2>1 DEF RemoveGiveUp, SaveCall, SaveGiveUp, shared, ltVars
  <2>2. CASE RemoveCall(u)
    BY <1>1, <2>2 DEF RemoveCall, Settled, AddRunning, shared
  <2>3. CASE AddCall(u)
    BY <1>1, <2>3 DEF AddCall, shared
  <2>4. CASE AddRegister(u)
    BY <1>1, <2>4 DEF AddRegister, upsert, ltVars
  <2>5. CASE AddSend(u) \/ AddAcked(u) \/ AddDelete(u)
    BY <1>1, <2>5 DEF AddSend, AddAcked, AddDelete, shared, ltVars
  <2>6. CASE AddDrop(u)
    BY <1>1, <2>6 DEF AddDrop, AddRunning, shared, ltVars
  <2>7. CASE AddEnqueue(u) \/ AddNacked(u)
    BY <1>1, <2>7 DEF AddEnqueue, AddNacked, Unwind, unregister
  <2> QED
    BY <2>1, <2>2, <2>3, <2>4, <2>5, <2>6, <2>7
<1>7. CASE SweepNext
  BY <1>2, <1>7 DEF SweepNext, SweepTick, SweepVisit, calls, shared, ltVars
<1>8. CASE ShutdownNext
  BY <1>2, <1>8 DEF ShutdownNext, ShutdownStart, FlushStart, FlushWait, FlushEnd,
     StateSend, StateGiveUp, DropSender, PersisterEnd, FlushVisit, calls, shared,
     ltVars
<1> QED
  BY <1>3, <1>4, <1>5, <1>6, <1>7, <1>8 DEF Next

\* A torrent becomes registered for good while it is in the session.
LEMMA InsideStep ==
    ASSUME Accounting, EarlyInv, Next, NEW t \in Torrents, Inside(t)'
    PROVE  \/ Inside(t) /\ (apc'[t] = "deleting" =>
                               apc[t] = "deleting" \/ t \notin registry)
           \/ apc[t] = "resolved" /\ AddRegister(t) /\ life[t] \notin {"removed", "gone"}
<1> DEFINE P == \/ Inside(t) /\ (apc'[t] = "deleting" =>
                               apc[t] = "deleting" \/ t \notin registry)
                \/ apc[t] = "resolved" /\ AddRegister(t)
                   /\ life[t] \notin {"removed", "gone"}
<1> USE DEF Inside
<1>1. /\ apc \in [Torrents -> AddStates]
      /\ apc[t] = "resolved" => life[t] \notin {"removed", "gone"}
  BY DEF Accounting, TypeOK, CallsTypeOK, EarlyInv
<1>2. CASE UNCHANGED apc
  BY <1>2
<1>3. CASE LibtorrentNext
  BY <1>2, <1>3 DEF LibtorrentNext, LtAdd, LtRemove, LtExpire, LtChange,
     LtFinished, LtMoved, LtAnswerSave, calls
<1>4. CASE PumpNext
  <2>1. CASE PumpPop
    BY <1>1, <2>1 DEF PumpPop
  <2> QED
    BY <1>2, <1>4, <2>1 DEF PumpNext, HandleAddFailed, HandleAdded, HandleRemoved,
       HandleSaveTrigger, RequestSave, HandleSaved, HandleSaveFailed, PumpSend,
       RetryTick, RetryDone, PumpStop, PumpAbort, RetryVisit, calls
<1>5. CASE PersisterNext
  BY <1>1, <1>2, <1>5 DEF PersisterNext, PersistRecv, PersistWrite, PersistDelete,
     PersistState, calls
<1>6. CASE CallNext
  <2> SUFFICES ASSUME NEW u \in Torrents,
                      \/ AddCall(u) \/ AddRegister(u) \/ AddEnqueue(u)
                      \/ AddSend(u) \/ AddAcked(u) \/ AddDelete(u)
                      \/ AddNacked(u) \/ AddDrop(u) \/ RemoveCall(u)
                      \/ RemoveGiveUp(u) \/ SaveCall(u) \/ SaveGiveUp(u)
               PROVE  P
    BY <1>6 DEF CallNext
  <2>1. CASE RemoveCall(u) \/ RemoveGiveUp(u) \/ SaveCall(u) \/ SaveGiveUp(u)
    BY <1>2, <2>1 DEF RemoveCall, RemoveGiveUp, SaveCall, SaveGiveUp
  <2>2. CASE AddRegister(u)
    BY <1>1, <2>2 DEF AddRegister
  <2>3. CASE AddCall(u) \/ AddSend(u) \/ AddAcked(u) \/ AddDelete(u) \/ AddDrop(u)
    BY <1>1, <2>3 DEF AddCall, AddSend, AddAcked, AddDelete, AddDrop
  <2>4. CASE AddEnqueue(u) \/ AddNacked(u)
    BY <1>1, <2>4 DEF AddEnqueue, AddNacked, Unwind
  <2> QED
    BY <2>1, <2>2, <2>3, <2>4
<1>7. CASE SweepNext
  BY <1>2, <1>7 DEF SweepNext, SweepTick, SweepVisit, calls
<1>8. CASE ShutdownNext
  BY <1>2, <1>8 DEF ShutdownNext, ShutdownStart, FlushStart, FlushWait, FlushEnd,
     StateSend, StateGiveUp, DropSender, PersisterEnd, FlushVisit, calls
<1> QED
  BY <1>3, <1>4, <1>5, <1>6, <1>7, <1>8 DEF Next

LEMMA RegistryStep ==
    ASSUME Accounting, Next, NEW t \in Torrents, Inside(t)'
    PROVE  \/ HandleRemoved /\ Head(batch).t = t
           \/ HandleAdded /\ Head(batch).t = t /\ AlertPending({"added"}, t)
           \/ AddRegister(t) /\ t \in registry'
           \/ t \in registry' <=> t \in registry
<1> DEFINE P == 
           \/ HandleRemoved /\ Head(batch).t = t
           \/ HandleAdded /\ Head(batch).t = t /\ AlertPending({"added"}, t)
           \/ AddRegister(t) /\ t \in registry'
           \/ t \in registry' <=> t \in registry
<1>1. apc \in [Torrents -> AddStates]
  BY DEF Accounting, TypeOK, CallsTypeOK
<1>2. CASE UNCHANGED registry
  BY <1>2
<1>3. CASE LibtorrentNext
  BY <1>2, <1>3 DEF LibtorrentNext, LtAdd, LtRemove, LtExpire, LtChange,
     LtFinished, LtMoved, LtAnswerSave, shared
<1>4. CASE PumpNext
  <2>1. CASE HandleAdded
    <3>1. /\ batch # <<>> /\ Head(batch).kind = "added"
          /\ registry' = registry \/ registry' = registry \cup {Head(batch).t}
      BY <2>1 DEF HandleAdded, Consume, upsert
    <3>2. Head(batch).t = t => AlertPending({"added"}, t)
      BY <3>1, HeadFacts, MentionsTail DEF Is, AlertPending
    <3> QED
      BY <2>1, <3>1, <3>2
  <2>2. CASE HandleRemoved
    BY <2>2 DEF HandleRemoved, unregister
  <2> QED
    BY <1>2, <1>4, <2>1, <2>2 DEF PumpNext, PumpPop, HandleAddFailed,
       HandleSaveTrigger, RequestSave, HandleSaved, HandleSaveFailed, PumpSend,
       RetryTick, RetryDone, PumpStop, PumpAbort, RetryVisit, shared
<1>5. CASE PersisterNext
  BY <1>2, <1>5 DEF PersisterNext, PersistRecv, PersistWrite, PersistDelete,
     PersistState, shared
<1>6. CASE CallNext
  <2> SUFFICES ASSUME NEW u \in Torrents,
                      \/ AddCall(u) \/ AddRegister(u) \/ AddEnqueue(u)
                      \/ AddSend(u) \/ AddAcked(u) \/ AddDelete(u)
                      \/ AddNacked(u) \/ AddDrop(u) \/ RemoveCall(u)
                      \/ RemoveGiveUp(u) \/ SaveCall(u) \/ SaveGiveUp(u)
               PROVE  P
    BY <1>6 DEF CallNext
  <2>1. CASE AddRegister(u)
    BY <1>1, <2>1 DEF AddRegister, upsert, Inside
  <2>2. CASE AddEnqueue(u) \/ AddNacked(u)
    BY <1>1, <2>2 DEF AddEnqueue, AddNacked, Unwind, unregister, Inside
  <2> QED
    BY <1>2, <2>1, <2>2 DEF AddCall, AddSend, AddAcked, AddDelete, AddDrop,
       RemoveCall, RemoveGiveUp, SaveCall, SaveGiveUp, shared
<1>7. CASE SweepNext
  BY <1>2, <1>7 DEF SweepNext, SweepTick, SweepVisit, shared
<1>8. CASE ShutdownNext
  BY <1>2, <1>8 DEF ShutdownNext, ShutdownStart, FlushStart, FlushWait, FlushEnd,
     StateSend, StateGiveUp, DropSender, PersisterEnd, FlushVisit, shared
<1> QED
  BY <1>3, <1>4, <1>5, <1>6, <1>7, <1>8 DEF Next

LEMMA SessionStep ==
    ASSUME Accounting, TasksInv, RemovalInv, Next
    PROVE  SessionInv'
<1> SUFFICES ASSUME NEW t \in Torrents, Inside(t)'
             PROVE  /\ (~Handled(t) <=> t \in registry)'
                    /\ (apc[t] = "deleting" => Handled(t))'
  BY DEF SessionInv
<1> USE DEF RemovalInv
<1>1. /\ Handled(t) => Handled(t)' /\ ~(HandleRemoved /\ Head(batch).t = t)
      /\ HandleRemoved /\ Head(batch).t = t => Handled(t)'
      /\ Handled(t)' => Handled(t) \/ (HandleRemoved /\ Head(batch).t = t)
  BY HandledStep, EarlyIdle
<1>2. /\ Inside(t) => /\ ~Handled(t) <=> t \in registry
                      /\ apc[t] = "deleting" => Handled(t)
      /\ Handled(t) => ~AlertPending({"added"}, t)
  BY DEF SessionInv, NewsInv
<1>3. CASE apc[t] = "resolved" /\ AddRegister(t) /\ life[t] \notin {"removed", "gone"}
  <2>1. t \in registry' /\ ~Handled(t) /\ apc'[t] # "deleting" /\ pc' = pc
        /\ UNCHANGED batch
    BY <1>3 DEF AddRegister, upsert, Handled, Inside, Accounting, TypeOK,
       CallsTypeOK, pumpVars
  <2>2. ~HandleRemoved
    <3>1. ASSUME HandleRemoved PROVE FALSE
      <4>1. UNCHANGED apc
        BY <3>1 DEF HandleRemoved
      <4> QED
        BY <1>3, <2>1, <4>1 DEF AddRegister, Inside
    <3> QED
      BY <3>1
  <2> QED
    BY <1>1, <2>1, <2>2
<1>4. CASE Inside(t) /\ (apc'[t] = "deleting" =>
                               apc[t] = "deleting" \/ t \notin registry)
  <2>1. CASE HandleRemoved /\ Head(batch).t = t
    <3>1. t \notin registry'
      BY <2>1 DEF HandleRemoved, unregister
    <3> QED
      BY <1>1, <2>1, <3>1
  <2>2. CASE HandleAdded /\ Head(batch).t = t /\ AlertPending({"added"}, t)
    <3>1. ~HandleRemoved
      BY <2>2 DEF HandleAdded, HandleRemoved, Consume
    <3>2. t \in registry'
      BY <1>2, <1>4, <2>2 DEF HandleAdded, upsert
    <3>3. UNCHANGED apc
      BY <2>2 DEF HandleAdded, calls
    <3> QED
      BY <1>1, <1>2, <1>4, <2>2, <3>1, <3>2, <3>3
  <2>3. CASE AddRegister(t) /\ t \in registry'
    BY <1>4, <2>3 DEF AddRegister, Inside
  <2>4. CASE ~(HandleRemoved /\ Head(batch).t = t) /\ (t \in registry' <=> t \in registry)
    BY <1>1, <1>2, <1>4, <2>4
  <2> QED
    BY <2>1, <2>2, <2>3, <2>4, RegistryStep
<1> QED
  BY <1>3, <1>4, InsideStep

LEMMA DeletedStep ==
    ASSUME Accounting, TasksInv, RemovalInv, Next
    PROVE  DeletedInv'
<1> SUFFICES ASSUME NEW t \in Torrents, OpPending({"delete"}, t)'
             PROVE  life'[t] \in {"removed", "gone"}
  BY DEF DeletedInv
<1> USE DEF RemovalInv
<1>1. \/ OpPending({"delete"}, t) \/ AlertPending({"removed"}, t)
      \/ apc[t] = "deleting"
  BY DeletesStep DEF OpPending
<1>2. life[t] \in {"removed", "gone"}
  BY <1>1 DEF DeletedInv, NewsInv, SessionInv, Handled, Inside
<1> QED
  BY <1>2, HandledStep, EarlyIdle

\* A delete that is still to come, and what the last write left.
Gone(t) == Covered(t) /\ (OpPending({"delete"}, t) \/ disk[t] = NoFile)

\* The operation the persister runs is its only one.
LEMMA OnlyCurrent ==
    ASSUME Accounting, TasksInv, current # <<>>, NEW kinds, NEW t
    PROVE  Mentions(current, kinds, t) <=> Is(current[1], kinds, t)
<1>0. Len(current) \in Nat /\ Len(current) >= 1
  BY HeadFacts
<1>1. Len(current) = 1
  <2>1. Len(current) <= 1
    BY DEF TasksInv
  <2>2. \A n \in Nat : n >= 1 /\ n <= 1 => n = 1
    OBVIOUS
  <2> QED
    BY <1>0, <2>1, <2>2
<1>2. \A i \in 1 .. Len(current) : i = 1
  BY <1>1
<1>3. 1 \in 1 .. Len(current)
  BY <1>1
<1> QED
  BY <1>2, <1>3 DEF Mentions, Is

LEMMA GoneSent ==
    ASSUME Accounting, TasksInv, NEW t \in Torrents, Gone(t), Settles(ops, t),
           ops # <<>>, queue' = Append(queue, Head(ops)), ops' = Tail(ops),
           UNCHANGED <<current, disk>>
    PROVE  Settles(ops', t) /\ Gone(t)'
<1> DEFINE h == Head(ops)
<1>1. /\ Settles(Tail(ops), t)
      /\ IsWrite(h, t) => Mentions(Tail(ops), {"delete"}, t)
      /\ h \in PersistOp
  BY HeadFacts, SettlesTail
<1>2. \A kinds : /\ Mentions(ops, kinds, t) <=>
                      Is(h, kinds, t) \/ Mentions(Tail(ops), kinds, t)
                 /\ Mentions(Append(queue, h), kinds, t) <=>
                      Is(h, kinds, t) \/ Mentions(queue, kinds, t)
  BY MovedOn
<1>3. IsDelete(h, t) \/ (Settles(queue, t) /\ ~IsWrite(h, t))
        => Settles(Append(queue, h), t)
  BY <1>1, HeadFacts, SettlesAppend
<1> HIDE DEF h
<1>4. OpPending({"delete"}, t) => OpPending({"delete"}, t)'
  BY <1>2 DEF OpPending, h
<1>5. Covered(t)'
  <2>1. CASE IsDelete(h, t)
    BY <1>2, <1>3, <2>1 DEF Covered, IsDelete, h
  <2>2. CASE ~IsDelete(h, t) /\ Mentions(ops, {"delete"}, t)
    BY <1>2, <2>2 DEF Covered, IsDelete, h
  <2>3. CASE ~Mentions(ops, {"delete"}, t)
    <3>1. ~IsWrite(h, t)
      BY <1>1, <1>2, <2>3
    <3> QED
      BY <1>2, <1>3, <2>3, <3>1 DEF Covered, Gone, h
  <2> QED
    BY <2>1, <2>2, <2>3
<1> QED
  BY <1>1, <1>4, <1>5 DEF Gone

LEMMA GoneReceived ==
    ASSUME Accounting, TasksInv, NEW t \in Torrents, Gone(t), PersistRecv
    PROVE  Gone(t)'
<1> DEFINE h == Head(queue)
<1>1. /\ queue # <<>> /\ current = <<>> /\ current' = <<h>> /\ queue' = Tail(queue)
      /\ UNCHANGED <<ops, disk>>
  BY DEF PersistRecv, pumpVars
<1>2. Settles(queue, t) => /\ Settles(Tail(queue), t)
                           /\ IsWrite(h, t) => Mentions(Tail(queue), {"delete"}, t)
  BY <1>1, HeadFacts, SettlesTail
<1>3. \A kinds : Mentions(queue, kinds, t) <=>
        Mentions(<<h>>, kinds, t) \/ Mentions(Tail(queue), kinds, t)
  BY <1>1, MovedOn
<1>4. \A kinds : Mentions(<<h>>, kinds, t) <=> Is(h, kinds, t)
  <2> TAKE kinds
  <2>1. Len(<<h>>) = 1 /\ <<h>>[1] = h
    OBVIOUS
  <2>2. \A i \in 1 .. Len(<<h>>) : i = 1
    BY <2>1
  <2>3. 1 \in 1 .. Len(<<h>>)
    BY <2>1
  <2> QED
    BY <2>1, <2>2, <2>3 DEF Mentions, Is
<1>5. ~(IsWrite(h, t) /\ IsDelete(h, t))
  BY DEF IsWrite, IsDelete, Is
<1> HIDE DEF h
<1>6. OpPending({"delete"}, t) => OpPending({"delete"}, t)'
  BY <1>1, <1>3, MentionsEmpty DEF OpPending
<1>7. Covered(t)'
  BY <1>1, <1>2, <1>3, <1>4, <1>5 DEF Covered, Gone, IsWrite, IsDelete
<1> QED
  BY <1>1, <1>6, <1>7 DEF Gone

LEMMA GonePersisted ==
    ASSUME Accounting, TasksInv, VersionsInv, NEW t \in Torrents, Gone(t),
           PersistWrite \/ PersistDelete \/ PersistState, t \notin undeleted'
    PROVE  Gone(t)'
<1> DEFINE o == current[1]
<1>1. /\ current # <<>> /\ current' = <<>> /\ UNCHANGED <<ops, queue>>
      /\ disk \in [Torrents -> Int]
  BY DEF PersistWrite, PersistDelete, PersistState, pumpVars, shared, Accounting,
     TypeOK, SharedTypeOK
<1>2. \A kinds : Mentions(current, kinds, t) <=> Is(o, kinds, t)
  BY <1>1, OnlyCurrent
<1>3. \A kinds : ~Mentions(current', kinds, t)
  BY <1>1, MentionsEmpty
<1>4. Covered(t)'
  BY <1>1, <1>3 DEF Covered, Gone
<1>5. o.kind # "delete" \/ o.t # t => (OpPending({"delete"}, t) => OpPending({"delete"}, t)')
  BY <1>1, <1>2 DEF OpPending, Is
<1>6. CASE PersistWrite
  <2>1. /\ o.kind = "write" /\ o.t \in Torrents
        /\ disk' = disk \/ disk' = [disk EXCEPT ![o.t] = o.v]
    BY <1>1, <1>6, CurrentFacts DEF PersistWrite, write_atomic
  <2>2. CASE o.t = t
    <3>1. Mentions(current, {"write"}, t)
      BY <1>2, <2>1, <2>2 DEF Is
    <3> QED
      BY <1>1, <1>4, <3>1 DEF Gone, Covered, OpPending
  <2>3. CASE o.t # t
    <3>1. disk'[t] = disk[t]
      BY <1>1, <2>1, <2>3
    <3> HIDE DEF o
    <3> QED
      BY <1>4, <1>5, <2>3, <3>1 DEF Gone
  <2> QED
    BY <2>2, <2>3
<1>7. CASE PersistDelete
  <2>1. /\ o.kind = "delete" /\ o.t \in Torrents
        /\ disk' = [disk EXCEPT ![o.t] = NoFile] \/ (disk' = disk /\ o.t \in undeleted')
    BY <1>1, <1>7, CurrentFacts DEF PersistDelete
  <2> HIDE DEF o
  <2>2. o.t # t => disk'[t] = disk[t]
    BY <1>1, <2>1
  <2>3. o.t = t => disk'[t] = NoFile
    BY <1>1, <2>1
  <2> QED
    BY <1>4, <1>5, <2>2, <2>3 DEF Gone
<1>8. CASE PersistState
  <2>1. o.kind # "delete" /\ UNCHANGED disk
    BY <1>8 DEF PersistState, shared
  <2> HIDE DEF o
  <2> QED
    BY <1>4, <1>5, <2>1 DEF Gone
<1> QED
  BY <1>6, <1>7, <1>8

\* A call reports success on a torrent the pump has removed only when it has
\* queued another delete.
LEMMA DoneStep ==
    ASSUME Accounting, Next, NEW t \in Torrents, t \notin registry, Inside(t),
           apc'[t] \in {"ok", "restored"}
    PROVE  \/ apc[t] \in {"ok", "restored"} \/ t \in undeleted' \/ AddDelete(t)
<1> DEFINE P == apc[t] \in {"ok", "restored"} \/ t \in undeleted' \/ AddDelete(t)
<1>1. apc \in [Torrents -> AddStates]
  BY DEF Accounting, TypeOK, CallsTypeOK
<1>2. CASE UNCHANGED apc
  BY <1>2
<1>3. CASE LibtorrentNext
  BY <1>2, <1>3 DEF LibtorrentNext, LtAdd, LtRemove, LtExpire, LtChange,
     LtFinished, LtMoved, LtAnswerSave, calls
<1>4. CASE PumpNext
  <2>1. CASE PumpPop
    BY <1>1, <2>1 DEF PumpPop
  <2> QED
    BY <1>2, <1>4, <2>1 DEF PumpNext, HandleAddFailed, HandleAdded, HandleRemoved,
       HandleSaveTrigger, RequestSave, HandleSaved, HandleSaveFailed, PumpSend,
       RetryTick, RetryDone, PumpStop, PumpAbort, RetryVisit, calls
<1>5. CASE PersisterNext
  BY <1>1, <1>2, <1>5 DEF PersisterNext, PersistRecv, PersistWrite, PersistDelete,
     PersistState, calls
<1>6. CASE CallNext
  <2> SUFFICES ASSUME NEW u \in Torrents,
                      \/ AddCall(u) \/ AddRegister(u) \/ AddEnqueue(u)
                      \/ AddSend(u) \/ AddAcked(u) \/ AddDelete(u)
                      \/ AddNacked(u) \/ AddDrop(u) \/ RemoveCall(u)
                      \/ RemoveGiveUp(u) \/ SaveCall(u) \/ SaveGiveUp(u)
               PROVE  P
    BY <1>6 DEF CallNext
  <2>1. CASE AddDelete(u)
    <3>1. CASE u = t
      BY <2>1, <3>1
    <3>2. CASE u # t
      BY <1>1, <2>1, <3>2 DEF AddDelete
    <3> QED
      BY <3>1, <3>2
  <2>2. CASE AddCall(u) \/ AddSend(u) \/ AddAcked(u) \/ AddRegister(u) \/ AddDrop(u)
    BY <1>1, <2>2 DEF AddCall, AddSend, AddAcked, AddRegister, AddDrop
  <2>3. CASE AddEnqueue(u) \/ AddNacked(u)
    BY <1>1, <2>3 DEF AddEnqueue, AddNacked, Unwind
  <2> QED
    BY <1>2, <2>1, <2>2, <2>3 DEF RemoveCall, RemoveGiveUp, SaveCall, SaveGiveUp
<1>7. CASE SweepNext
  BY <1>2, <1>7 DEF SweepNext, SweepTick, SweepVisit, calls
<1>8. CASE ShutdownNext
  BY <1>2, <1>8 DEF ShutdownNext, ShutdownStart, FlushStart, FlushWait, FlushEnd,
     StateSend, StateGiveUp, DropSender, PersisterEnd, FlushVisit, calls
<1> QED
  BY <1>3, <1>4, <1>5, <1>6, <1>7, <1>8 DEF Next

LEMMA UndeletedGrows ==
    ASSUME Next PROVE undeleted \subseteq undeleted'
<1>1. CASE LibtorrentNext
  BY <1>1 DEF LibtorrentNext, LtAdd, LtRemove, LtExpire, LtChange, LtFinished,
     LtMoved, LtAnswerSave, history, observed
<1>2. CASE PumpNext
  BY <1>2 DEF PumpNext, PumpPop, HandleAddFailed, HandleAdded, HandleRemoved,
     HandleSaveTrigger, RequestSave, HandleSaved, HandleSaveFailed, PumpSend,
     RetryTick, RetryDone, PumpStop, PumpAbort, RetryVisit, history, observed
<1>3. CASE PersisterNext
  BY <1>3 DEF PersisterNext, PersistRecv, PersistWrite, PersistDelete,
     PersistState, history, observed
<1>4. CASE CallNext
  BY <1>4 DEF CallNext, AddCall, AddRegister, AddEnqueue, AddSend, AddAcked,
     AddDelete, AddNacked, AddDrop, RemoveCall, RemoveGiveUp, SaveCall, SaveGiveUp,
     history, observed
<1>5. CASE SweepNext
  BY <1>5 DEF SweepNext, SweepTick, SweepVisit, history, observed
<1>6. CASE ShutdownNext
  BY <1>6 DEF ShutdownNext, ShutdownStart, FlushStart, FlushWait, FlushEnd,
     StateSend, StateGiveUp, DropSender, PersisterEnd, FlushVisit, history, observed
<1> QED
  BY <1>1, <1>2, <1>3, <1>4, <1>5, <1>6 DEF Next

LEMMA LastWordStep ==
    ASSUME Accounting, TasksInv, VersionsInv, RemovalInv, Next
    PROVE  LastWordInv'
<1> SUFFICES ASSUME NEW t \in Torrents, Inside(t)', Handled(t)', t \notin undeleted'
             PROVE  /\ Settles(ops', t)
                    /\ apc'[t] \in {"ok", "restored"} => Gone(t)'
  BY DEF LastWordInv, Gone
<1> USE DEF RemovalInv
<1>1. /\ Handled(t) => Handled(t)' /\ ~(HandleRemoved /\ Head(batch).t = t)
      /\ Handled(t)' => Handled(t) \/ (HandleRemoved /\ Head(batch).t = t)
  BY HandledStep, EarlyIdle
<1>2. Inside(t) => (~Handled(t) <=> t \in registry)
  BY DEF SessionInv
<1>3. CASE HandleRemoved /\ Head(batch).t = t
  <2> DEFINE d == [kind |-> "delete", t |-> t]
  <2>1. Inside(t) /\ t \in registry
    BY <1>1, <1>2, <1>3 DEF HandleRemoved, Inside
  <2>2. ops' = Append(ops, d)
    BY <1>3, <2>1 DEF HandleRemoved, WithDelete
  <2>3. d \in PersistOp /\ IsDelete(d, t)
    BY Entries DEF IsDelete, Is
  <2> HIDE DEF d
  <2>4. Settles(ops', t) /\ Mentions(ops', {"delete"}, t)
    BY <2>2, <2>3, HeadFacts, SettlesAppend, MentionsAppend DEF IsDelete
  <2> QED
    BY <2>4 DEF Gone, Covered, OpPending
<1>4. CASE ~(HandleRemoved /\ Head(batch).t = t)
  <2>1. Handled(t) /\ Inside(t) /\ t \notin registry /\ t \notin undeleted
    BY <1>1, <1>2, <1>4, InsideStep, UndeletedGrows DEF Handled
  <2>2. /\ Settles(ops, t)
        /\ apc[t] \in {"ok", "restored"} => Gone(t)
    BY <2>1 DEF LastWordInv, Gone
  <2>3. apc'[t] \in {"ok", "restored"} => apc[t] \in {"ok", "restored"} \/ AddDelete(t)
    BY <2>1, DoneStep
  <2>4. CASE OpCollected
    <3>1. PICK o \in PersistOp :
            /\ ops' = Append(ops, o) /\ UNCHANGED <<queue, current, disk, apc>>
            /\ o.kind = "write" => o.t \in registry
      BY <2>4 DEF OpCollected
    <3>2. ~IsWrite(o, t)
      BY <2>1, <3>1 DEF IsWrite, Is
    <3>3. Settles(ops', t)
      BY <2>2, <3>1, <3>2, HeadFacts, SettlesAppend
    <3>4. Mentions(ops, {"delete"}, t) => Mentions(ops', {"delete"}, t)
      BY <3>1, MovedOn
    <3> QED
      BY <2>2, <3>1, <3>3, <3>4 DEF Gone, Covered, OpPending
  <2>5. CASE OpQueued
    <3>1. PICK o \in PersistOp :
            /\ queue' = Append(queue, o) /\ UNCHANGED <<ops, current, disk>>
            /\ o.kind = "write" => AddSend(o.t)
            /\ o.kind = "delete" => AddDelete(o.t)
            /\ o.kind = "state" => UNCHANGED apc
      BY <2>5 DEF OpQueued
    <3>2. Mentions(queue, {"delete"}, t) => Mentions(queue', {"delete"}, t)
      BY <3>1, MovedOn
    <3>3. CASE IsDelete(o, t)
      <4>1. Settles(queue', t) /\ Mentions(queue', {"delete"}, t)
        BY <3>1, <3>3, HeadFacts, SettlesAppend, MovedOn DEF IsDelete
      <4> QED
        BY <2>2, <3>1, <4>1 DEF Gone, Covered, OpPending
    <3>4. CASE IsWrite(o, t)
      <4>1. AddSend(t)
        BY <3>1, <3>4 DEF IsWrite, Is
      <4>2. apc'[t] = "acking"
        BY <4>1 DEF AddSend, Accounting, TypeOK, CallsTypeOK
      <4> QED
        BY <2>2, <3>1, <4>2
    <3>5. CASE ~IsDelete(o, t) /\ ~IsWrite(o, t)
      <4>1. Settles(queue, t) => Settles(queue', t)
        BY <3>1, <3>5, HeadFacts, SettlesAppend
      <4>2. o.kind \in {"write", "delete", "state"}
        BY <3>1 DEF PersistOp, WriteOp, DeleteOp, StateOp
      <4>3. o.kind \in {"write", "delete"} => o.t # t /\ o.t \in Torrents
        BY <3>1, <3>5 DEF IsDelete, IsWrite, Is, PersistOp, WriteOp, DeleteOp, StateOp
      <4>4. apc'[t] = apc[t]
        <5>1. CASE o.kind = "state"
          BY <3>1, <5>1
        <5>2. CASE o.kind = "write"
          BY <3>1, <4>3, <5>2 DEF AddSend, Accounting, TypeOK, CallsTypeOK
        <5>3. CASE o.kind = "delete"
          BY <3>1, <4>3, <5>3 DEF AddDelete, Accounting, TypeOK, CallsTypeOK
        <5> QED
          BY <4>2, <5>1, <5>2, <5>3
      <4> QED
        BY <2>2, <3>1, <3>2, <4>1, <4>4 DEF Gone, Covered, OpPending
    <3> QED
      BY <3>3, <3>4, <3>5
  <2>6. AddDelete(t) => OpQueued
    <3> DEFINE d == [kind |-> "delete", t |-> t]
    <3>1. d \in PersistOp /\ d.kind = "delete" /\ d.t = t
      BY Entries
    <3>2. AddDelete(t) => /\ queue' = Append(queue, d)
                          /\ UNCHANGED <<ops, current, disk, undeleted>>
      BY DEF AddDelete, pumpVars, history, observed
    <3> HIDE DEF d
    <3> QED
      BY <3>1, <3>2 DEF OpQueued
  <2>7. CASE ~OpQueued /\ UNCHANGED <<ops, queue, current, disk>>
    BY <2>2, <2>3, <2>6, <2>7 DEF Gone, Covered, OpPending
  <2>8. CASE ~OpQueued /\ PumpSend /\ ops # <<>> /\ queue' = Append(queue, Head(ops))
               /\ ops' = Tail(ops)
    <3>1. UNCHANGED <<current, disk>> /\ Settles(Tail(ops), t)
      BY <2>2, <2>8, HeadFacts, SettlesTail DEF PumpSend
    <3> QED
      BY <2>2, <2>3, <2>6, <2>8, <3>1, GoneSent
  <2>9. CASE ~OpQueued /\ PumpAbort
    <3>1. ops' = <<>> /\ UNCHANGED <<queue, current, disk>>
          /\ ~Mentions(ops, {"delete"}, t)
      BY <1>4, <2>9 DEF PumpAbort, shared, Mentions
    <3> QED
      BY <2>2, <2>3, <2>6, <2>9, <3>1, SettlesEmpty DEF Gone, Covered, OpPending
  <2>10. CASE ~OpQueued /\ PersistRecv
    <3>1. UNCHANGED ops
      BY <2>10 DEF PersistRecv, pumpVars
    <3> QED
      BY <2>2, <2>3, <2>6, <2>10, <3>1, GoneReceived
  <2>11. CASE ~OpQueued /\ (PersistWrite \/ PersistDelete \/ PersistState)
    <3>1. UNCHANGED ops
      BY <2>11 DEF PersistWrite, PersistDelete, PersistState, pumpVars
    <3> QED
      BY <2>2, <2>3, <2>6, <2>11, <3>1, GonePersisted
  <2> QED
    BY <2>4, <2>5, <2>7, <2>8, <2>9, <2>10, <2>11, OpsFlowStep DEF OpsFlow
<1> QED
  BY <1>3, <1>4

LEMMA RemovalInit == Init => RemovalInv
<1> SUFFICES ASSUME Init PROVE RemovalInv
  OBVIOUS
<1> USE MentionsEmpty, OrderlyEmpty, SettlesEmpty DEF AlertPending, OpPending
<1>1. NewsInv
  BY DEF Init, NewsInv, Handled
<1>2. EarlyInv /\ SessionInv
  BY DEF Init, EarlyInv, SessionInv, Handled, Inside
<1>3. LastWordInv /\ DeletedInv
  BY DEF Init, LastWordInv, DeletedInv, Handled
<1> QED
  BY <1>1, <1>2, <1>3 DEF RemovalInv

\* The registry follows the session, and a delete comes last: the inductive
\* invariant of removals, as long as nobody acts on a torrent before its add
\* call has registered it.
THEOREM RemovalInvariant ==
    ASSUME "earlyRace" \notin Env
    PROVE  Spec => [](Accounting /\ AskedFirst /\ RemovalInv)
<1>1. Accounting /\ AskedFirst /\ RemovalInv /\ [Next]_vars => RemovalInv'
  <2> SUFFICES ASSUME Accounting, AskedFirst, RemovalInv, [Next]_vars
               PROVE  RemovalInv'
    OBVIOUS
  <2>1. CASE Next
    BY <2>1, NewsKept, EarlyIdle, EarlyStep, SessionStep, LastWordStep, DeletedStep
       DEF RemovalInv, AskedFirst
  <2>2. CASE UNCHANGED vars
    <3>1. UNCHANGED <<life, rmPosted, alerts, batch, ops, queue, current, apc,
                      registry, disk, undeleted>>
      BY <2>2 DEF vars, ltVars, shared, pumpVars, calls, history, observed
    <3>2. NewsInv' /\ EarlyInv' /\ SessionInv' /\ DeletedInv'
      BY <3>1 DEF RemovalInv, NewsInv, EarlyInv, SessionInv, DeletedInv, Handled,
         Inside, AlertPending, OpPending
    <3>3. LastWordInv'
      BY <3>1 DEF RemovalInv, LastWordInv, Covered, Handled, Inside, AlertPending,
         OpPending
    <3> QED
      BY <3>2, <3>3 DEF RemovalInv
  <2> QED
    BY <2>1, <2>2
<1> QED
  BY <1>1, RemovalInit, AskedFirstInvariant, PTL DEF Spec

\* A removed torrent whose add had completed stays removed: whatever saves,
\* retries and queued writes were under way when it was removed, once nothing
\* is under way any more it is in neither the registry nor the state
\* directory, unless its delete failed or was lost with the pump.
THEOREM RemovedTorrentsStayRemoved ==
    ASSUME "earlyRace" \notin Env
    PROVE  Spec => []RemovedStaysRemoved
<1>1. RemovalInv => RemovedStaysRemoved
  <2> SUFFICES ASSUME RemovalInv, NEW t \in Torrents,
                      apc[t] \in {"ok", "restored"},
                      life[t] \in {"removed", "gone"}, ~Busy(t)
               PROVE  t \notin registry /\ (disk[t] = NoFile \/ t \in undeleted)
    BY DEF RemovedStaysRemoved
  <2>1. ~AlertPending({"removed"}, t) /\ ~OpPending({"delete"}, t)
    BY DEF Busy, AlertPending, Mentions, AlertKinds
  <2>2. Handled(t) /\ Inside(t)
    BY <2>1 DEF Handled, Inside
  <2> QED
    BY <2>1, <2>2 DEF RemovalInv, SessionInv, LastWordInv
<1> QED
  BY <1>1, RemovalInvariant, PTL

(***************************************************************************)
(* Third part: changes reach the disk.                                     *)
(***************************************************************************)
\* There are entries of the kinds mentioned of t in s, and the last of them has
\* version n or later: every older one is followed by one that has.
Ends(s, kinds, t, n) ==
    /\ Mentions(s, kinds, t)
    /\ \A i \in 1 .. Len(s) :
         Is(s[i], kinds, t) /\ ~(s[i].v >= n) =>
            \E j \in 1 .. Len(s) : i < j /\ Is(s[j], kinds, t) /\ s[j].v >= n

\* That entry decides, or if there is none what is under way behind it.
Then(s, kinds, t, n, behind) ==
    Ends(s, kinds, t, n) \/ (~Mentions(s, kinds, t) /\ behind)

\* The file has version n or later.  When it is not, it is marked dirty, which
\* will not do where a clean one is asked for.
OnDisk(t, n, clean) ==
    IF clean THEN disk[t] >= n /\ t \notin dirty ELSE disk[t] >= n \/ t \in dirty

\* What the file of t has at the end, if no write fails and nothing new is
\* saved, is version n or later: the last record under way decides.
Reaches(t, n, clean) ==
    Then(alerts, {"saved"}, t, n,
      Then(batch, {"saved"}, t, n,
        Then(ops, {"write"}, t, n,
          Then(queue, {"write"}, t, n,
            Then(current, {"write"}, t, n, OnDisk(t, n, clean))))))

\* A save that is answered with the record of a live torrent in any case.
AlwaysPosted(t) == \E p \in posted : p.t = t /\ p.flag = "always"

Covers(t, n, clean) == AlwaysPosted(t) \/ Reaches(t, n, clean)

\* Without races nothing happens to a torrent before its add has returned.
FreshInv ==
    \A t \in Torrents :
        apc[t] = "idle" \/ AddRunning(t) => ver[t] = 0 /\ rpc[t] = "idle"

\* A torrent that libtorrent failed to add was never in the session; one
\* whose call has unwound is being removed.
FailedInv ==
    \A t \in Torrents :
        /\ AlertPending({"addFailed"}, t) => life[t] = "failed"
        /\ apc[t] = "err" => life[t] # "adding"
        /\ apc[t] = "err" /\ life[t] = "live" /\ SessionOpen
             => t \in rmPosted

\* The handles map resolves what is in the session.
HandlesInv ==
    \A t \in Torrents :
        Inside(t) \/ apc[t] = "resolved" => (life[t] = "live" => t \in handles)

MovedInv ==
    /\ sd # "run" => "shutdown" \in Env
    /\ \A t \in Torrents : AlertPending({"moved"}, t) => "moved" \in Env

ChangeInv ==
    \A t \in Torrents :
        SessionOpen /\ life[t] = "live" /\ apc[t] \in {"ok", "restored"} =>
            \/ t \in need \/ AlertPending({"moved"}, t)
            \/ Covers(t, ver[t], FALSE)

(***************************************************************************)
(* The last entry.                                                         *)
(***************************************************************************)
LEMMA EndsAppend ==
    ASSUME NEW S, NEW s \in Seq(S), NEW e \in S, NEW kinds, NEW t, NEW n
    PROVE  /\ Is(e, kinds, t) /\ e.v >= n => Ends(Append(s, e), kinds, t, n)
           /\ ~Is(e, kinds, t) /\ Ends(s, kinds, t, n)
                => Ends(Append(s, e), kinds, t, n)
<1> DEFINE x == Append(s, e)
<1>1. /\ Len(s) \in Nat /\ Len(x) = Len(s) + 1 /\ x[Len(s) + 1] = e
      /\ \A i \in 1 .. Len(s) : x[i] = s[i]
  BY SeqFacts
<1>2. /\ \A i \in 1 .. Len(x) : i \in 1 .. Len(s) \/ i = Len(s) + 1
      /\ Len(s) + 1 \in 1 .. Len(x)
      /\ \A i \in 1 .. Len(s) : i \in 1 .. Len(x)
      /\ \A i \in 1 .. Len(x) : ~(Len(s) + 1 < i)
  BY <1>1
<1> HIDE DEF x
<1>3. Mentions(x, kinds, t) <=> Mentions(s, kinds, t) \/ Is(e, kinds, t)
  BY MentionsAppend DEF x
<1>4. ASSUME Is(e, kinds, t), e.v >= n PROVE Ends(x, kinds, t, n)
  <2> SUFFICES ASSUME NEW i \in 1 .. Len(x), Is(x[i], kinds, t), ~(x[i].v >= n)
               PROVE  \E j \in 1 .. Len(x) : i < j /\ Is(x[j], kinds, t) /\ x[j].v >= n
    BY <1>3, <1>4 DEF Ends
  <2>1. i # Len(s) + 1
    BY <1>1, <1>4
  <2>2. i < Len(s) + 1
    BY <1>1, <2>1
  <2> QED
    BY <1>1, <1>2, <1>4, <2>2
<1>5. ASSUME ~Is(e, kinds, t), Ends(s, kinds, t, n) PROVE Ends(x, kinds, t, n)
  <2> SUFFICES ASSUME NEW i \in 1 .. Len(x), Is(x[i], kinds, t), ~(x[i].v >= n)
               PROVE  \E j \in 1 .. Len(x) : i < j /\ Is(x[j], kinds, t) /\ x[j].v >= n
    BY <1>3, <1>5 DEF Ends
  <2>1. i \in 1 .. Len(s) /\ Is(s[i], kinds, t) /\ ~(s[i].v >= n)
    BY <1>1, <1>2, <1>5
  <2>2. PICK j \in 1 .. Len(s) : i < j /\ Is(s[j], kinds, t) /\ s[j].v >= n
    BY <1>5, <2>1 DEF Ends
  <2> QED
    BY <1>1, <1>2, <2>2
<1> QED
  BY <1>4, <1>5 DEF x

LEMMA EndsTail ==
    ASSUME NEW S, NEW s \in Seq(S), s # <<>>, NEW kinds, NEW t, NEW n,
           Ends(s, kinds, t, n)
    PROVE  \/ Ends(Tail(s), kinds, t, n)
           \/ /\ Is(Head(s), kinds, t) /\ Head(s).v >= n
              /\ ~Mentions(Tail(s), kinds, t)
<1> DEFINE x == Tail(s)
<1>1. /\ Len(s) \in Nat /\ Len(s) >= 1 /\ Len(x) = Len(s) - 1
      /\ Head(s) = s[1] /\ \A i \in 1 .. Len(x) : x[i] = s[i + 1]
  BY SeqFacts
<1>2. /\ \A i \in 1 .. Len(s) : i # 1 => i - 1 \in 1 .. Len(x) /\ s[i] = x[i - 1]
      /\ \A i \in 1 .. Len(x) : i + 1 \in 1 .. Len(s) /\ 1 < i + 1
      /\ \A i \in 1 .. Len(s), j \in 1 .. Len(x) : i - 1 < j => i < j + 1
  BY <1>1
<1> HIDE DEF x
<1>3. Mentions(s, kinds, t) <=> Is(Head(s), kinds, t) \/ Mentions(x, kinds, t)
  BY MentionsTail DEF x
<1>4. CASE Mentions(x, kinds, t)
  <2> SUFFICES ASSUME NEW i \in 1 .. Len(x), Is(x[i], kinds, t), ~(x[i].v >= n)
               PROVE  \E j \in 1 .. Len(x) : i < j /\ Is(x[j], kinds, t) /\ x[j].v >= n
    BY <1>4 DEF Ends, x
  <2>1. i + 1 \in 1 .. Len(s) /\ Is(s[i + 1], kinds, t) /\ ~(s[i + 1].v >= n)
    BY <1>1, <1>2
  <2>2. PICK j \in 1 .. Len(s) : i + 1 < j /\ Is(s[j], kinds, t) /\ s[j].v >= n
    BY <2>1 DEF Ends
  <2>3. j - 1 \in 1 .. Len(x) /\ i < j - 1 /\ x[j - 1] = s[j]
    BY <1>1, <1>2, <2>2
  <2> QED
    BY <2>2, <2>3
<1>5. CASE ~Mentions(x, kinds, t)
  <2>1. Is(s[1], kinds, t) /\ 1 \in 1 .. Len(s)
    BY <1>1, <1>3, <1>5 DEF Ends
  <2>2. \A j \in 1 .. Len(s) : 1 < j => ~Is(s[j], kinds, t)
    BY <1>2, <1>5 DEF Mentions, Is
  <2>3. s[1].v >= n
    BY <2>1, <2>2 DEF Ends
  <2> QED
    BY <1>1, <1>5, <2>1, <2>3 DEF x
<1> QED
  BY <1>4, <1>5

LEMMA EndsMentions ==
    ASSUME NEW s, NEW kinds, NEW t, NEW n, Ends(s, kinds, t, n)
    PROVE  Mentions(s, kinds, t)
  BY DEF Ends

\* The entries under way may all have version n or later.
LEMMA EndsAll ==
    ASSUME NEW s, NEW kinds, NEW t, NEW n, Mentions(s, kinds, t),
           \A i \in 1 .. Len(s) : Is(s[i], kinds, t) => s[i].v >= n
    PROVE  Ends(s, kinds, t, n)
  BY DEF Ends

\* The entry at the head of s moves, as e, to the end of r.
LEMMA EndsMoved ==
    ASSUME NEW S, NEW s \in Seq(S), s # <<>>, NEW R, NEW r \in Seq(R),
           NEW e \in R, NEW from, NEW to, NEW t, NEW n,
           Is(Head(s), from, t) <=> Is(e, to, t),
           Is(e, to, t) => e.v = Head(s).v
    PROVE  /\ Ends(s, from, t, n) =>
                \/ Ends(Tail(s), from, t, n)
                \/ Ends(Append(r, e), to, t, n) /\ ~Mentions(Tail(s), from, t)
           /\ ~Mentions(s, from, t) =>
                /\ ~Mentions(Tail(s), from, t)
                /\ Ends(r, to, t, n) => Ends(Append(r, e), to, t, n)
                /\ ~Mentions(r, to, t) => ~Mentions(Append(r, e), to, t)
<1>1. ~Mentions(s, from, t) => ~Is(Head(s), from, t) /\ ~Mentions(Tail(s), from, t)
  BY MentionsTail
<1>2. Ends(s, from, t, n) =>
        \/ Ends(Tail(s), from, t, n)
        \/ /\ Is(Head(s), from, t) /\ Head(s).v >= n
           /\ ~Mentions(Tail(s), from, t)
  BY EndsTail
<1>3. /\ Is(e, to, t) /\ e.v >= n => Ends(Append(r, e), to, t, n)
      /\ ~Is(e, to, t) /\ Ends(r, to, t, n) => Ends(Append(r, e), to, t, n)
  BY EndsAppend
<1>4. ~Is(e, to, t) /\ ~Mentions(r, to, t) => ~Mentions(Append(r, e), to, t)
  BY MentionsAppend
<1> QED
  BY <1>1, <1>2, <1>3, <1>4

\* The entry at the head of s goes, and was not about t.
LEMMA EndsDropped ==
    ASSUME NEW S, NEW s \in Seq(S), s # <<>>, NEW kinds, NEW t, NEW n,
           ~Is(Head(s), kinds, t)
    PROVE  /\ Ends(s, kinds, t, n) => Ends(Tail(s), kinds, t, n)
           /\ ~Mentions(s, kinds, t) => ~Mentions(Tail(s), kinds, t)
  BY EndsTail, MentionsTail

LEMMA EndsOther ==
    ASSUME NEW S, NEW s \in Seq(S), NEW e \in S, NEW kinds, NEW t, NEW n,
           ~Is(e, kinds, t)
    PROVE  /\ Ends(s, kinds, t, n) => Ends(Append(s, e), kinds, t, n)
           /\ ~Mentions(s, kinds, t) => ~Mentions(Append(s, e), kinds, t)
  BY EndsAppend, MentionsAppend

LEMMA EndsEmpty == \A kinds, t, n : ~Ends(<<>>, kinds, t, n)
  BY MentionsEmpty DEF Ends

(***************************************************************************)
(* What covers a version goes on covering it, until the session is closed. *)
(***************************************************************************)
\* A live torrent whose add has returned is registered and has its handle.
LEMMA LiveFacts ==
    ASSUME RemovalInv, HandlesInv, NEW t \in Torrents, life[t] = "live",
           apc[t] \in {"ok", "restored"}
    PROVE  t \in registry /\ t \in handles
  BY DEF RemovalInv, SessionInv, HandlesInv, Inside, Handled

\* The marks that stand for t in the last place.

LEMMA ReachesLibtorrent ==
    ASSUME Accounting, NEW t \in Torrents, NEW n \in Int, NEW c \in BOOLEAN,
           LibtorrentNext,
           life[t] = "live", n <= ver[t], Covers(t, n, c)
    PROVE  Covers(t, n, c)'
<1> USE DEF Covers, AlwaysPosted, Reaches, Then, OnDisk
<1>1. UNCHANGED <<batch, ops, queue, current, dirty, disk>>
  BY DEF LibtorrentNext, LtAdd, LtRemove, LtExpire, LtChange, LtFinished, LtMoved,
     LtAnswerSave, pumpVars, shared
<1>2. ASSUME UNCHANGED <<alerts, posted>> PROVE Covers(t, n, c)'
  BY <1>1, <1>2
<1>3. ASSUME NEW a \in Alert, alerts' = Append(alerts, a), a.kind # "saved",
             UNCHANGED posted
      PROVE  Covers(t, n, c)'
  <2>1. ~Is(a, {"saved"}, t)
    BY <1>3 DEF Is
  <2>2. /\ Ends(alerts, {"saved"}, t, n) => Ends(alerts', {"saved"}, t, n)
        /\ ~Mentions(alerts, {"saved"}, t) => ~Mentions(alerts', {"saved"}, t)
    BY <1>3, <2>1, HeadFacts, EndsOther
  <2> QED
    BY <1>1, <1>3, <2>2
<1>4. ASSUME NEW u \in Torrents, LtAdd(u) PROVE Covers(t, n, c)'
  <2>1. \A k \in {"added", "addFailed"} :
          PlainAlert(k, u) \in Alert /\ PlainAlert(k, u).kind # "saved"
    BY Entries DEF AlertKinds, PlainAlert
  <2>2. \E k \in {"added", "addFailed"} : alerts' = Append(alerts, PlainAlert(k, u))
    BY <1>4 DEF LtAdd
  <2> QED
    BY <1>3, <1>4, <2>1, <2>2 DEF LtAdd
<1>5. ASSUME NEW u \in Torrents, LtRemove(u) PROVE Covers(t, n, c)'
  <2>1. PlainAlert("removed", u) \in Alert /\ PlainAlert("removed", u).kind # "saved"
    BY Entries DEF AlertKinds, PlainAlert
  <2>2. alerts' = alerts \/ alerts' = Append(alerts, PlainAlert("removed", u))
    BY <1>5 DEF LtRemove
  <2> QED
    BY <1>2, <1>3, <1>5, <2>1, <2>2 DEF LtRemove
<1>6. ASSUME NEW u \in Torrents, LtFinished(u) \/ LtMoved(u) PROVE Covers(t, n, c)'
  <2>1. \A k \in {"finished", "moved"} :
          PlainAlert(k, u) \in Alert /\ PlainAlert(k, u).kind # "saved"
    BY Entries DEF AlertKinds, PlainAlert
  <2>2. \E k \in {"finished", "moved"} : alerts' = Append(alerts, PlainAlert(k, u))
    BY <1>6 DEF LtFinished, LtMoved
  <2> QED
    BY <1>3, <1>6, <2>1, <2>2 DEF LtFinished, LtMoved
<1>7. ASSUME NEW p \in posted, LtAnswerSave(p) PROVE Covers(t, n, c)'
  <2>1. p.t \in Torrents /\ p.id \in Tokens /\ ver[p.t] \in Int
    BY DEF Accounting, TypeOK, LtTypeOK, SaveRequest
  <2> DEFINE a == [kind |-> "saved", t |-> p.t, id |-> p.id, v |-> ver[p.t]]
             b == [kind |-> "saveFailed", t |-> p.t, id |-> p.id, v |-> 0]
  <2>2. /\ posted' = posted \ {p}
        /\ alerts' = Append(alerts, a)
             \/ (alerts' = Append(alerts, b) /\ (p.t # t \/ p.flag # "always"))
    BY <1>7 DEF LtAnswerSave
  <2>3. a \in Alert /\ b \in Alert
    BY <2>1, 0 \in Int, Entries
  <2>4. /\ a.kind = "saved" /\ a.t = p.t /\ a.v = ver[p.t]
        /\ ~Is(b, {"saved"}, t)
    BY DEF Is
  <2> HIDE DEF a, b
  <2>5. CASE p.t = t /\ alerts' = Append(alerts, a)
    <3>1. Is(a, {"saved"}, t) /\ a.v >= n
      BY <2>1, <2>4, <2>5 DEF Is
    <3>2. Ends(alerts', {"saved"}, t, n)
      BY <2>3, <2>5, <3>1, HeadFacts, EndsAppend
    <3> QED
      BY <3>2
  <2>6. ASSUME NEW e \in Alert, alerts' = Append(alerts, e), ~Is(e, {"saved"}, t),
               p.t # t \/ p.flag # "always"
        PROVE  Covers(t, n, c)'
    <3>1. /\ Ends(alerts, {"saved"}, t, n) => Ends(alerts', {"saved"}, t, n)
          /\ ~Mentions(alerts, {"saved"}, t) => ~Mentions(alerts', {"saved"}, t)
      BY <2>6, HeadFacts, EndsOther
    <3>2. AlwaysPosted(t) => AlwaysPosted(t)'
      BY <2>2, <2>6
    <3> QED
      BY <1>1, <3>1, <3>2
  <2>7. p.t # t => ~Is(a, {"saved"}, t)
    BY <2>4 DEF Is
  <2> QED
    BY <2>2, <2>3, <2>4, <2>5, <2>6, <2>7
<1> QED
  BY <1>2, <1>4, <1>5, <1>6, <1>7 DEF LibtorrentNext, LtExpire, LtChange

\* A save is posted: nothing else changes.
LEMMA PostKept ==
    ASSUME NEW t \in Torrents, NEW n,
           posted' = posted \/ \E u \in Torrents : \E flag : PostSave(u, flag)
    PROVE  AlwaysPosted(t) => AlwaysPosted(t)'
  BY DEF PostSave, AlwaysPosted

\* What is left alone covers as it did.
LEMMA CoversKept ==
    ASSUME NEW t \in Torrents, NEW n, NEW c \in BOOLEAN,
           Covers(t, n, c),
           UNCHANGED <<alerts, batch, ops, queue, current>>,
           t \in dirty <=> t \in dirty', disk'[t] = disk[t],
           AlwaysPosted(t) => AlwaysPosted(t)'
    PROVE  Covers(t, n, c)'
<1>1. CASE AlwaysPosted(t)
  BY <1>1 DEF Covers
<1>2. CASE Reaches(t, n, c)
  BY <1>2 DEF Covers, Reaches, Then, OnDisk
<1> QED
  BY <1>1, <1>2 DEF Covers

LEMMA CoversPump ==
    ASSUME Accounting, TasksInv, RemovalInv, NEW t \in Torrents, NEW n \in Int,
           NEW c \in BOOLEAN, PumpNext, ~PumpAbort, "serializeFails" \notin Env,
           life[t] = "live", t \in registry, t \in handles, Covers(t, n, c)
    PROVE  Covers(t, n, c)'
<1>1. UNCHANGED <<disk, current>>
  BY DEF PumpNext, PumpPop, HandleAddFailed, HandleAdded, HandleRemoved,
     HandleSaveTrigger, RequestSave, HandleSaved, HandleSaveFailed, PumpSend,
     RetryTick, RetryDone, PumpStop, PumpAbort, RetryVisit, shared
<1>2. CASE PumpPop
  <2>1. /\ batch = <<>> /\ batch' = alerts /\ alerts' = <<>>
        /\ UNCHANGED <<posted, ops, queue, dirty>>
    BY <1>2 DEF PumpPop, TasksInv, shared
  <2> QED
    BY <1>1, <2>1, EndsEmpty, MentionsEmpty
       DEF Covers, AlwaysPosted, Reaches, Then, OnDisk
<1>3. ASSUME batch # <<>>, batch' = Tail(batch), Head(batch).kind # "saved",
             UNCHANGED <<alerts, ops, queue>>, t \in dirty <=> t \in dirty',
             AlwaysPosted(t) => AlwaysPosted(t)'
      PROVE  Covers(t, n, c)'
  <2>1. ~Is(Head(batch), {"saved"}, t)
    BY <1>3 DEF Is
  <2>2. /\ Ends(batch, {"saved"}, t, n) => Ends(batch', {"saved"}, t, n)
        /\ ~Mentions(batch, {"saved"}, t) => ~Mentions(batch', {"saved"}, t)
    BY <1>3, <2>1, HeadFacts, EndsDropped
  <2> QED
    BY <1>1, <1>3, <2>2 DEF Covers, Reaches, Then, OnDisk
<1>4. CASE HandleAddFailed \/ HandleAdded \/ HandleSaveFailed
  <2>1. /\ batch # <<>> /\ batch' = Tail(batch) /\ Head(batch).kind # "saved"
        /\ UNCHANGED <<posted, alerts, ops, queue, dirty>>
    BY <1>4 DEF HandleAddFailed, HandleAdded, HandleSaveFailed, Consume, ltVars,
       shared
  <2> QED
    BY <1>3, <2>1 DEF AlwaysPosted
<1>5. CASE HandleSaveTrigger
  <2>1. /\ batch # <<>> /\ Head(batch).kind # "saved"
        /\ UNCHANGED <<posted, alerts, ops, queue, dirty>>
        /\ batch' = batch \/ batch' = Tail(batch)
    BY <1>5 DEF HandleSaveTrigger, Consume, ltVars, shared
  <2> QED
    BY <1>1, <1>3, <2>1, CoversKept DEF AlwaysPosted
<1>6. CASE RequestSave
  <2>1. /\ batch # <<>> /\ Head(batch).kind # "saved" /\ batch' = Tail(batch)
        /\ UNCHANGED <<alerts, ops, queue, dirty>>
        /\ posted' = posted \/ \E u \in Torrents : \E flag : PostSave(u, flag)
    BY <1>6, HeadFacts DEF RequestSave, TasksInv, Accounting, NoPost
  <2> QED
    BY <1>3, <2>1, PostKept
<1>7. CASE HandleRemoved
  <2> DEFINE u == Head(batch).t
             d == [kind |-> "delete", t |-> u]
  <2>1. /\ batch # <<>> /\ Head(batch).kind = "removed" /\ batch' = Tail(batch)
        /\ UNCHANGED <<posted, alerts, queue>>
        /\ dirty' = dirty \/ dirty' = dirty \ {u}
        /\ ops' = ops \/ ops' = Append(ops, d)
    BY <1>7 DEF HandleRemoved, Consume, WithDelete, ltVars
  <2>2. u # t
    <3>1. u = t => AlertPending({"removed"}, t)
      BY <2>1, HeadFacts, MentionsTail DEF Is, AlertPending
    <3> QED
      BY <3>1 DEF RemovalInv, NewsInv
  <2>3. d \in PersistOp /\ ~Is(d, {"write"}, t)
    BY <2>1, HeadFacts, Entries DEF Is
  <2> HIDE DEF d
  <2>4. /\ Ends(ops, {"write"}, t, n) => Ends(ops', {"write"}, t, n)
        /\ ~Mentions(ops, {"write"}, t) => ~Mentions(ops', {"write"}, t)
    BY <2>1, <2>3, HeadFacts, EndsOther
  <2>5. ~Is(Head(batch), {"saved"}, t)
    BY <2>1 DEF Is
  <2>6. /\ Ends(batch, {"saved"}, t, n) => Ends(batch', {"saved"}, t, n)
        /\ ~Mentions(batch, {"saved"}, t) => ~Mentions(batch', {"saved"}, t)
    BY <2>1, <2>5, HeadFacts, EndsDropped
  <2>7. t \in dirty <=> t \in dirty'
    BY <2>1, <2>2
  <2> QED
    BY <1>1, <2>1, <2>4, <2>6, <2>7 DEF Covers, AlwaysPosted, Reaches, Then, OnDisk
<1>8. CASE HandleSaved
  <2> DEFINE a == Head(batch)
             w == [kind |-> "write", t |-> a.t, id |-> a.id, v |-> a.v,
                   ack |-> "none"]
  <2>1. /\ batch # <<>> /\ a.kind = "saved" /\ batch' = Tail(batch)
        /\ UNCHANGED <<posted, alerts, queue, dirty>>
        /\ \/ ops' = Append(ops, w)
           \/ ops' = ops /\ a.t # t
    BY <1>8 DEF HandleSaved, Consume, ltVars, StillRegistered
  <2>2. a.t \in Torrents /\ a.id \in Tokens /\ a.v \in Int
    BY <2>1, HeadFacts DEF Alert
  <2>3. w \in PersistOp
    BY <2>2, Entries
  <2>4. (Is(w, {"write"}, t) <=> Is(a, {"saved"}, t)) /\ w.v = a.v
    BY <2>1 DEF Is
  <2> HIDE DEF w
  <2>5. CASE ops' = Append(ops, w)
    <3>1. /\ Ends(batch, {"saved"}, t, n) =>
                \/ Ends(Tail(batch), {"saved"}, t, n)
                \/ /\ Ends(Append(ops, w), {"write"}, t, n)
                   /\ ~Mentions(Tail(batch), {"saved"}, t)
          /\ ~Mentions(batch, {"saved"}, t) =>
                /\ ~Mentions(Tail(batch), {"saved"}, t)
                /\ Ends(ops, {"write"}, t, n) => Ends(Append(ops, w), {"write"}, t, n)
                /\ ~Mentions(ops, {"write"}, t)
                     => ~Mentions(Append(ops, w), {"write"}, t)
      BY <2>1, <2>3, <2>4, HeadFacts, EndsMoved
    <3> QED
      BY <1>1, <2>1, <2>5, <3>1 DEF Covers, AlwaysPosted, Reaches, Then, OnDisk
  <2>6. CASE ops' = ops /\ a.t # t
    <3>1. ~Is(a, {"saved"}, t)
      BY <2>6 DEF Is
    <3>2. /\ Ends(batch, {"saved"}, t, n) => Ends(batch', {"saved"}, t, n)
          /\ ~Mentions(batch, {"saved"}, t) => ~Mentions(batch', {"saved"}, t)
      BY <2>1, <3>1, HeadFacts, EndsDropped
    <3> QED
      BY <1>1, <2>1, <2>6, <3>2 DEF Covers, AlwaysPosted, Reaches, Then, OnDisk
  <2> QED
    BY <2>1, <2>5, <2>6
<1>9. CASE PumpSend
  <2>1. UNCHANGED <<posted, alerts, batch, dirty>>
    BY <1>9 DEF PumpSend, ltVars
  <2>2. CASE UNCHANGED <<ops, queue>>
    BY <1>1, <2>1, <2>2, CoversKept DEF AlwaysPosted
  <2>3. CASE ops # <<>> /\ queue' = Append(queue, Head(ops)) /\ ops' = Tail(ops)
    <3> DEFINE h == Head(ops)
    <3>1. h \in PersistOp
      BY <2>3, HeadFacts
    <3>2. /\ Ends(ops, {"write"}, t, n) =>
                \/ Ends(Tail(ops), {"write"}, t, n)
                \/ /\ Ends(Append(queue, h), {"write"}, t, n)
                   /\ ~Mentions(Tail(ops), {"write"}, t)
          /\ ~Mentions(ops, {"write"}, t) =>
                /\ ~Mentions(Tail(ops), {"write"}, t)
                /\ Ends(queue, {"write"}, t, n) => Ends(Append(queue, h), {"write"}, t, n)
                /\ ~Mentions(queue, {"write"}, t)
                     => ~Mentions(Append(queue, h), {"write"}, t)
      BY <2>3, <3>1, HeadFacts, EndsMoved
    <3> QED
      BY <1>1, <2>1, <2>3, <3>2 DEF Covers, AlwaysPosted, Reaches, Then, OnDisk
  <2> QED
    BY <1>9, <2>2, <2>3 DEF PumpSend
<1>10. CASE RetryTick \/ RetryDone \/ PumpStop
  <2>1. UNCHANGED <<posted, alerts, batch, ops, queue, dirty>>
    BY <1>10 DEF RetryTick, RetryDone, PumpStop, ltVars, shared
  <2> QED
    BY <1>1, <2>1, CoversKept DEF AlwaysPosted
<1>11. ASSUME NEW u \in Torrents, RetryVisit(u) PROVE Covers(t, n, c)'
  <2>1. /\ UNCHANGED <<alerts, batch, ops, queue>>
        /\ posted' = posted \/ PostSave(u, "always")
        /\ dirty' = dirty \/ (dirty' = dirty \ {u} /\ u # t)
    BY <1>11 DEF RetryVisit, NoPost, Accepted
  <2> QED
    BY <1>1, <2>1, CoversKept, PostKept
<1> QED
  BY <1>2, <1>4, <1>5, <1>6, <1>7, <1>8, <1>9, <1>10, <1>11 DEF PumpNext

LEMMA CoversPersister ==
    ASSUME Accounting, TasksInv, VersionsInv, RemovalInv, NEW t \in Torrents,
           NEW n \in Int, NEW c \in BOOLEAN, PersisterNext, life[t] = "live",
           c => flushVer[t] # NoFile /\ t \notin flushFailed',
           Covers(t, n, c)
    PROVE  Covers(t, n, c)'
<1>1. UNCHANGED <<posted, alerts, batch, ops>>
  BY DEF PersisterNext, PersistRecv, PersistWrite, PersistDelete, PersistState,
     ltVars, pumpVars
<1>2. CASE PersistRecv
  <2> DEFINE h == Head(queue)
  <2>1. /\ queue # <<>> /\ current = <<>> /\ current' = <<h>> /\ queue' = Tail(queue)
        /\ UNCHANGED <<dirty, disk>> /\ <<h>> = Append(<<>>, h)
    BY <1>2 DEF PersistRecv
  <2>2. h \in PersistOp
    BY <2>1, HeadFacts
  <2>3. <<>> \in Seq(PersistOp)
    OBVIOUS
  <2>4. /\ Ends(queue, {"write"}, t, n) =>
             \/ Ends(Tail(queue), {"write"}, t, n)
             \/ /\ Ends(Append(<<>>, h), {"write"}, t, n)
                /\ ~Mentions(Tail(queue), {"write"}, t)
        /\ ~Mentions(queue, {"write"}, t) =>
             /\ ~Mentions(Tail(queue), {"write"}, t)
             /\ ~Mentions(<<>>, {"write"}, t)
                  => ~Mentions(Append(<<>>, h), {"write"}, t)
    BY <2>1, <2>2, <2>3, HeadFacts, EndsMoved
  <2>5. /\ Ends(queue, {"write"}, t, n) =>
             \/ Ends(queue', {"write"}, t, n)
             \/ Ends(current', {"write"}, t, n) /\ ~Mentions(queue', {"write"}, t)
        /\ ~Mentions(queue, {"write"}, t) =>
             ~Mentions(queue', {"write"}, t) /\ ~Mentions(current', {"write"}, t)
    BY <2>1, <2>4, MentionsEmpty
  <2>6. ~Ends(current, {"write"}, t, n)
    BY <2>1, EndsEmpty
  <2> HIDE DEF h
  <2> QED
    BY <1>1, <2>1, <2>5, <2>6 DEF Covers, AlwaysPosted, Reaches, Then, OnDisk
<1>3. ASSUME current # <<>>, current' = <<>>, UNCHANGED queue,
             IF Is(current[1], {"write"}, t)
             THEN current[1].v >= n => OnDisk(t, n, c)'
             ELSE (t \in dirty <=> t \in dirty') /\ disk'[t] = disk[t]
      PROVE  Covers(t, n, c)'
  <2>1. Mentions(current, {"write"}, t) <=> Is(current[1], {"write"}, t)
    BY <1>3, OnlyCurrent
  <2>2. Ends(current, {"write"}, t, n) => current[1].v >= n
    <3>1. Len(current) \in Nat /\ Len(current) <= 1
      BY HeadFacts DEF TasksInv
    <3>2. \A i \in 1 .. Len(current) : i = 1 /\ ~(1 < i)
      BY <3>1
    <3> QED
      BY <3>2 DEF Ends, Mentions, Is
  <2>3. Ends(current, {"write"}, t, n) => Is(current[1], {"write"}, t)
    BY <2>1, EndsMentions
  <2>4. ~Mentions(current', {"write"}, t)
    BY <1>3, MentionsEmpty
  <2>5. Then(current, {"write"}, t, n, OnDisk(t, n, c))
          => OnDisk(t, n, c)'
    BY <1>3, <2>1, <2>2, <2>3 DEF Then, OnDisk
  <2> QED
    BY <1>1, <1>3, <2>4, <2>5 DEF Covers, AlwaysPosted, Reaches, Then, OnDisk
<1>4. CASE PersistWrite
  <2> DEFINE o == current[1]
  <2>1. /\ current # <<>> /\ current' = <<>> /\ UNCHANGED queue
        /\ o.kind = "write" /\ o.t \in Torrents
        /\ \/ disk' = [disk EXCEPT ![o.t] = o.v] /\ dirty' = dirty \ {o.t}
           \/ /\ disk' = disk /\ dirty' = dirty \cup {o.t}
              /\ flushVer[o.t] # NoFile => o.t \in flushFailed'
        /\ disk \in [Torrents -> Int]
    BY <1>4, CurrentFacts DEF PersistWrite, write_atomic, MarkDirty, Accounting,
       TypeOK, SharedTypeOK
  <2>2. Is(o, {"write"}, t) <=> o.t = t
    BY <2>1 DEF Is
  <2>3. CASE o.t = t
    <3>1. o.v >= n => OnDisk(t, n, c)'
      BY <2>1, <2>3 DEF OnDisk
    <3> QED
      BY <1>3, <2>1, <2>2, <2>3, <3>1
  <2>4. CASE o.t # t
    BY <1>3, <2>1, <2>2, <2>4
  <2> QED
    BY <2>3, <2>4
<1>5. CASE PersistDelete
  <2> DEFINE o == current[1]
  <2>1. /\ current # <<>> /\ current' = <<>> /\ UNCHANGED <<queue, dirty>>
        /\ o.kind = "delete" /\ o.t \in Torrents
        /\ disk' = disk \/ disk' = [disk EXCEPT ![o.t] = NoFile]
        /\ disk \in [Torrents -> Int] /\ Mentions(current, {"delete"}, o.t)
    BY <1>5, CurrentFacts DEF PersistDelete, Accounting, TypeOK, SharedTypeOK
  <2>2. o.t # t
    BY <2>1 DEF RemovalInv, DeletedInv, OpPending
  <2>3. ~Is(o, {"write"}, t) /\ disk'[t] = disk[t]
    BY <2>1, <2>2 DEF Is
  <2> QED
    BY <1>3, <2>1, <2>3
<1>6. CASE PersistState
  <2>1. /\ current # <<>> /\ current' = <<>> /\ UNCHANGED <<queue, dirty, disk>>
        /\ ~Is(current[1], {"write"}, t)
    BY <1>6 DEF PersistState, shared, Is
  <2> QED
    BY <1>3, <2>1
<1> QED
  BY <1>2, <1>4, <1>5, <1>6 DEF PersisterNext

LEMMA CoversCalls ==
    ASSUME Accounting, NEW t \in Torrents, NEW n \in Int, NEW c \in BOOLEAN,
           CallNext \/ SweepNext \/ ShutdownNext,
           apc[t] \in {"ok", "restored"}, Covers(t, n, c)
    PROVE  Covers(t, n, c)'
<1>1. UNCHANGED <<alerts, batch, ops, current, disk>>
  BY DEF CallNext, AddCall, AddRegister, AddEnqueue, AddSend, AddAcked, AddDelete,
     AddNacked, AddDrop, RemoveCall, RemoveGiveUp, SaveCall, SaveGiveUp, SweepNext,
     SweepTick, SweepVisit, ShutdownNext, ShutdownStart, FlushStart, FlushWait,
     FlushEnd, StateSend, StateGiveUp, DropSender, PersisterEnd, FlushVisit,
     ltVars, shared, pumpVars
<1>2. ASSUME UNCHANGED queue, t \in dirty <=> t \in dirty',
             posted' = posted \/ \E u \in Torrents : \E flag : PostSave(u, flag)
      PROVE  Covers(t, n, c)'
  BY <1>1, <1>2, CoversKept, PostKept
<1>3. ASSUME NEW o \in PersistOp, queue' = Append(queue, o), ~Is(o, {"write"}, t),
             UNCHANGED <<dirty, posted>>
      PROVE  Covers(t, n, c)'
  <2>1. /\ Ends(queue, {"write"}, t, n) => Ends(queue', {"write"}, t, n)
        /\ ~Mentions(queue, {"write"}, t) => ~Mentions(queue', {"write"}, t)
    BY <1>3, HeadFacts, EndsOther
  <2> QED
    BY <1>1, <1>3, <2>1 DEF Covers, AlwaysPosted, Reaches, Then, OnDisk
<1>4. ASSUME NEW u \in Torrents, AddSend(u) PROVE Covers(t, n, c)'
  <2> DEFINE w == [kind |-> "write", t |-> u, id |-> addId[u], v |-> 0,
                   ack |-> "add"]
  <2>1. addId[u] \in Tokens /\ u # t
    BY <1>4 DEF AddSend, Accounting, TokensCarried, CarryAdds
  <2>2. w \in PersistOp
    BY <2>1, 0 \in Int, Entries
  <2>3. ~Is(w, {"write"}, t)
    BY <2>1 DEF Is
  <2>4. queue' = Append(queue, w) /\ UNCHANGED <<dirty, posted>>
    BY <1>4 DEF AddSend, ltVars
  <2> HIDE DEF w
  <2> QED
    BY <1>3, <2>2, <2>3, <2>4
<1>5. ASSUME NEW u \in Torrents, AddDelete(u) PROVE Covers(t, n, c)'
  <2> DEFINE d == [kind |-> "delete", t |-> u]
  <2>1. /\ d \in PersistOp /\ ~Is(d, {"write"}, t)
        /\ queue' = Append(queue, d) /\ UNCHANGED <<dirty, posted>>
    BY <1>5, Entries DEF AddDelete, ltVars, Is
  <2> HIDE DEF d
  <2> QED
    BY <1>3, <2>1
<1>6. CASE StateSend
  <2> DEFINE s == [kind |-> "state"]
  <2>1. /\ s \in PersistOp /\ ~Is(s, {"write"}, t)
        /\ queue' = Append(queue, s) /\ UNCHANGED <<dirty, posted>>
    BY <1>6 DEF StateSend, PersistOp, StateOp, ltVars, Is
  <2> HIDE DEF s
  <2> QED
    BY <1>3, <2>1
<1>7. CASE CallNext
  <2> SUFFICES ASSUME NEW u \in Torrents,
                      \/ AddCall(u) \/ AddRegister(u) \/ AddEnqueue(u)
                      \/ AddAcked(u) \/ AddNacked(u) \/ AddDrop(u)
                      \/ RemoveCall(u) \/ RemoveGiveUp(u) \/ SaveCall(u)
                      \/ SaveGiveUp(u)
               PROVE  Covers(t, n, c)'
    BY <1>4, <1>5, <1>7 DEF CallNext
  <2>1. CASE AddEnqueue(u) \/ AddNacked(u)
    <3>1. u # t /\ UNCHANGED <<posted, queue>>
          /\ (dirty' = dirty \/ dirty' = dirty \ {u})
      BY <2>1 DEF AddEnqueue, AddNacked, Unwind
    <3> QED
      BY <1>2, <3>1
  <2>2. CASE SaveCall(u)
    <3>1. UNCHANGED <<queue, dirty>> /\ (posted' = posted \/ PostSave(u, "always"))
      BY <2>2 DEF SaveCall, NoPost
    <3> QED
      BY <1>2, <3>1
  <2> QED
    BY <1>2, <2>1, <2>2 DEF AddCall, AddRegister, AddAcked, AddDrop, RemoveCall,
       RemoveGiveUp, SaveGiveUp, ltVars, shared
<1>8. CASE SweepNext
  <2>1. CASE SweepTick
    BY <1>2, <2>1 DEF SweepTick, ltVars, shared
  <2>2. ASSUME NEW u \in Torrents, SweepVisit(u) PROVE Covers(t, n, c)'
    <3>1. UNCHANGED <<queue, dirty>> /\ (posted' = posted \/ PostSave(u, "ifModified"))
      BY <2>2 DEF SweepVisit, NoPost
    <3> QED
      BY <1>2, <3>1
  <2> QED
    BY <1>8, <2>1, <2>2 DEF SweepNext
<1>9. CASE ShutdownNext
  <2>1. ASSUME NEW u \in Torrents, FlushVisit(u) PROVE Covers(t, n, c)'
    <3>1. UNCHANGED <<queue, dirty>> /\ (posted' = posted \/ PostSave(u, "always"))
      BY <2>1 DEF FlushVisit, NoPost
    <3> QED
      BY <1>2, <3>1
  <2> QED
    BY <1>2, <1>6, <1>9, <2>1 DEF ShutdownNext, ShutdownStart, FlushStart, FlushWait,
       FlushEnd, StateGiveUp, DropSender, PersisterEnd, ltVars, shared
<1> QED
  BY <1>7, <1>8, <1>9

\* A version that is covered stays covered, while the torrent lives and the
\* pump is not aborted.
LEMMA CoversStep ==
    ASSUME Accounting, TasksInv, VersionsInv, RemovalInv, HandlesInv,
           NEW t \in Torrents, NEW n \in Int, NEW c \in BOOLEAN, Next, ~PumpAbort,
           "serializeFails" \notin Env, life[t] = "live",
           apc[t] \in {"ok", "restored"}, n <= ver[t],
           c => flushVer[t] # NoFile /\ t \notin flushFailed',
           Covers(t, n, c)
    PROVE  Covers(t, n, c)'
  BY LiveFacts, ReachesLibtorrent, CoversPump, CoversPersister, CoversCalls DEF Next

\* Adds are resolved by the pump only.
LEMMA OnlyPopResolves ==
    ASSUME TypeOK, Next, NEW t \in Torrents, ~PumpPop,
           apc'[t] \in {"resolved", "posted"}
    PROVE  apc[t] = apc'[t] \/ (apc[t] = "idle" /\ apc'[t] = "posted")
<1>1. apc \in [Torrents -> AddStates]
  BY DEF TypeOK, CallsTypeOK
<1>2. CASE UNCHANGED apc
  BY <1>2
<1>3. CASE PersisterNext
  BY <1>1, <1>2, <1>3 DEF PersisterNext, PersistRecv, PersistWrite, PersistDelete,
     PersistState, calls
<1>4. CASE CallNext
  <2> SUFFICES ASSUME NEW u \in Torrents,
                      \/ AddCall(u) \/ AddRegister(u) \/ AddEnqueue(u)
                      \/ AddSend(u) \/ AddAcked(u) \/ AddDelete(u)
                      \/ AddNacked(u) \/ AddDrop(u) \/ RemoveCall(u)
                      \/ RemoveGiveUp(u) \/ SaveCall(u) \/ SaveGiveUp(u)
               PROVE  apc[t] = apc'[t] \/ (apc[t] = "idle" /\ apc'[t] = "posted")
    BY <1>4 DEF CallNext
  <2>1. CASE RemoveCall(u) \/ RemoveGiveUp(u) \/ SaveCall(u) \/ SaveGiveUp(u)
    BY <1>2, <2>1 DEF RemoveCall, RemoveGiveUp, SaveCall, SaveGiveUp
  <2> QED
    BY <1>1, <2>1 DEF AddCall, AddRegister, AddEnqueue, AddSend, AddAcked, AddDelete,
       AddNacked, AddDrop, Unwind
<1>5. CASE LibtorrentNext \/ PumpNext \/ SweepNext \/ ShutdownNext
  BY <1>2, <1>5 DEF LibtorrentNext, LtAdd, LtRemove, LtExpire, LtChange, LtFinished,
     LtMoved, LtAnswerSave, PumpNext, HandleAddFailed, HandleAdded, HandleRemoved,
     HandleSaveTrigger, RequestSave, HandleSaved, HandleSaveFailed, PumpSend,
     RetryTick, RetryDone, PumpStop, PumpAbort, RetryVisit, SweepNext, SweepTick,
     SweepVisit, ShutdownNext, ShutdownStart, FlushStart, FlushWait, FlushEnd,
     StateSend, StateGiveUp, DropSender, PersisterEnd, FlushVisit, calls
<1> QED
  BY <1>3, <1>4, <1>5 DEF Next

(***************************************************************************)
(* No change is forgotten.                                                 *)
(***************************************************************************)
\* The surroundings the claims are about: nobody acts on a torrent before its
\* add call has returned, what libtorrent hands over can be serialized, and
\* the storage of a torrent without metadata does not move during a shutdown.
Undisturbed ==
    /\ {"race", "earlyRace"} \cap Env = {}
    /\ "serializeFails" \notin Env
    /\ ~({"moved", "shutdown"} \subseteq Env)

\* What the steps of the calls lead to.
LEMMA AddStep ==
    ASSUME TypeOK, Next, NEW t \in Torrents
    PROVE  /\ (apc[t] = "idle" \/ AddRunning(t))' => apc[t] = "idle" \/ AddRunning(t)
           /\ apc'[t] \in {"ok", "restored"} =>
                \/ apc[t] \in {"ok", "restored"}
                \/ apc[t] = "acked" /\ AddAcked(t)
                \/ apc[t] = "deleting"
<1> DEFINE P == 
           /\ (apc[t] = "idle" \/ AddRunning(t))' => apc[t] = "idle" \/ AddRunning(t)
           /\ apc'[t] \in {"ok", "restored"} =>
                \/ apc[t] \in {"ok", "restored"}
                \/ apc[t] = "acked" /\ AddAcked(t)
                \/ apc[t] = "deleting"
<1> USE DEF AddRunning
<1>1. apc \in [Torrents -> AddStates]
  BY DEF TypeOK, CallsTypeOK
<1>2. CASE UNCHANGED apc
  BY <1>2
<1>3. CASE LibtorrentNext
  BY <1>2, <1>3 DEF LibtorrentNext, LtAdd, LtRemove, LtExpire, LtChange,
     LtFinished, LtMoved, LtAnswerSave, calls
<1>4. CASE PumpNext
  <2>1. CASE PumpPop
    BY <1>1, <2>1 DEF PumpPop
  <2> QED
    BY <1>2, <1>4, <2>1 DEF PumpNext, HandleAddFailed, HandleAdded, HandleRemoved,
       HandleSaveTrigger, RequestSave, HandleSaved, HandleSaveFailed, PumpSend,
       RetryTick, RetryDone, PumpStop, PumpAbort, RetryVisit, calls
<1>5. CASE PersisterNext
  BY <1>1, <1>2, <1>5 DEF PersisterNext, PersistRecv, PersistWrite, PersistDelete,
     PersistState, calls
<1>6. CASE CallNext
  <2> SUFFICES ASSUME NEW u \in Torrents,
                      \/ AddCall(u) \/ AddRegister(u) \/ AddEnqueue(u)
                      \/ AddSend(u) \/ AddAcked(u) \/ AddDelete(u)
                      \/ AddNacked(u) \/ AddDrop(u) \/ RemoveCall(u)
                      \/ RemoveGiveUp(u) \/ SaveCall(u) \/ SaveGiveUp(u)
               PROVE  P
    BY <1>6 DEF CallNext
  <2>1. CASE AddAcked(u)
    <3>1. CASE u = t
      BY <1>1, <2>1, <3>1 DEF AddAcked
    <3>2. CASE u # t
      BY <1>1, <2>1, <3>2 DEF AddAcked
    <3> QED
      BY <3>1, <3>2
  <2>2. CASE AddCall(u) \/ AddSend(u) \/ AddDelete(u) \/ AddRegister(u) \/ AddDrop(u)
    BY <1>1, <2>2 DEF AddCall, AddSend, AddDelete, AddRegister, AddDrop
  <2>3. CASE AddEnqueue(u) \/ AddNacked(u)
    BY <1>1, <2>3 DEF AddEnqueue, AddNacked, Unwind
  <2> QED
    BY <1>2, <2>1, <2>2, <2>3 DEF RemoveCall, RemoveGiveUp, SaveCall, SaveGiveUp
<1>7. CASE SweepNext
  BY <1>2, <1>7 DEF SweepNext, SweepTick, SweepVisit, calls
<1>8. CASE ShutdownNext
  BY <1>2, <1>8 DEF ShutdownNext, ShutdownStart, FlushStart, FlushWait, FlushEnd,
     StateSend, StateGiveUp, DropSender, PersisterEnd, FlushVisit, calls
<1> QED
  BY <1>3, <1>4, <1>5, <1>6, <1>7, <1>8 DEF Next

\* The changes of a torrent, and the calls for its removal.
LEMMA VerStep ==
    ASSUME TypeOK, Next, NEW t \in Torrents
    PROVE  /\ \/ ver'[t] = ver[t]
              \/ /\ ver'[t] = ver[t] + 1 /\ life[t] = "live" /\ Settled(t)
                 /\ LtChange(t) \/ LtFinished(t) \/ LtMoved(t)
           /\ \/ rpc'[t] = rpc[t]
              \/ rpc[t] # "idle"
              \/ Settled(t) /\ t \in registry
<1> DEFINE P == 
           /\ \/ ver'[t] = ver[t]
              \/ /\ ver'[t] = ver[t] + 1 /\ life[t] = "live" /\ Settled(t)
                 /\ LtChange(t) \/ LtFinished(t) \/ LtMoved(t)
           /\ \/ rpc'[t] = rpc[t]
              \/ rpc[t] # "idle"
              \/ Settled(t) /\ t \in registry
<1>1. rpc \in [Torrents -> CallStates] /\ ver \in [Torrents -> Nat]
  BY DEF TypeOK, CallsTypeOK, LtTypeOK
<1>2. CASE UNCHANGED <<ver, rpc>>
  BY <1>2
<1>3. CASE LibtorrentNext
  <2>1. UNCHANGED rpc
    BY <1>3 DEF LibtorrentNext, LtAdd, LtRemove, LtExpire, LtChange, LtFinished,
       LtMoved, LtAnswerSave, calls
  <2>2. ASSUME NEW u \in Torrents, LtChange(u) \/ LtFinished(u) \/ LtMoved(u)
        PROVE  P
    <3>1. ver' = [ver EXCEPT ![u] = @ + 1] /\ life[u] = "live" /\ Settled(u)
      BY <2>2 DEF LtChange, LtFinished, LtMoved
    <3>2. CASE u = t
      BY <1>1, <2>1, <2>2, <3>1, <3>2
    <3>3. CASE u # t
      BY <1>1, <2>1, <3>1, <3>3
    <3> QED
      BY <3>2, <3>3
  <2> QED
    BY <1>2, <1>3, <2>1, <2>2 DEF LibtorrentNext, LtAdd, LtRemove, LtExpire,
       LtAnswerSave
<1>4. CASE PumpNext
  <2>1. CASE HandleRemoved
    BY <1>1, <2>1 DEF HandleRemoved, Answer, ltVars
  <2> QED
    BY <1>2, <1>4, <2>1 DEF PumpNext, PumpPop, HandleAddFailed, HandleAdded,
       HandleSaveTrigger, RequestSave, HandleSaved, HandleSaveFailed, PumpSend,
       RetryTick, RetryDone, PumpStop, PumpAbort, RetryVisit, calls, ltVars
<1>5. CASE PersisterNext
  BY <1>2, <1>5 DEF PersisterNext, PersistRecv, PersistWrite, PersistDelete,
     PersistState, calls, ltVars
<1>6. CASE CallNext
  <2>1. ASSUME NEW u \in Torrents, RemoveCall(u) \/ RemoveGiveUp(u) PROVE P
    BY <1>1, <2>1 DEF RemoveCall, RemoveGiveUp, ltVars
  <2> QED
    BY <1>2, <1>6, <2>1 DEF CallNext, AddCall, AddRegister, AddEnqueue, AddSend,
       AddAcked, AddDelete, AddNacked, AddDrop, SaveCall, SaveGiveUp, Unwind, ltVars
<1>7. CASE SweepNext
  BY <1>2, <1>7 DEF SweepNext, SweepTick, SweepVisit, calls, ltVars
<1>8. CASE ShutdownNext
  BY <1>2, <1>8 DEF ShutdownNext, ShutdownStart, FlushStart, FlushWait, FlushEnd,
     StateSend, StateGiveUp, DropSender, PersisterEnd, FlushVisit, calls, ltVars
<1> QED
  BY <1>3, <1>4, <1>5, <1>6, <1>7, <1>8 DEF Next

LEMMA FreshStep ==
    ASSUME Accounting, EarlyInv, FreshInv, Next, {"race", "earlyRace"} \cap Env = {}
    PROVE  FreshInv'
<1> SUFFICES ASSUME NEW t \in Torrents, (apc[t] = "idle" \/ AddRunning(t))'
             PROVE  ver'[t] = 0 /\ rpc'[t] = "idle"
  BY DEF FreshInv
<1>1. TypeOK
  BY DEF Accounting
<1>2. apc[t] = "idle" \/ AddRunning(t)
  BY <1>1, AddStep
<1>3. ver[t] = 0 /\ rpc[t] = "idle"
  BY <1>2 DEF FreshInv
<1>4. ~(Settled(t) /\ (life[t] = "live" \/ t \in registry))
  BY <1>2 DEF Settled, EarlyInv
<1> QED
  BY <1>1, <1>3, <1>4, VerStep

\* What is in the session.
LEMMA InsideLives ==
    ASSUME RemovalInv, NEW t \in Torrents, Inside(t) \/ apc[t] = "resolved"
    PROVE  life[t] \in {"live", "removed", "gone"}
  BY DEF RemovalInv, SessionInv, EarlyInv, Handled

\* A torrent comes to life when libtorrent adds it.
LEMMA LiveStep ==
    ASSUME Accounting, TasksInv, Next, NEW t \in Torrents
    PROVE  /\ life'[t] = "live" => life[t] \in {"adding", "live"}
           /\ life'[t] = "live" /\ life[t] = "adding" => UNCHANGED apc
           /\ life'[t] = "adding" => life[t] = "adding" \/ apc'[t] = "posted"
           /\ life[t] = "failed" /\ apc[t] # "idle" => life'[t] = "failed"
<1> DEFINE P == 
           /\ life'[t] = "live" => life[t] \in {"adding", "live"}
           /\ life'[t] = "live" /\ life[t] = "adding" => UNCHANGED apc
           /\ life'[t] = "adding" => life[t] = "adding" \/ apc'[t] = "posted"
           /\ life[t] = "failed" /\ apc[t] # "idle" => life'[t] = "failed"
<1>1. life \in [Torrents -> Lives] /\ apc \in [Torrents -> AddStates]
  BY DEF Accounting, TypeOK, LtTypeOK, CallsTypeOK
<1>2. CASE UNCHANGED life
  BY <1>2
<1>3. CASE LibtorrentNext
  <2>1. UNCHANGED apc
    BY <1>3 DEF LibtorrentNext, LtAdd, LtRemove, LtExpire, LtChange, LtFinished,
       LtMoved, LtAnswerSave, calls
  <2> QED
    BY <1>1, <1>2, <1>3, <2>1 DEF LibtorrentNext, LtAdd, LtRemove, LtExpire, LtChange,
       LtFinished, LtMoved, LtAnswerSave
<1>4. CASE PumpNext
  BY <1>2, <1>4 DEF PumpNext, PumpPop, HandleAddFailed, HandleAdded, HandleRemoved,
     HandleSaveTrigger, RequestSave, HandleSaved, HandleSaveFailed, PumpSend,
     RetryTick, RetryDone, PumpStop, PumpAbort, RetryVisit, ltVars
<1>5. CASE PersisterNext
  BY <1>2, <1>5 DEF PersisterNext, PersistRecv, PersistWrite, PersistDelete,
     PersistState, ltVars
<1>6. CASE CallNext
  <2>1. ASSUME NEW u \in Torrents, AddCall(u) PROVE P
    BY <1>1, <2>1 DEF AddCall
  <2> QED
    BY <1>2, <1>6, <2>1 DEF CallNext, AddRegister, AddEnqueue, AddSend, AddAcked,
       AddDelete, AddNacked, AddDrop, RemoveCall, RemoveGiveUp, SaveCall, SaveGiveUp,
       Unwind, ltVars
<1>7. CASE SweepNext
  BY <1>2, <1>7 DEF SweepNext, SweepTick, SweepVisit, ltVars
<1>8. CASE ShutdownNext
  BY <1>2, <1>8 DEF ShutdownNext, ShutdownStart, FlushStart, FlushWait, FlushEnd,
     StateSend, StateGiveUp, DropSender, PersisterEnd, FlushVisit, ltVars
<1> QED
  BY <1>3, <1>4, <1>5, <1>6, <1>7, <1>8 DEF Next

LEMMA HandlesStep ==
    ASSUME Accounting, TasksInv, RemovalInv, HandlesInv, Next
    PROVE  HandlesInv'
<1> SUFFICES ASSUME NEW t \in Torrents, (Inside(t) \/ apc[t] = "resolved")',
                    life'[t] = "live"
             PROVE  t \in handles'
  BY DEF HandlesInv
<1>1. /\ apc \in [Torrents -> AddStates]
      /\ Inside(t) \/ apc[t] = "resolved" =>
           /\ life[t] \in {"live", "removed", "gone"}
           /\ life[t] = "live" => t \in handles
      /\ life[t] \in {"adding", "live"}
      /\ life[t] = "adding" => UNCHANGED apc
  BY InsideLives, LiveStep DEF HandlesInv, Accounting, TypeOK, CallsTypeOK
<1>2. CASE PumpPop
  <2>1. ~Announced("removed", t)
    BY <1>1 DEF Announced, RemovalInv, NewsInv, AlertPending, Mentions
  <2>2. /\ handles' = {u \in Torrents : /\ u \in handles \/ Announced("added", u)
                                        /\ ~Announced("removed", u)}
        /\ UNCHANGED life
        /\ \/ apc'[t] = apc[t]
           \/ apc'[t] = "err"
           \/ apc'[t] = "resolved" /\ Announced("added", t)
    BY <1>1, <1>2 DEF PumpPop
  <2>3. Inside(t) \/ apc[t] = "resolved" => life[t] = "live"
    BY <1>1, <2>2
  <2> QED
    BY <1>1, <2>1, <2>2, <2>3 DEF Inside
<1>3. CASE ~PumpPop
  <2>1. UNCHANGED handles
    <3>1. CASE LibtorrentNext \/ PersisterNext
      BY <3>1 DEF LibtorrentNext, LtAdd, LtRemove, LtExpire, LtChange, LtFinished,
         LtMoved, LtAnswerSave, PersisterNext, PersistRecv, PersistWrite,
         PersistDelete, PersistState, ltVars
    <3>2. CASE PumpNext
      BY <1>3, <3>2 DEF PumpNext, HandleAddFailed, HandleAdded, HandleRemoved,
         HandleSaveTrigger, RequestSave, HandleSaved, HandleSaveFailed, PumpSend,
         RetryTick, RetryDone, PumpStop, PumpAbort, RetryVisit, ltVars
    <3>3. CASE CallNext
      BY <3>3 DEF CallNext, AddCall, AddRegister, AddEnqueue, AddSend, AddAcked,
         AddDelete, AddNacked, AddDrop, RemoveCall, RemoveGiveUp, SaveCall,
         SaveGiveUp, ltVars
    <3>4. CASE SweepNext \/ ShutdownNext
      BY <3>4 DEF SweepNext, SweepTick, SweepVisit, ShutdownNext, ShutdownStart,
         FlushStart, FlushWait, FlushEnd, StateSend, StateGiveUp, DropSender,
         PersisterEnd, FlushVisit, ltVars
    <3> QED
      BY <3>1, <3>2, <3>3, <3>4 DEF Next
  <2>2. Inside(t) \/ apc[t] = "resolved"
    <3>1. CASE Inside(t)'
      BY <3>1, InsideStep DEF RemovalInv
    <3>2. CASE apc'[t] = "resolved"
      BY <1>1, <1>3, <3>2, OnlyPopResolves DEF Accounting, RemovalInv
    <3> QED
      BY <3>1, <3>2
  <2> QED
    BY <1>1, <2>1, <2>2
<1> QED
  BY <1>2, <1>3

\* What is announced was pending, or is queued in this step.
LEMMA PendingStep ==
    ASSUME Accounting, TasksInv, Next, NEW kinds, NEW t \in Torrents,
           Mentions(alerts', kinds, t) \/ Mentions(batch', kinds, t)
    PROVE  \/ AlertPending(kinds, t)
           \/ \E a \in Alert :
                /\ Is(a, kinds, t)
                /\ a.kind = "addFailed" => life' = [life EXCEPT ![a.t] = "failed"]
                /\ a.kind = "moved" => "moved" \in Env
                /\ a.kind \in {"finished", "moved"} =>
                     Settled(a.t) /\ life[a.t] = "live"
                /\ a.kind = "saved" => \E p \in posted : p.t = a.t
<1> USE DEF AlertPending
<1>1. AlertFlow
  BY AlertFlowStep
<1>2. CASE UNCHANGED <<alerts, batch>>
  BY <1>2
<1>3. CASE AlertQueued
  <2>1. PICK a \in Alert :
          /\ alerts' = Append(alerts, a) /\ UNCHANGED batch
          /\ a.kind = "addFailed" => life' = [life EXCEPT ![a.t] = "failed"]
          /\ a.kind = "moved" => "moved" \in Env
          /\ a.kind \in {"finished", "moved"} => Settled(a.t) /\ life[a.t] = "live"
          /\ a.kind = "saved" => \E p \in posted : p.t = a.t
    BY <1>3 DEF AlertQueued
  <2>2. Mentions(Append(alerts, a), kinds, t) <=>
          Mentions(alerts, kinds, t) \/ Is(a, kinds, t)
    BY HeadFacts, MentionsAppend
  <2> QED
    BY <2>1, <2>2
<1>4. CASE PumpPop /\ batch = <<>>
  BY <1>4, MentionsEmpty DEF PumpPop
<1>5. CASE AlertHandled
  <2>1. /\ batch # <<>> /\ batch' = Tail(batch) /\ UNCHANGED alerts
    BY <1>5 DEF AlertHandled
  <2>2. Mentions(Tail(batch), kinds, t) => Mentions(batch, kinds, t)
    BY <2>1, HeadFacts, MentionsTail
  <2> QED
    BY <2>1, <2>2
<1> QED
  BY <1>1, <1>2, <1>3, <1>4, <1>5 DEF AlertFlow

\* An add fails when libtorrent refused it, when the torrent is gone before it
\* is registered, and when it is unwound.
LEMMA ErrStep ==
    ASSUME TypeOK, Next, NEW t \in Torrents, apc'[t] = "err"
    PROVE  \/ apc[t] = "err"
           \/ /\ UNCHANGED <<life, sd>>
              /\ \/ Announced("addFailed", t)
                 \/ life[t] = "gone"
                 \/ Inside(t) /\ (SessionOpen /\ t \in handles => t \in rmPosted')
<1> DEFINE P ==
      \/ apc[t] = "err"
      \/ /\ UNCHANGED <<life, sd>>
         /\ \/ Announced("addFailed", t)
            \/ life[t] = "gone"
            \/ Inside(t) /\ (SessionOpen /\ t \in handles => t \in rmPosted')
<1>1. apc \in [Torrents -> AddStates]
  BY DEF TypeOK, CallsTypeOK
<1>2. CASE UNCHANGED apc
  BY <1>2
<1>3. CASE PumpNext
  <2>1. CASE PumpPop
    BY <1>1, <2>1 DEF PumpPop, shutVars
  <2> QED
    BY <1>2, <1>3, <2>1 DEF PumpNext, HandleAddFailed, HandleAdded, HandleRemoved,
       HandleSaveTrigger, RequestSave, HandleSaved, HandleSaveFailed, PumpSend,
       RetryTick, RetryDone, PumpStop, PumpAbort, RetryVisit, calls
<1>4. CASE PersisterNext
  <2>1. CASE PersistWrite
    BY <1>1, <2>1 DEF PersistWrite
  <2> QED
    BY <1>2, <1>4, <2>1 DEF PersisterNext, PersistRecv, PersistDelete, PersistState,
       calls
<1>5. CASE CallNext
  <2> SUFFICES ASSUME NEW u \in Torrents,
                      \/ AddCall(u) \/ AddRegister(u) \/ AddEnqueue(u)
                      \/ AddSend(u) \/ AddAcked(u) \/ AddDelete(u)
                      \/ AddNacked(u) \/ AddDrop(u) \/ RemoveCall(u)
                      \/ RemoveGiveUp(u) \/ SaveCall(u) \/ SaveGiveUp(u)
               PROVE  P
    BY <1>5 DEF CallNext
  <2>1. CASE AddRegister(u)
    BY <1>1, <2>1 DEF AddRegister, ltVars, shutVars
  <2>2. CASE AddEnqueue(u)
    BY <1>1, <2>2 DEF AddEnqueue, Unwind, shutVars, Inside
  <2>3. CASE AddNacked(u)
    BY <1>1, <2>3 DEF AddNacked, Unwind, shutVars, Inside
  <2>4. CASE AddCall(u) \/ AddSend(u) \/ AddAcked(u) \/ AddDelete(u) \/ AddDrop(u)
    BY <1>1, <2>4 DEF AddCall, AddSend, AddAcked, AddDelete, AddDrop
  <2>5. CASE RemoveCall(u) \/ RemoveGiveUp(u) \/ SaveCall(u) \/ SaveGiveUp(u)
    BY <1>2, <2>5 DEF RemoveCall, RemoveGiveUp, SaveCall, SaveGiveUp
  <2> QED
    BY <2>1, <2>2, <2>3, <2>4, <2>5
<1>6. CASE LibtorrentNext \/ SweepNext \/ ShutdownNext
  BY <1>2, <1>6 DEF LibtorrentNext, LtAdd, LtRemove, LtExpire, LtChange, LtFinished,
     LtMoved, LtAnswerSave, SweepNext, SweepTick, SweepVisit, ShutdownNext,
     ShutdownStart, FlushStart, FlushWait, FlushEnd, StateSend, StateGiveUp,
     DropSender, PersisterEnd, FlushVisit, calls
<1> QED
  BY <1>3, <1>4, <1>5, <1>6 DEF Next

\* A posted removal is performed, and leaves no live torrent.
LEMMA PostedStep ==
    ASSUME TypeOK, Next, NEW t \in Torrents, t \in rmPosted, life'[t] = "live"
    PROVE  t \in rmPosted'
<1>1. life \in [Torrents -> Lives]
  BY DEF TypeOK, LtTypeOK
<1>2. CASE rmPosted \subseteq rmPosted'
  BY <1>2
<1>3. ASSUME NEW u \in Torrents, LtRemove(u) PROVE t \in rmPosted'
  BY <1>1, <1>3 DEF LtRemove
<1>4. CASE LibtorrentNext
  BY <1>2, <1>3, <1>4 DEF LibtorrentNext, LtAdd, LtExpire, LtChange, LtFinished,
     LtMoved, LtAnswerSave
<1>5. CASE PumpNext \/ PersisterNext
  BY <1>2, <1>5 DEF PumpNext, PumpPop, HandleAddFailed, HandleAdded, HandleRemoved,
     HandleSaveTrigger, RequestSave, HandleSaved, HandleSaveFailed, PumpSend,
     RetryTick, RetryDone, PumpStop, PumpAbort, RetryVisit, PersisterNext,
     PersistRecv, PersistWrite, PersistDelete, PersistState, ltVars
<1>6. CASE CallNext
  BY <1>2, <1>6 DEF CallNext, AddCall, AddRegister, AddEnqueue, AddSend, AddAcked,
     AddDelete, AddNacked, AddDrop, RemoveCall, RemoveGiveUp, SaveCall, SaveGiveUp,
     Unwind, ltVars
<1>7. CASE SweepNext \/ ShutdownNext
  BY <1>2, <1>7 DEF SweepNext, SweepTick, SweepVisit, ShutdownNext, ShutdownStart,
     FlushStart, FlushWait, FlushEnd, StateSend, StateGiveUp, DropSender,
     PersisterEnd, FlushVisit, ltVars
<1> QED
  BY <1>4, <1>5, <1>6, <1>7 DEF Next

\* The shutdown goes one way, and the pump is not aborted before the session
\* is closed.
LEMMA PhaseStep ==
    ASSUME Next
    PROVE  /\ sd' # "run" => sd # "run" \/ "shutdown" \in Env
           /\ SessionOpen' => SessionOpen /\ ~PumpAbort
<1> USE DEF SessionOpen
<1>1. CASE UNCHANGED sd /\ ~PumpAbort
  BY <1>1
<1>2. CASE LibtorrentNext
  <2>1. LibtorrentNext => UNCHANGED sd
    BY DEF LibtorrentNext, LtAdd, LtRemove, LtExpire, LtChange, LtFinished, LtMoved,
       LtAnswerSave, shutVars
  <2>2. PumpAbort => sd \notin {"run"} /\ ~SessionOpen /\ UNCHANGED sd
    BY DEF PumpAbort, shutVars
  <2> QED
    BY <1>2, <2>1, <2>2
<1>3. CASE PumpNext
  BY <1>3 DEF PumpNext, PumpPop, HandleAddFailed, HandleAdded, HandleRemoved,
     HandleSaveTrigger, RequestSave, HandleSaved, HandleSaveFailed, PumpSend,
     RetryTick, RetryDone, PumpStop, PumpAbort, RetryVisit, shutVars
<1>4. CASE PersisterNext
  BY <1>4 DEF PersisterNext, PersistRecv, PersistWrite, PersistDelete, PersistState,
     shutVars, PumpAbort
<1>5. CASE CallNext
  BY <1>5 DEF CallNext, AddCall, AddRegister, AddEnqueue, AddSend, AddAcked,
     AddDelete, AddNacked, AddDrop, RemoveCall, RemoveGiveUp, SaveCall, SaveGiveUp,
     Unwind, shutVars, PumpAbort
<1>6. CASE SweepNext \/ ShutdownNext
  BY <1>6 DEF SweepNext, SweepTick, SweepVisit, ShutdownNext, ShutdownStart,
     FlushStart, FlushWait, FlushEnd, StateSend, StateGiveUp, DropSender,
     PersisterEnd, FlushVisit, shutVars, PumpAbort
<1> QED
  BY <1>2, <1>3, <1>4, <1>5, <1>6 DEF Next

LEMMA FailedStep ==
    ASSUME Accounting, TasksInv, RemovalInv, HandlesInv, FailedInv, Next
    PROVE  FailedInv'
<1> SUFFICES ASSUME NEW t \in Torrents
             PROVE  /\ AlertPending({"addFailed"}, t)' => life'[t] = "failed"
                    /\ apc'[t] = "err" => life'[t] # "adding"
                    /\ apc'[t] = "err" /\ life'[t] = "live" /\ SessionOpen'
                         => t \in rmPosted'
  BY DEF FailedInv
<1>1. /\ AlertPending({"addFailed"}, t) => life[t] = "failed"
      /\ apc[t] = "err" => life[t] # "adding"
      /\ apc[t] = "err" /\ life[t] = "live" /\ SessionOpen => t \in rmPosted
      /\ apc[t] = "idle" => life[t] = "none"
      /\ life \in [Torrents -> Lives]
      /\ TypeOK
  BY DEF FailedInv, RemovalInv, EarlyInv, Accounting, TypeOK, LtTypeOK
<1>2. AlertPending({"addFailed"}, t)' => life'[t] = "failed"
  <2> SUFFICES ASSUME Mentions(alerts', {"addFailed"}, t)
                        \/ Mentions(batch', {"addFailed"}, t)
               PROVE  life'[t] = "failed"
    BY DEF AlertPending
  <2>1. CASE AlertPending({"addFailed"}, t)
    BY <1>1, <2>1, LiveStep
  <2>2. CASE \E a \in Alert :
               /\ Is(a, {"addFailed"}, t)
               /\ a.kind = "addFailed" => life' = [life EXCEPT ![a.t] = "failed"]
    BY <1>1, <2>2 DEF Is
  <2> QED
    BY <2>1, <2>2, PendingStep
<1>3. Announced("addFailed", t) => life[t] = "failed"
  BY <1>1 DEF AlertPending, Announced, Mentions
<1>4. apc'[t] = "err" /\ apc[t] # "err" =>
        /\ life'[t] = life[t] /\ sd' = sd
        /\ \/ life[t] \in {"failed", "gone"}
           \/ /\ life[t] \in {"live", "removed", "gone"}
              /\ life[t] = "live" => t \in handles
              /\ SessionOpen /\ t \in handles => t \in rmPosted'
  BY <1>1, <1>3, ErrStep, InsideLives DEF HandlesInv
<1>5. apc'[t] = "err" => life'[t] # "adding"
  BY <1>1, <1>4, LiveStep
<1>6. ASSUME apc'[t] = "err", life'[t] = "live", SessionOpen'
      PROVE  t \in rmPosted'
  <2>1. SessionOpen
    BY <1>6, PhaseStep
  <2>2. CASE apc[t] = "err"
    <3>1. life[t] = "live"
      BY <1>1, <1>6, <2>2, LiveStep
    <3> QED
      BY <1>1, <1>6, <2>1, <2>2, <3>1, PostedStep
  <2>3. CASE apc[t] # "err"
    BY <1>4, <1>6, <2>1, <2>3
  <2> QED
    BY <2>2, <2>3
<1> QED
  BY <1>2, <1>5, <1>6

LEMMA MovedStep ==
    ASSUME Accounting, TasksInv, MovedInv, Next
    PROVE  MovedInv'
<1>1. sd' # "run" => "shutdown" \in Env
  BY PhaseStep DEF MovedInv
<1>2. ASSUME NEW t \in Torrents,
             Mentions(alerts', {"moved"}, t) \/ Mentions(batch', {"moved"}, t)
      PROVE  "moved" \in Env
  BY <1>2, PendingStep DEF MovedInv, Is
<1> QED
  BY <1>1, <1>2 DEF MovedInv, AlertPending

\* The need-save flag is cleared by the answer that carries the record.
LEMMA NeedStep ==
    ASSUME Accounting, Next, NEW t \in Torrents, t \in need
    PROVE  t \in need' \/ Ends(alerts', {"saved"}, t, ver[t])
<1>1. CASE need \subseteq need'
  BY <1>1
<1>2. ASSUME NEW p \in posted, LtAnswerSave(p), t \notin need'
      PROVE  Ends(alerts', {"saved"}, t, ver[t])
  <2>1. p.t \in Torrents /\ p.id \in Tokens /\ ver[p.t] \in Int
    BY DEF Accounting, TypeOK, LtTypeOK, SaveRequest
  <2> DEFINE a == [kind |-> "saved", t |-> p.t, id |-> p.id, v |-> ver[p.t]]
  <2>2. p.t = t /\ alerts' = Append(alerts, a)
    BY <1>2 DEF LtAnswerSave
  <2>3. a \in Alert
    BY <2>1, Entries
  <2>4. Is(a, {"saved"}, t) /\ a.v >= ver[t]
    BY <2>1, <2>2 DEF Is
  <2> HIDE DEF a
  <2> QED
    BY <2>2, <2>3, <2>4, HeadFacts, EndsAppend
<1>3. CASE LibtorrentNext
  BY <1>1, <1>2, <1>3 DEF LibtorrentNext, LtAdd, LtRemove, LtExpire, LtChange,
     LtFinished, LtMoved
<1>4. CASE PumpNext \/ PersisterNext
  BY <1>1, <1>4 DEF PumpNext, PumpPop, HandleAddFailed, HandleAdded, HandleRemoved,
     HandleSaveTrigger, RequestSave, HandleSaved, HandleSaveFailed, PumpSend,
     RetryTick, RetryDone, PumpStop, PumpAbort, RetryVisit, PersisterNext,
     PersistRecv, PersistWrite, PersistDelete, PersistState, ltVars
<1>5. CASE CallNext
  BY <1>1, <1>5 DEF CallNext, AddCall, AddRegister, AddEnqueue, AddSend, AddAcked,
     AddDelete, AddNacked, AddDrop, RemoveCall, RemoveGiveUp, SaveCall, SaveGiveUp,
     ltVars
<1>6. CASE SweepNext \/ ShutdownNext
  BY <1>1, <1>6 DEF SweepNext, SweepTick, SweepVisit, ShutdownNext, ShutdownStart,
     FlushStart, FlushWait, FlushEnd, StateSend, StateGiveUp, DropSender,
     PersisterEnd, FlushVisit, ltVars
<1> QED
  BY <1>3, <1>4, <1>5, <1>6 DEF Next

\* A moved alert leads to a save, unless the shutdown has started.
LEMMA MovedKept ==
    ASSUME Accounting, TasksInv, Next, NEW t \in Torrents,
           AlertPending({"moved"}, t)
    PROVE  \/ Mentions(alerts', {"moved"}, t) \/ Mentions(batch', {"moved"}, t)
           \/ Quiesced
           \/ RequestSave /\ Head(batch).t = t
<1> DEFINE P ==
           \/ Mentions(alerts', {"moved"}, t) \/ Mentions(batch', {"moved"}, t)
           \/ Quiesced
           \/ RequestSave /\ Head(batch).t = t
<1> USE DEF AlertPending
<1>1. CASE UNCHANGED <<alerts, batch>>
  BY <1>1
<1>2. CASE AlertQueued
  <2>1. PICK a \in Alert : alerts' = Append(alerts, a) /\ UNCHANGED batch
    BY <1>2 DEF AlertQueued
  <2> QED
    BY <2>1, HeadFacts, MentionsAppend
<1>3. CASE PumpPop /\ batch = <<>>
  BY <1>3, MentionsEmpty DEF PumpPop
<1>4. ASSUME batch # <<>>, batch' = Tail(batch), UNCHANGED alerts,
             Head(batch).kind # "moved" \/ Head(batch).t # t
      PROVE  P
  <2>1. Mentions(batch, {"moved"}, t) <=>
          Is(Head(batch), {"moved"}, t) \/ Mentions(Tail(batch), {"moved"}, t)
    BY <1>4, HeadFacts, MentionsTail
  <2>2. ~Is(Head(batch), {"moved"}, t)
    BY <1>4 DEF Is
  <2> QED
    BY <1>4, <2>1, <2>2
<1>5. CASE AlertHandled
  <2>1. batch # <<>> /\ batch' = Tail(batch) /\ UNCHANGED alerts
    BY <1>5 DEF AlertHandled
  <2>2. CASE Head(batch).kind # "moved" \/ Head(batch).t # t
    BY <1>4, <2>1, <2>2
  <2>3. CASE Head(batch).kind = "moved" /\ Head(batch).t = t
    <3>1. batch' # batch
      <4>1. Len(Tail(batch)) = Len(batch) - 1 /\ Len(batch) \in Nat
        BY <2>1, HeadFacts
      <4>2. Len(batch) # Len(batch) - 1
        BY <4>1
      <4> QED
        BY <2>1, <4>1, <4>2
    <3>2. PumpNext
      <4>1. CASE LibtorrentNext \/ PersisterNext
        BY <3>1, <4>1 DEF LibtorrentNext, LtAdd, LtRemove, LtExpire, LtChange,
           LtFinished, LtMoved, LtAnswerSave, PersisterNext, PersistRecv, PersistWrite,
           PersistDelete, PersistState, pumpVars
      <4>2. CASE CallNext
        BY <3>1, <4>2 DEF CallNext, AddCall, AddRegister, AddEnqueue, AddSend, AddAcked,
           AddDelete, AddNacked, AddDrop, RemoveCall, RemoveGiveUp, SaveCall,
           SaveGiveUp, pumpVars
      <4>3. CASE SweepNext \/ ShutdownNext
        BY <3>1, <4>3 DEF SweepNext, SweepTick, SweepVisit, ShutdownNext, ShutdownStart,
           FlushStart, FlushWait, FlushEnd, StateSend, StateGiveUp, DropSender,
           PersisterEnd, FlushVisit, pumpVars
      <4> QED
        BY <4>1, <4>2, <4>3 DEF Next
    <3>3. ~(HandleAddFailed \/ HandleAdded \/ HandleRemoved \/ HandleSaved
              \/ HandleSaveFailed)
      BY <2>3 DEF HandleAddFailed, HandleAdded, HandleRemoved, HandleSaved,
         HandleSaveFailed, Consume
    <3>4. HandleSaveTrigger => Quiesced
      BY <3>1 DEF HandleSaveTrigger
    <3>5. ~PumpPop
      BY <2>1 DEF PumpPop, TasksInv
    <3>6. ~(PumpSend \/ RetryTick \/ RetryDone \/ PumpStop \/ PumpAbort
              \/ \E u \in Torrents : RetryVisit(u))
      BY <3>1 DEF PumpSend, RetryTick, RetryDone, PumpStop, PumpAbort, RetryVisit
    <3> QED
      BY <2>3, <3>2, <3>3, <3>4, <3>5, <3>6 DEF PumpNext
  <2> QED
    BY <2>2, <2>3
<1> QED
  BY <1>1, <1>2, <1>3, <1>5, AlertFlowStep DEF AlertFlow

\* With no version under way below zero, everything reaches version zero.
LEMMA AllReachZero ==
    ASSUME Accounting, VersionsInv, NEW t \in Torrents, disk[t] # NoFile
    PROVE  Reaches(t, 0, FALSE) /\ (t \notin dirty => Reaches(t, 0, TRUE))
<1>1. disk[t] >= 0
  <2>1. disk[t] \in Int /\ disk[t] >= -1 /\ disk[t] # -1
    BY DEF VersionsInv, NoFile, Accounting, TypeOK, SharedTypeOK
  <2>2. \A n \in Int : n >= -1 /\ n # -1 => n >= 0
    OBVIOUS
  <2> QED
    BY <2>1, <2>2
<1>2. \A s, kinds : Mentions(s, kinds, t) /\ Within(s, kinds, ver)
        => Ends(s, kinds, t, 0)
  BY EndsAll DEF Within, Is
<1> QED
  BY <1>1, <1>2 DEF Reaches, Then, OnDisk, VersionsInv

LEMMA ChangeStep ==
    ASSUME Accounting, AskedFirst, RemovalInv, FreshInv, HandlesInv, MovedInv,
           ChangeInv, Next, Undisturbed
    PROVE  ChangeInv'
<1> SUFFICES ASSUME NEW t \in Torrents, SessionOpen', life'[t] = "live",
                    apc'[t] \in {"ok", "restored"}
             PROVE  \/ t \in need'
                    \/ Mentions(alerts', {"moved"}, t)
                    \/ Mentions(batch', {"moved"}, t)
                    \/ Covers(t, ver[t], FALSE)'
  BY DEF ChangeInv, AlertPending
<1>0. ASSUME NEW n \in Int, n = ver'[t], Covers(t, n, FALSE)'
      PROVE  Covers(t, ver[t], FALSE)'
  BY <1>0 DEF Covers, AlwaysPosted, Reaches, Then, OnDisk, Ends
<1>1. TypeOK /\ TasksInv /\ VersionsInv /\ ver[t] \in Nat
  BY DEF Accounting, AskedFirst, TypeOK, LtTypeOK
<1>2. SessionOpen /\ ~PumpAbort
  BY PhaseStep
<1>3. \/ apc[t] \in {"ok", "restored"}
      \/ apc[t] = "acked" /\ AddAcked(t)
  <2>1. apc[t] # "deleting"
    <3>1. life[t] \in {"adding", "live"}
      BY <1>1, LiveStep
    <3> QED
      BY <3>1 DEF RemovalInv, SessionInv, Inside, Handled
  <2> QED
    BY <1>1, <2>1, AddStep
<1>4. life[t] = "live"
  <2>1. life[t] \in {"adding", "live"}
    BY <1>1, LiveStep
  <2> QED
    BY <1>3, <2>1, InsideLives DEF Inside
<1>5. CASE apc[t] = "acked" /\ AddAcked(t)
  <2>1. ver[t] = 0 /\ rpc[t] = "idle"
    BY <1>5 DEF FreshInv, AddRunning
  <2>2. disk[t] # NoFile
    BY <1>5, <2>1 DEF AskedFirst, StoredInv, Asked
  <2>3. Reaches(t, 0, FALSE)
    BY <1>1, <2>2, AllReachZero
  <2>4. UNCHANGED <<alerts, batch, ops, queue, current, dirty, disk, ver, posted>>
    BY <1>5 DEF AddAcked, ltVars, shared, pumpVars
  <2>5. Covers(t, 0, FALSE)'
    BY <2>3, <2>4 DEF Covers, Reaches, Then, OnDisk, Ends
  <2>6. 0 \in Int /\ 0 = ver'[t]
    BY <2>1, <2>4
  <2> QED
    BY <1>0, <2>5, <2>6
<1>6. CASE apc[t] \in {"ok", "restored"}
  <2>1. CASE ver'[t] = ver[t]
    <3>0. PICK n \in Int : n = ver[t] /\ n <= ver[t]
      BY <1>1
    <3>1. CASE t \in need
      <4>1. CASE Ends(alerts', {"saved"}, t, ver[t])
        <5>1. Ends(alerts', {"saved"}, t, n)
          BY <3>0, <4>1
        <5>2. Covers(t, n, FALSE)'
          BY <5>1 DEF Covers, Reaches, Then, OnDisk, Ends
        <5> QED
          BY <1>0, <2>1, <3>0, <5>2
      <4> QED
        BY <3>1, <4>1, NeedStep
    <3>2. CASE AlertPending({"moved"}, t)
      <4>1. ~Quiesced
        BY <3>2 DEF MovedInv, Undisturbed, Quiesced
      <4>2. ASSUME RequestSave, Head(batch).t = t PROVE AlwaysPosted(t)'
        <5>1. t \in registry /\ t \in handles /\ Accepted(t)
          BY <1>4, <1>6, LiveFacts DEF Accepted
        <5>2. PostSave(t, "always")
          BY <4>2, <5>1 DEF RequestSave, TriggerFlag
        <5>3. PICK id \in Tokens :
                posted' = posted \cup {[t |-> t, id |-> id, flag |-> "always"]}
          BY <5>2 DEF PostSave
        <5> DEFINE p == [t |-> t, id |-> id, flag |-> "always"]
        <5>4. p \in posted' /\ p.t = t /\ p.flag = "always"
          BY <5>3
        <5> QED
          BY <5>4 DEF AlwaysPosted
      <4>3. CASE RequestSave /\ Head(batch).t = t
        <5>1. Covers(t, n, FALSE)'
          BY <4>2, <4>3 DEF Covers
        <5> QED
          BY <1>0, <2>1, <3>0, <5>1
      <4> QED
        BY <1>1, <3>2, <4>1, <4>3, MovedKept
    <3>3. CASE Covers(t, ver[t], FALSE)
      <4>1. Covers(t, n, FALSE)
        BY <3>0, <3>3
      <4>2. Covers(t, n, FALSE)'
        BY <1>1, <1>2, <1>4, <1>6, <3>0, <4>1, CoversStep DEF Undisturbed
      <4> QED
        BY <1>0, <2>1, <3>0, <4>2
    <3> QED
      BY <1>2, <1>4, <1>6, <3>1, <3>2, <3>3 DEF ChangeInv
  <2>2. CASE LtChange(t) \/ LtFinished(t)
    BY <2>2 DEF LtChange, LtFinished
  <2>3. CASE LtMoved(t)
    <3> DEFINE a == PlainAlert("moved", t)
    <3>1. alerts' = Append(alerts, a) /\ a \in Alert /\ Is(a, {"moved"}, t)
      BY <2>3, Entries DEF LtMoved, AlertKinds, PlainAlert, Is
    <3> HIDE DEF a
    <3> QED
      BY <3>1, HeadFacts, MentionsAppend
  <2> QED
    BY <1>1, <2>1, <2>2, <2>3, VerStep
<1> QED
  BY <1>3, <1>5, <1>6

ChangesInv == FreshInv /\ HandlesInv /\ FailedInv /\ MovedInv /\ ChangeInv

LEMMA ChangesInit == Init => ChangesInv
<1> SUFFICES ASSUME Init PROVE ChangesInv
  OBVIOUS
<1>1. FreshInv /\ HandlesInv
  BY DEF Init, FreshInv, HandlesInv, AddRunning, Inside
<1>2. FailedInv /\ MovedInv
  BY MentionsEmpty DEF Init, FailedInv, MovedInv, AlertPending
<1>3. ChangeInv
  <2> SUFFICES ASSUME NEW t \in Torrents, life[t] = "live"
               PROVE  Covers(t, ver[t], FALSE)
    BY DEF ChangeInv
  <2>1. ver[t] = 0 /\ disk[t] = 0
    BY DEF Init
  <2>2. disk[t] >= ver[t]
    BY <2>1
  <2>3. alerts = <<>> /\ batch = <<>> /\ ops = <<>> /\ queue = <<>> /\ current = <<>>
    BY DEF Init
  <2> QED
    BY <2>2, <2>3, MentionsEmpty DEF Covers, Reaches, Then, OnDisk
<1> QED
  BY <1>1, <1>2, <1>3 DEF ChangesInv

\* The inductive invariant: while the session is open, every version of a
\* torrent that the calls have handed over to the engine is flagged, announced
\* by an alert that triggers a save, or covered by the records under way.
THEOREM ChangeInvariant ==
    ASSUME Undisturbed
    PROVE  Spec => [](Accounting /\ AskedFirst /\ RemovalInv /\ ChangesInv)
<1> DEFINE I == Accounting /\ AskedFirst /\ RemovalInv
<1>1. {"race", "earlyRace"} \cap Env = {} /\ "earlyRace" \notin Env
  BY DEF Undisturbed
<1>2. Init => ChangesInv
  BY ChangesInit
<1>3. I /\ ChangesInv /\ [Next]_vars => ChangesInv'
  <2> SUFFICES ASSUME I, ChangesInv, [Next]_vars PROVE ChangesInv'
    OBVIOUS
  <2>1. CASE Next
    <3>1. TasksInv /\ EarlyInv
      BY DEF AskedFirst, RemovalInv
    <3> QED
      BY <1>1, <2>1, <3>1, FreshStep, HandlesStep, FailedStep, MovedStep, ChangeStep
         DEF ChangesInv
  <2>2. CASE UNCHANGED vars
    BY <2>2 DEF vars, ltVars, shared, pumpVars, calls, shutVars, history, observed,
       ChangesInv, FreshInv, HandlesInv, FailedInv, MovedInv, ChangeInv, AddRunning,
       Inside, AlertPending, Mentions, SessionOpen, Covers, AlwaysPosted, Reaches,
       Then, OnDisk, Ends, Is
  <2> QED
    BY <2>1, <2>2
<1>4. Spec => []I
  BY <1>1, RemovalInvariant
<1> QED
  BY <1>2, <1>3, <1>4, PTL DEF Spec

\* No change is forgotten while the engine runs: a registered torrent whose
\* file is older than it is has its need-save flag set, is marked dirty, or has
\* a save, or an alert that triggers one, on its way.
THEOREM NoChangeIsForgotten ==
    ASSUME Undisturbed
    PROVE  Spec => []NoChangeForgotten
<1>1. Accounting /\ AskedFirst /\ RemovalInv /\ ChangesInv => NoChangeForgotten
  <2> SUFFICES ASSUME Accounting, AskedFirst, RemovalInv, ChangesInv,
                      NEW t \in registry \cap handles,
                      sd \in {"run", "quiesced"}, life[t] = "live",
                      disk[t] < ver[t],
                      t \notin need, t \notin dirty, ~AddRunning(t),
                      apc[t] # "dropped", t \notin rmPosted, ~Outstanding(t)
               PROVE  AlertPending({"finished", "moved"}, t)
    BY DEF NoChangeForgotten
  <2>1. /\ t \in Torrents /\ apc[t] \in AddStates
        /\ ver[t] \in Int /\ disk[t] \in Int
    BY DEF Accounting, TypeOK, LtTypeOK, SharedTypeOK, CallsTypeOK
  <2>2. SessionOpen
    BY DEF SessionOpen
  <2>3. apc[t] \in {"ok", "restored"}
    BY <2>1, <2>2 DEF AddStates, AddRunning, ChangesInv, FailedInv, RemovalInv,
       EarlyInv
  <2>4. ~Covers(t, ver[t], FALSE)
    <3>1. ~AlwaysPosted(t)
      BY DEF Outstanding, AlwaysPosted
    <3>2. ~(disk[t] >= ver[t])
      BY <2>1
    <3>3. /\ ~Mentions(alerts, {"saved"}, t) /\ ~Mentions(batch, {"saved"}, t)
          /\ ~Mentions(ops, {"write"}, t) /\ ~Mentions(queue, {"write"}, t)
          /\ ~Mentions(current, {"write"}, t)
      BY DEF Outstanding, AlertPending, OpPending, Mentions
    <3> QED
      BY <3>1, <3>2, <3>3, EndsMentions DEF Covers, Reaches, Then, OnDisk
  <2>5. AlertPending({"moved"}, t)
    BY <2>1, <2>2, <2>3, <2>4 DEF ChangesInv, ChangeInv
  <2> QED
    BY <2>5 DEF AlertPending, Mentions
<1> QED
  BY <1>1, ChangeInvariant, PTL

(***************************************************************************)
(* Fourth part: a flush that drained has saved what it saw.                *)
(***************************************************************************)
Flushing == sd \notin {"run", "quiesced"}

\* No task has a save of t under way or is about to ask for one.  The record
\* that acknowledges an add is not such a save.
Unsaved(t) ==
    /\ t \notin dirty /\ t \notin todo
    /\ \A p \in posted : p.t # t
    /\ ~AlertPending({"saved"}, t) /\ ~Mentions(ops, {"write"}, t)
    /\ pc = "save" => Head(batch).t # t

\* What is queued or being written of t is the record of its add, once.
Single(s, t) ==
    /\ \A i \in 1 .. Len(s) : Is(s[i], {"write"}, t) => s[i].ack = "add"
    /\ \A i, j \in 1 .. Len(s) :
         Is(s[i], {"write"}, t) /\ Is(s[j], {"write"}, t) => i = j

AddRecord(t) ==
    /\ Single(queue, t) /\ Single(current, t)
    /\ Mentions(current, {"write"}, t) => ~Mentions(queue, {"write"}, t)
    /\ apc[t] # "acking" =>
         ~Mentions(queue, {"write"}, t) /\ ~Mentions(current, {"write"}, t)

\* The add of t is not finished, and its record did not fail.
Young(t) == apc[t] = "idle" \/ (AddRunning(t) /\ apc[t] # "nacked")

YoungInv ==
    \A t \in Torrents : Young(t) =>
        /\ Unsaved(t) /\ AddRecord(t) /\ t \notin need
        /\ ~AlertPending({"finished", "moved"}, t)

\* Its add has returned and it is in the session.
Present(t) == life[t] = "live" /\ apc[t] \in {"ok", "restored"}

PhaseInv ==
    /\ ~Flushing => \A t \in Torrents : flushVer[t] = NoFile
    /\ Flushing => sweepTodo = {}
    /\ sd \in {"run", "quiesced", "flush", "wait"} => flushed = "no"
    /\ sd \notin {"run", "quiesced", "flush"} => ckTodo = {}
    /\ \A t \in Torrents : NoFile <= flushVer[t] /\ flushVer[t] <= ver[t]

\* The flush did not see t, because its add returned too late for it.
Missed(t) ==
    Flushing /\ Present(t) /\ t \notin ckTodo /\ flushVer[t] = NoFile

MissedInv ==
    \A t \in Torrents : Missed(t) =>
        /\ Unsaved(t)
        /\ ~Mentions(queue, {"write"}, t) /\ ~Mentions(current, {"write"}, t)

\* The flush saw t, and no write of it has failed since.
Seen(t) == Present(t) /\ flushVer[t] # NoFile /\ t \notin flushFailed

\* What the flush saw reaches the disk, and leaves no dirty mark.
SeenInv ==
    \A t \in Torrents :
        SessionOpen /\ Seen(t) => Covers(t, flushVer[t], TRUE)

AtLeast(s, kinds, t, n) ==
    \A i \in 1 .. Len(s) : Is(s[i], kinds, t) => s[i].v >= n

\* No version of t older than n is on disk or under way.
Kept(t, n) ==
    /\ t \notin dirty /\ disk[t] >= n
    /\ AtLeast(alerts, {"saved"}, t, n) /\ AtLeast(batch, {"saved"}, t, n)
    /\ AtLeast(ops, {"write"}, t, n) /\ AtLeast(queue, {"write"}, t, n)
    /\ AtLeast(current, {"write"}, t, n)

DrainedInv ==
    \A t \in Torrents : flushed = "clean" /\ Seen(t) => Kept(t, flushVer[t])

FlushInv == YoungInv /\ PhaseInv /\ MissedInv /\ SeenInv /\ DrainedInv

(***************************************************************************)
(* Versions that are at least what the flush saw.                          *)
(***************************************************************************)
LEMMA AtLeastAppend ==
    ASSUME NEW S, NEW s \in Seq(S), NEW e \in S, NEW kinds, NEW t, NEW n,
           AtLeast(s, kinds, t, n), Is(e, kinds, t) => e.v >= n
    PROVE  AtLeast(Append(s, e), kinds, t, n)
<1> DEFINE x == Append(s, e)
<1>1. /\ Len(s) \in Nat /\ Len(x) = Len(s) + 1 /\ x[Len(s) + 1] = e
      /\ \A i \in 1 .. Len(s) : x[i] = s[i]
  BY SeqFacts
<1>2. \A i \in 1 .. Len(x) : i \in 1 .. Len(s) \/ i = Len(s) + 1
  BY <1>1
<1> HIDE DEF x
<1>3. AtLeast(x, kinds, t, n)
  BY <1>1, <1>2 DEF AtLeast
<1> QED
  BY <1>3 DEF x

LEMMA AtLeastTail ==
    ASSUME NEW S, NEW s \in Seq(S), s # <<>>, NEW kinds, NEW t, NEW n,
           AtLeast(s, kinds, t, n)
    PROVE  /\ AtLeast(Tail(s), kinds, t, n)
           /\ Is(Head(s), kinds, t) => Head(s).v >= n
<1> DEFINE x == Tail(s)
<1>1. /\ Len(s) \in Nat /\ Len(s) >= 1 /\ Len(x) = Len(s) - 1
      /\ Head(s) = s[1] /\ \A i \in 1 .. Len(x) : x[i] = s[i + 1]
  BY SeqFacts
<1>2. /\ \A i \in 1 .. Len(x) : i + 1 \in 1 .. Len(s)
      /\ 1 \in 1 .. Len(s)
  BY <1>1
<1> HIDE DEF x
<1>3. AtLeast(x, kinds, t, n) /\ (Is(Head(s), kinds, t) => Head(s).v >= n)
  BY <1>1, <1>2 DEF AtLeast
<1> QED
  BY <1>3 DEF x

\* No entry, no older version.
LEMMA AtLeastNone ==
    ASSUME NEW s, NEW kinds, NEW t, NEW n, ~Mentions(s, kinds, t)
    PROVE  AtLeast(s, kinds, t, n)
  BY DEF AtLeast, Mentions, Is

LEMMA AtLeastEmpty == \A kinds, t, n : AtLeast(<<>>, kinds, t, n)
  BY MentionsEmpty, AtLeastNone

\* Only a write that failed marks a file dirty.
LEMMA DirtyStep ==
    ASSUME Accounting, Next, NEW t \in Torrents, t \notin dirty, t \in dirty'
    PROVE  /\ PersistWrite /\ current # <<>> /\ Is(current[1], {"write"}, t)
           /\ flushVer[t] # NoFile => t \in flushFailed'
           /\ current[1].ack = "add" /\ apc[t] = "acking" => apc'[t] = "nacked"
<1>1. apc \in [Torrents -> AddStates]
  BY DEF Accounting, TypeOK, CallsTypeOK
<1>2. CASE PersistWrite
  BY <1>1, <1>2 DEF PersistWrite, MarkDirty, Is
<1>3. CASE PersisterNext /\ ~PersistWrite
  BY <1>3 DEF PersisterNext, PersistRecv, PersistDelete, PersistState, shared
<1>4. CASE LibtorrentNext
  BY <1>4 DEF LibtorrentNext, LtAdd, LtRemove, LtExpire, LtChange, LtFinished,
     LtMoved, LtAnswerSave, shared
<1>5. CASE PumpNext
  BY <1>5 DEF PumpNext, PumpPop, HandleAddFailed, HandleAdded, HandleRemoved,
     HandleSaveTrigger, RequestSave, HandleSaved, HandleSaveFailed, PumpSend,
     RetryTick, RetryDone, PumpStop, PumpAbort, RetryVisit, shared
<1>6. CASE CallNext
  BY <1>6 DEF CallNext, AddCall, AddRegister, AddEnqueue, AddSend, AddAcked,
     AddDelete, AddNacked, AddDrop, RemoveCall, RemoveGiveUp, SaveCall, SaveGiveUp,
     Unwind, shared
<1>7. CASE SweepNext \/ ShutdownNext
  BY <1>7 DEF SweepNext, SweepTick, SweepVisit, ShutdownNext, ShutdownStart,
     FlushStart, FlushWait, FlushEnd, StateSend, StateGiveUp, DropSender,
     PersisterEnd, FlushVisit, shared
<1> QED
  BY <1>2, <1>3, <1>4, <1>5, <1>6, <1>7 DEF Next

\* Nothing older comes up, as long as no write fails.
LEMMA KeptStep ==
    ASSUME Accounting, TasksInv, RemovalInv, Next, NEW t \in Torrents,
           NEW n \in Int, Present(t), flushVer[t] # NoFile, t \notin flushFailed',
           n <= ver[t], Kept(t, n)
    PROVE  Kept(t, n)'
<1>1. t \notin dirty'
  BY DirtyStep DEF Kept
<1>2. AtLeast(alerts', {"saved"}, t, n) /\ AtLeast(batch', {"saved"}, t, n)
  <2>1. CASE UNCHANGED <<alerts, batch>>
    BY <2>1 DEF Kept
  <2>2. CASE AlertQueued
    <3>1. PICK a \in Alert :
            /\ alerts' = Append(alerts, a) /\ UNCHANGED batch
            /\ a.kind = "saved" => a.v = ver[a.t]
      BY <2>2 DEF AlertQueued
    <3>2. Is(a, {"saved"}, t) => a.v >= n
      BY <3>1 DEF Is, Accounting, TypeOK, LtTypeOK
    <3> QED
      BY <3>1, <3>2, HeadFacts, AtLeastAppend DEF Kept
  <2>3. CASE PumpPop /\ batch = <<>>
    BY <2>3, AtLeastEmpty DEF PumpPop, Kept
  <2>4. CASE AlertHandled
    <3>1. batch # <<>> /\ batch' = Tail(batch) /\ UNCHANGED alerts
      BY <2>4 DEF AlertHandled
    <3> QED
      BY <3>1, HeadFacts, AtLeastTail DEF Kept
  <2> QED
    BY <2>1, <2>2, <2>3, <2>4, AlertFlowStep DEF AlertFlow
<1>3. /\ AtLeast(ops', {"write"}, t, n) /\ AtLeast(queue', {"write"}, t, n)
      /\ AtLeast(current', {"write"}, t, n) /\ disk'[t] >= n
  <2> DEFINE P == /\ AtLeast(ops', {"write"}, t, n) /\ AtLeast(queue', {"write"}, t, n)
                  /\ AtLeast(current', {"write"}, t, n) /\ disk'[t] >= n
  <2> USE DEF Kept
  <2>1. CASE UNCHANGED <<ops, queue, current, disk>>
    BY <2>1
  <2>2. CASE OpCollected
    <3>1. PICK o \in PersistOp :
            /\ ops' = Append(ops, o) /\ UNCHANGED <<queue, current, disk>>
            /\ o.kind = "write" =>
                 HandleSaved /\ o.t = Head(batch).t /\ o.v = Head(batch).v
      BY <2>2 DEF OpCollected
    <3>2. Is(o, {"write"}, t) => o.v >= n
      <4> SUFFICES ASSUME Is(o, {"write"}, t) PROVE o.v >= n
        OBVIOUS
      <4>1. /\ HandleSaved /\ o.t = Head(batch).t /\ o.v = Head(batch).v /\ o.t = t
        BY <3>1 DEF Is
      <4>2. batch # <<>> /\ Is(Head(batch), {"saved"}, t)
        BY <4>1 DEF HandleSaved, Consume, Is
      <4> QED
        BY <4>1, <4>2, HeadFacts, AtLeastTail
    <3>3. AtLeast(ops', {"write"}, t, n)
      BY <3>1, <3>2, HeadFacts, AtLeastAppend
    <3> QED
      BY <3>1, <3>3
  <2>3. CASE OpQueued
    <3>1. PICK o \in PersistOp :
            /\ queue' = Append(queue, o) /\ UNCHANGED <<ops, current, disk>>
            /\ o.kind = "write" => AddSend(o.t)
      BY <2>3 DEF OpQueued
    <3>2. ~Is(o, {"write"}, t)
      BY <3>1 DEF Is, AddSend, Present
    <3>3. AtLeast(queue', {"write"}, t, n)
      BY <3>1, <3>2, HeadFacts, AtLeastAppend
    <3> QED
      BY <3>1, <3>3
  <2>4. CASE PumpSend /\ ops # <<>> /\ queue' = Append(queue, Head(ops))
               /\ ops' = Tail(ops)
    <3>1. UNCHANGED <<current, disk>>
      BY <2>4 DEF PumpSend
    <3>2. Head(ops) \in PersistOp
      BY <2>4, HeadFacts
    <3>3. /\ AtLeast(Tail(ops), {"write"}, t, n)
          /\ Is(Head(ops), {"write"}, t) => Head(ops).v >= n
      BY <2>4, HeadFacts, AtLeastTail
    <3>4. AtLeast(queue', {"write"}, t, n)
      BY <2>4, <3>2, <3>3, HeadFacts, AtLeastAppend
    <3> QED
      BY <2>4, <3>1, <3>3, <3>4
  <2>5. CASE PumpAbort
    BY <2>5, AtLeastEmpty DEF PumpAbort, shared
  <2>6. CASE PersistRecv
    <3> DEFINE h == Head(queue)
    <3>1. /\ queue # <<>> /\ current' = <<h>> /\ queue' = Tail(queue)
          /\ UNCHANGED <<disk, ops>> /\ <<h>> = Append(<<>>, h)
      BY <2>6 DEF PersistRecv, pumpVars
    <3>2. h \in PersistOp
      BY <3>1, HeadFacts
    <3>3. /\ AtLeast(Tail(queue), {"write"}, t, n)
          /\ Is(h, {"write"}, t) => h.v >= n
      BY <3>1, HeadFacts, AtLeastTail
    <3>4. <<>> \in Seq(PersistOp)
      OBVIOUS
    <3>5. AtLeast(Append(<<>>, h), {"write"}, t, n)
      BY <3>2, <3>3, <3>4, AtLeastEmpty, AtLeastAppend
    <3> HIDE DEF h
    <3> QED
      BY <3>1, <3>3, <3>5
  <2>7. CASE PersistWrite
    <3>1. /\ current # <<>> /\ current' = <<>> /\ UNCHANGED <<ops, queue>>
          /\ current[1].kind = "write"
          /\ disk' = disk \/ disk' = [disk EXCEPT ![current[1].t] = current[1].v]
          /\ disk \in [Torrents -> Int]
      BY <2>7 DEF PersistWrite, write_atomic, pumpVars, Accounting, TypeOK,
         SharedTypeOK
    <3>2. Is(Head(current), {"write"}, t) => Head(current).v >= n
      BY <3>1, HeadFacts, AtLeastTail
    <3>3. current[1].t = t => current[1].v >= n
      BY <3>1, <3>2, HeadFacts DEF Is
    <3> QED
      BY <3>1, <3>3, AtLeastEmpty
  <2>8. CASE PersistDelete
    <3>1. /\ current # <<>> /\ current' = <<>> /\ UNCHANGED <<ops, queue>>
          /\ current[1].kind = "delete"
          /\ disk' = disk \/ disk' = [disk EXCEPT ![current[1].t] = NoFile]
          /\ disk \in [Torrents -> Int]
      BY <2>8 DEF PersistDelete, pumpVars, Accounting, TypeOK, SharedTypeOK
    <3>2. current[1].t # t
      BY <3>1, OnlyCurrent DEF Is, RemovalInv, DeletedInv, OpPending, Present
    <3> QED
      BY <3>1, <3>2, AtLeastEmpty
  <2>9. CASE PersistState
    BY <2>9, AtLeastEmpty DEF PersistState, shared, pumpVars
  <2> QED
    BY <2>1, <2>2, <2>3, <2>4, <2>5, <2>6, <2>7, <2>8, <2>9, OpsFlowStep DEF OpsFlow
<1> QED
  BY <1>1, <1>2, <1>3 DEF Kept

(***************************************************************************)
(* Torrents no save is under way for.                                      *)
(***************************************************************************)
\* Saves are posted for the torrent of a handled alert, for marked and for
\* changed torrents, and by calls.
LEMMA PostStep ==
    ASSUME Accounting, Next, NEW t \in Torrents, t \notin todo,
           \A p \in posted : p.t # t, pc = "save" => Head(batch).t # t,
           Quiesced \/ ~(Settled(t) /\ t \in registry),
           t \notin dirty, t \notin need \/ (t \notin sweepTodo /\ t \notin ckTodo)
    PROVE  \A p \in posted' : p.t # t
<1>1. CASE posted' \subseteq posted
  BY <1>1
<1>2. ASSUME NEW u, NEW flag, u # t, PostSave(u, flag) PROVE \A p \in posted' : p.t # t
  BY <1>2 DEF PostSave
<1>3. CASE LibtorrentNext
  BY <1>1, <1>3 DEF LibtorrentNext, LtAdd, LtRemove, LtExpire, LtChange, LtFinished,
     LtMoved, LtAnswerSave
<1>4. CASE PumpNext
  <2>1. CASE RequestSave
    BY <1>1, <1>2, <2>1 DEF RequestSave, NoPost
  <2>2. ASSUME NEW u \in Torrents, RetryVisit(u) PROVE \A p \in posted' : p.t # t
    BY <1>1, <1>2, <2>2 DEF RetryVisit, NoPost
  <2> QED
    BY <1>1, <1>4, <2>1, <2>2 DEF PumpNext, PumpPop, HandleAddFailed, HandleAdded,
       HandleRemoved, HandleSaveTrigger, HandleSaved, HandleSaveFailed, PumpSend,
       RetryTick, RetryDone, PumpStop, PumpAbort, ltVars
<1>5. CASE PersisterNext
  BY <1>1, <1>5 DEF PersisterNext, PersistRecv, PersistWrite, PersistDelete,
     PersistState, ltVars
<1>6. CASE CallNext
  <2>1. ASSUME NEW u \in Torrents, SaveCall(u) PROVE \A p \in posted' : p.t # t
    BY <1>1, <1>2, <2>1 DEF SaveCall, NoPost
  <2> QED
    BY <1>1, <1>6, <2>1 DEF CallNext, AddCall, AddRegister, AddEnqueue, AddSend,
       AddAcked, AddDelete, AddNacked, AddDrop, RemoveCall, RemoveGiveUp, SaveGiveUp,
       Unwind, ltVars
<1>7. CASE SweepNext
  <2>1. ASSUME NEW u \in Torrents, SweepVisit(u) PROVE \A p \in posted' : p.t # t
    BY <1>1, <1>2, <2>1 DEF SweepVisit, NoPost
  <2> QED
    BY <1>1, <1>7, <2>1 DEF SweepNext, SweepTick, ltVars
<1>8. CASE ShutdownNext
  <2>1. ASSUME NEW u \in Torrents, FlushVisit(u) PROVE \A p \in posted' : p.t # t
    BY <1>1, <1>2, <2>1 DEF FlushVisit, NoPost, WorthFlushing
  <2> QED
    BY <1>1, <1>8, <2>1 DEF ShutdownNext, ShutdownStart, FlushStart, FlushWait,
       FlushEnd, StateSend, StateGiveUp, DropSender, PersisterEnd, ltVars
<1> QED
  BY <1>3, <1>4, <1>5, <1>6, <1>7, <1>8 DEF Next

\* What the pump is about to save or to visit.
LEMMA PumpStep ==
    ASSUME Accounting, Next, NEW t \in Torrents, t \notin todo, t \notin dirty,
           pc = "save" => Head(batch).t # t,
           Quiesced \/ ~AlertPending({"finished", "moved"}, t)
    PROVE  t \notin todo' /\ (pc' = "save" => Head(batch').t # t)
<1>1. CASE UNCHANGED <<pc, batch, todo>>
  BY <1>1
<1>2. CASE PumpNext
  <2>1. CASE HandleSaveTrigger
    <3>1. UNCHANGED todo
      BY <2>1 DEF HandleSaveTrigger
    <3>2. CASE Quiesced
      BY <2>1, <3>1, <3>2 DEF HandleSaveTrigger, Consume
    <3>3. CASE ~Quiesced
      <4>1. /\ batch # <<>> /\ Head(batch).kind \in {"finished", "moved"}
            /\ UNCHANGED batch
        BY <2>1, <3>3 DEF HandleSaveTrigger
      <4>2. ~Is(Head(batch), {"finished", "moved"}, t)
        BY <3>3, <4>1, HeadFacts, MentionsTail DEF AlertPending
      <4>3. Head(batch).t # t
        BY <4>1, <4>2 DEF Is
      <4> QED
        BY <3>1, <4>1, <4>3
    <3> QED
      BY <3>2, <3>3
  <2>2. ASSUME NEW u \in Torrents, RetryVisit(u)
        PROVE  t \notin todo' /\ (pc' = "save" => Head(batch').t # t)
    BY <2>2 DEF RetryVisit
  <2> QED
    BY <1>2, <2>1, <2>2 DEF PumpNext, PumpPop, HandleAddFailed, HandleAdded,
       HandleRemoved, RequestSave, HandleSaved, HandleSaveFailed, PumpSend, RetryTick,
       RetryDone, PumpStop, PumpAbort, Consume
<1>3. CASE LibtorrentNext \/ PersisterNext
  BY <1>1, <1>3 DEF LibtorrentNext, LtAdd, LtRemove, LtExpire, LtChange, LtFinished,
     LtMoved, LtAnswerSave, PersisterNext, PersistRecv, PersistWrite, PersistDelete,
     PersistState, pumpVars
<1>4. CASE CallNext
  BY <1>1, <1>4 DEF CallNext, AddCall, AddRegister, AddEnqueue, AddSend, AddAcked,
     AddDelete, AddNacked, AddDrop, RemoveCall, RemoveGiveUp, SaveCall, SaveGiveUp,
     pumpVars
<1>5. CASE SweepNext \/ ShutdownNext
  BY <1>1, <1>5 DEF SweepNext, SweepTick, SweepVisit, ShutdownNext, ShutdownStart,
     FlushStart, FlushWait, FlushEnd, StateSend, StateGiveUp, DropSender,
     PersisterEnd, FlushVisit, pumpVars
<1> QED
  BY <1>2, <1>3, <1>4, <1>5 DEF Next

LEMMA UnsavedStep ==
    ASSUME Accounting, TasksInv, Next, NEW t \in Torrents, Unsaved(t),
           t \notin dirty',
           \/ Quiesced
           \/ ~AlertPending({"finished", "moved"}, t) /\ ~(Settled(t) /\ t \in registry),
           t \notin need \/ (t \notin sweepTodo /\ t \notin ckTodo)
    PROVE  Unsaved(t)'
<1>1. \A p \in posted' : p.t # t
  BY PostStep DEF Unsaved
<1>2. t \notin todo' /\ (pc' = "save" => Head(batch').t # t)
  BY PumpStep DEF Unsaved
<1>3. ~Mentions(alerts', {"saved"}, t) /\ ~Mentions(batch', {"saved"}, t)
  BY PendingStep DEF Unsaved, Is
<1>4. ~Mentions(ops', {"write"}, t)
  <2>1. CASE UNCHANGED ops
    BY <2>1 DEF Unsaved
  <2>2. CASE OpCollected
    <3>1. PICK o \in PersistOp :
            /\ ops' = Append(ops, o)
            /\ o.kind = "write" => HandleSaved /\ o.t = Head(batch).t
      BY <2>2 DEF OpCollected
    <3>2. ~Is(o, {"write"}, t)
      <4> SUFFICES ASSUME Is(o, {"write"}, t) PROVE FALSE
        OBVIOUS
      <4>1. batch # <<>> /\ Is(Head(batch), {"saved"}, t)
        BY <3>1 DEF Is, HandleSaved, Consume
      <4> QED
        BY <4>1, HeadFacts, MentionsTail DEF Unsaved, AlertPending
    <3> QED
      BY <3>1, <3>2, HeadFacts, MentionsAppend DEF Unsaved
  <2>3. CASE PumpSend /\ ops # <<>> /\ ops' = Tail(ops)
    BY <2>3, HeadFacts, MentionsTail DEF Unsaved
  <2>4. CASE PumpAbort
    BY <2>4, MentionsEmpty DEF PumpAbort
  <2> QED
    BY <2>1, <2>2, <2>3, <2>4, OpsFlowStep DEF OpsFlow, OpQueued, PersistRecv,
       PersistWrite, PersistDelete, PersistState, pumpVars
<1> QED
  BY <1>1, <1>2, <1>3, <1>4 DEF Unsaved, AlertPending

(***************************************************************************)
(* The record that acknowledges an add.                                    *)
(***************************************************************************)
LEMMA SingleAppend ==
    ASSUME NEW s \in Seq(PersistOp), NEW e \in PersistOp, NEW t, Single(s, t),
           \/ ~Is(e, {"write"}, t)
           \/ ~Mentions(s, {"write"}, t) /\ e.ack = "add"
    PROVE  Single(Append(s, e), t)
<1> DEFINE x == Append(s, e)
<1>1. /\ Len(s) \in Nat /\ Len(x) = Len(s) + 1 /\ x[Len(s) + 1] = e
      /\ \A i \in 1 .. Len(s) : x[i] = s[i]
  BY SeqFacts
<1>2. \A i \in 1 .. Len(x) : i \in 1 .. Len(s) \/ i = Len(s) + 1
  BY <1>1
<1> HIDE DEF x
<1>3. \A i \in 1 .. Len(s) : Is(s[i], {"write"}, t) => Mentions(s, {"write"}, t)
  BY DEF Mentions, Is
<1>4. Single(x, t)
  BY <1>1, <1>2, <1>3 DEF Single
<1> QED
  BY <1>4 DEF x

LEMMA SingleTail ==
    ASSUME NEW s \in Seq(PersistOp), s # <<>>, NEW t, Single(s, t)
    PROVE  /\ Single(Tail(s), t)
           /\ Is(Head(s), {"write"}, t) =>
                Head(s).ack = "add" /\ ~Mentions(Tail(s), {"write"}, t)
<1> DEFINE x == Tail(s)
<1>1. /\ Len(s) \in Nat /\ Len(s) >= 1 /\ Len(x) = Len(s) - 1
      /\ Head(s) = s[1] /\ \A i \in 1 .. Len(x) : x[i] = s[i + 1]
  BY SeqFacts
<1>2. /\ \A i \in 1 .. Len(x) : i + 1 \in 1 .. Len(s) /\ i + 1 # 1
      /\ \A i, j \in 1 .. Len(x) : i + 1 = j + 1 => i = j
      /\ 1 \in 1 .. Len(s)
  BY <1>1
<1> HIDE DEF x
<1>3. Single(x, t)
  BY <1>1, <1>2 DEF Single
<1>4. Is(s[1], {"write"}, t) => s[1].ack = "add" /\ ~Mentions(x, {"write"}, t)
  BY <1>1, <1>2 DEF Single, Mentions, Is
<1> QED
  BY <1>1, <1>3, <1>4 DEF x

LEMMA SingleEmpty == \A t : Single(<<>>, t)
  BY DEF Single

\* A call that waits for its record waits until it is written.
LEMMA AckingStep ==
    ASSUME Accounting, Next, NEW t \in Torrents
    PROVE  /\ apc[t] = "acking" =>
                \/ apc'[t] \in {"acking", "dropped"}
                \/ /\ PersistWrite /\ current # <<>>
                   /\ current[1].t = t /\ current[1].ack = "add"
           /\ apc[t] = "nacked" => apc'[t] \in {"nacked", "err", "dropped"}
           /\ apc[t] = "dropped" => apc'[t] = "dropped"
<1> DEFINE P == /\ apc[t] = "acking" =>
                     \/ apc'[t] \in {"acking", "dropped"}
                     \/ /\ PersistWrite /\ current # <<>>
                        /\ current[1].t = t /\ current[1].ack = "add"
                /\ apc[t] = "nacked" => apc'[t] \in {"nacked", "err", "dropped"}
                /\ apc[t] = "dropped" => apc'[t] = "dropped"
<1>1. apc \in [Torrents -> AddStates]
  BY DEF Accounting, TypeOK, CallsTypeOK
<1>2. CASE UNCHANGED apc
  BY <1>2
<1>3. CASE PersisterNext
  <2>1. CASE PersistWrite
    BY <1>1, <2>1 DEF PersistWrite
  <2> QED
    BY <1>2, <1>3, <2>1 DEF PersisterNext, PersistRecv, PersistDelete, PersistState,
       calls
<1>4. CASE PumpNext
  <2>1. CASE PumpPop
    BY <1>1, <2>1 DEF PumpPop
  <2> QED
    BY <1>2, <1>4, <2>1 DEF PumpNext, HandleAddFailed, HandleAdded, HandleRemoved,
       HandleSaveTrigger, RequestSave, HandleSaved, HandleSaveFailed, PumpSend,
       RetryTick, RetryDone, PumpStop, PumpAbort, RetryVisit, calls
<1>5. CASE CallNext
  <2> SUFFICES ASSUME NEW u \in Torrents,
                      \/ AddCall(u) \/ AddRegister(u) \/ AddEnqueue(u)
                      \/ AddSend(u) \/ AddAcked(u) \/ AddDelete(u)
                      \/ AddNacked(u) \/ AddDrop(u) \/ RemoveCall(u)
                      \/ RemoveGiveUp(u) \/ SaveCall(u) \/ SaveGiveUp(u)
               PROVE  P
    BY <1>5 DEF CallNext
  <2>1. CASE \/ AddCall(u) \/ AddRegister(u) \/ AddSend(u) \/ AddAcked(u)
             \/ AddDelete(u) \/ AddDrop(u)
    BY <1>1, <2>1 DEF AddCall, AddRegister, AddSend, AddAcked, AddDelete, AddDrop
  <2>2. CASE AddEnqueue(u) \/ AddNacked(u)
    BY <1>1, <2>2 DEF AddEnqueue, AddNacked, Unwind
  <2> QED
    BY <1>2, <2>1, <2>2 DEF RemoveCall, RemoveGiveUp, SaveCall, SaveGiveUp
<1>6. CASE LibtorrentNext \/ SweepNext \/ ShutdownNext
  BY <1>2, <1>6 DEF LibtorrentNext, LtAdd, LtRemove, LtExpire, LtChange, LtFinished,
     LtMoved, LtAnswerSave, SweepNext, SweepTick, SweepVisit, ShutdownNext,
     ShutdownStart, FlushStart, FlushWait, FlushEnd, StateSend, StateGiveUp,
     DropSender, PersisterEnd, FlushVisit, calls
<1> QED
  BY <1>3, <1>4, <1>5, <1>6 DEF Next

LEMMA AddRecordStep ==
    ASSUME Accounting, TasksInv, Next, NEW t \in Torrents, AddRecord(t),
           ~Mentions(ops, {"write"}, t), apc'[t] # "dropped"
    PROVE  AddRecord(t)'
<1> DEFINE Q == Mentions(queue, {"write"}, t)
           C == Mentions(current, {"write"}, t)
<1>1. /\ Single(queue, t) /\ Single(current, t) /\ ~(Q /\ C)
      /\ Q \/ C => apc[t] = "acking"
  BY DEF AddRecord
<1>2. SUFFICES /\ Single(queue', t) /\ Single(current', t)
               /\ ~(Mentions(queue', {"write"}, t) /\ Mentions(current', {"write"}, t))
               /\ Mentions(queue', {"write"}, t) \/ Mentions(current', {"write"}, t)
                    => apc'[t] = "acking"
  BY DEF AddRecord
<1>3. apc[t] = "acking" =>
        \/ apc'[t] = "acking"
        \/ PersistWrite /\ current # <<>> /\ current[1].t = t
  BY AckingStep
<1>4. PersistWrite => current # <<>> /\ current' = <<>>
  BY DEF PersistWrite
<1>5. CASE UNCHANGED <<queue, current>>
  BY <1>1, <1>3, <1>4, <1>5
<1>6. CASE OpQueued
  <2>1. PICK o \in PersistOp :
          /\ queue' = Append(queue, o) /\ UNCHANGED current
          /\ o.kind = "write" => AddSend(o.t) /\ o.ack = "add"
    BY <1>6 DEF OpQueued
  <2>2. Mentions(queue', {"write"}, t) <=> Q \/ Is(o, {"write"}, t)
    BY <2>1, HeadFacts, MentionsAppend
  <2>3. CASE Is(o, {"write"}, t)
    <3>1. AddSend(t) /\ o.ack = "add"
      BY <2>1, <2>3 DEF Is
    <3>2. apc[t] = "sending" /\ apc'[t] = "acking"
      BY <3>1 DEF AddSend, Accounting, TypeOK, CallsTypeOK
    <3>3. ~Q /\ ~C
      BY <1>1, <3>2
    <3>4. Single(queue', t)
      BY <1>1, <2>1, <3>1, <3>3, HeadFacts, SingleAppend
    <3> QED
      BY <1>1, <2>1, <3>2, <3>3, <3>4
  <2>4. CASE ~Is(o, {"write"}, t)
    <3>1. Single(queue', t)
      BY <1>1, <2>1, <2>4, HeadFacts, SingleAppend
    <3> QED
      BY <1>1, <1>3, <1>4, <2>1, <2>2, <2>4, <3>1
  <2> QED
    BY <2>3, <2>4
<1>7. CASE PumpSend /\ ops # <<>> /\ queue' = Append(queue, Head(ops))
  <2>1. /\ Head(ops) \in PersistOp /\ ~Is(Head(ops), {"write"}, t)
        /\ UNCHANGED current
    BY <1>7, HeadFacts, MentionsTail DEF PumpSend
  <2>2. Single(queue', t) /\ (Mentions(queue', {"write"}, t) <=> Q)
    BY <1>1, <1>7, <2>1, HeadFacts, SingleAppend, MentionsAppend
  <2> QED
    BY <1>1, <1>3, <1>4, <2>1, <2>2
<1>8. CASE PersistRecv
  <2> DEFINE h == Head(queue)
  <2>1. /\ queue # <<>> /\ current = <<>> /\ current' = <<h>> /\ queue' = Tail(queue)
        /\ UNCHANGED apc /\ <<h>> = Append(<<>>, h)
    BY <1>8 DEF PersistRecv, calls
  <2>2. h \in PersistOp
    BY <2>1, HeadFacts
  <2>3. /\ Single(Tail(queue), t)
        /\ Is(h, {"write"}, t) => h.ack = "add" /\ ~Mentions(Tail(queue), {"write"}, t)
        /\ Q <=> Is(h, {"write"}, t) \/ Mentions(Tail(queue), {"write"}, t)
    BY <1>1, <2>1, HeadFacts, SingleTail, MentionsTail
  <2>4. <<>> \in Seq(PersistOp)
    OBVIOUS
  <2>5. /\ Single(Append(<<>>, h), t)
        /\ Mentions(Append(<<>>, h), {"write"}, t) <=> Is(h, {"write"}, t)
    BY <2>2, <2>3, <2>4, SingleEmpty, SingleAppend, MentionsEmpty, MentionsAppend
  <2> HIDE DEF h
  <2> QED
    BY <1>1, <2>1, <2>3, <2>5
<1>9. CASE PersistWrite
  <2>1. /\ current # <<>> /\ current' = <<>> /\ UNCHANGED queue
        /\ current[1].kind = "write"
    BY <1>9 DEF PersistWrite
  <2>2. current[1].t = t => C
    BY <2>1, OnlyCurrent DEF Is
  <2> QED
    BY <1>1, <1>3, <2>1, <2>2, SingleEmpty, MentionsEmpty
<1>10. CASE PersistDelete \/ PersistState
  <2>1. current' = <<>> /\ UNCHANGED <<queue, apc>>
    BY <1>10 DEF PersistDelete, PersistState, shared, calls
  <2> QED
    BY <1>1, <2>1, SingleEmpty, MentionsEmpty
<1> QED
  BY <1>5, <1>6, <1>7, <1>8, <1>9, <1>10, OpsFlowStep DEF OpsFlow, OpCollected,
     PumpAbort, shared

\* libtorrent sets the need-save flag of live torrents it is allowed to change.
LEMMA NeedGrows ==
    ASSUME Next, NEW t \in Torrents, t \notin need, t \in need'
    PROVE  Settled(t) /\ life[t] = "live"
<1>1. CASE LibtorrentNext
  BY <1>1 DEF LibtorrentNext, LtAdd, LtRemove, LtExpire, LtChange, LtFinished,
     LtMoved, LtAnswerSave
<1>2. CASE PumpNext
  BY <1>2 DEF PumpNext, PumpPop, HandleAddFailed, HandleAdded, HandleRemoved,
     HandleSaveTrigger, RequestSave, HandleSaved, HandleSaveFailed, PumpSend,
     RetryTick, RetryDone, PumpStop, PumpAbort, RetryVisit, ltVars
<1>3. CASE PersisterNext
  BY <1>3 DEF PersisterNext, PersistRecv, PersistWrite, PersistDelete, PersistState,
     ltVars
<1>4. CASE CallNext
  BY <1>4 DEF CallNext, AddCall, AddRegister, AddEnqueue, AddSend, AddAcked,
     AddDelete, AddNacked, AddDrop, RemoveCall, RemoveGiveUp, SaveCall, SaveGiveUp,
     ltVars
<1>5. CASE SweepNext \/ ShutdownNext
  BY <1>5 DEF SweepNext, SweepTick, SweepVisit, ShutdownNext, ShutdownStart,
     FlushStart, FlushWait, FlushEnd, StateSend, StateGiveUp, DropSender,
     PersisterEnd, FlushVisit, ltVars
<1> QED
  BY <1>1, <1>2, <1>3, <1>4, <1>5 DEF Next

\* The record of an add is in the queue or being written, not both, so that a
\* failure to write it fails the add.
LEMMA AddRecordFails ==
    ASSUME Accounting, TasksInv, Next, NEW t \in Torrents, AddRecord(t),
           t \notin dirty, apc'[t] # "nacked"
    PROVE  t \notin dirty'
<1> SUFFICES ASSUME t \in dirty' PROVE FALSE
  OBVIOUS
<1>1. /\ current # <<>> /\ Is(current[1], {"write"}, t)
      /\ ~(current[1].ack = "add" /\ apc[t] = "acking")
  BY DirtyStep
<1>2. Mentions(current, {"write"}, t)
  BY <1>1, OnlyCurrent
<1>3. Is(Head(current), {"write"}, t) => Head(current).ack = "add"
  BY <1>1, HeadFacts, SingleTail DEF AddRecord
<1>4. Head(current) = current[1]
  BY <1>1, HeadFacts, SeqFacts
<1> QED
  BY <1>1, <1>2, <1>3, <1>4 DEF AddRecord

LEMMA YoungStep ==
    ASSUME Accounting, TasksInv, EarlyInv, YoungInv, Next,
           {"race", "earlyRace"} \cap Env = {}
    PROVE  YoungInv'
<1> SUFFICES ASSUME NEW t \in Torrents, Young(t)'
             PROVE  /\ Unsaved(t)' /\ AddRecord(t)' /\ t \notin need'
                    /\ ~Mentions(alerts', {"finished", "moved"}, t)
                    /\ ~Mentions(batch', {"finished", "moved"}, t)
  BY DEF YoungInv, AlertPending
<1>1. TypeOK /\ apc'[t] \notin {"nacked", "err", "dropped"}
  BY DEF Accounting, Young, AddRunning
<1>2. Young(t)
  BY <1>1, AddStep, AckingStep DEF Young
<1>3. /\ Unsaved(t) /\ AddRecord(t) /\ t \notin need
      /\ ~AlertPending({"finished", "moved"}, t)
  BY <1>2 DEF YoungInv
<1>4. ~(Settled(t) /\ (life[t] = "live" \/ t \in registry))
  BY <1>2 DEF Young, Settled, EarlyInv
<1>5. Unsaved(t)'
  <2>1. t \notin dirty'
    BY <1>1, <1>3, AddRecordFails DEF Unsaved
  <2> QED
    BY <1>3, <1>4, <2>1, UnsavedStep
<1>6. AddRecord(t)'
  BY <1>1, <1>3, AddRecordStep DEF Unsaved
<1>7. t \notin need'
  BY <1>3, <1>4, NeedGrows
<1>8. ~Mentions(alerts', {"finished", "moved"}, t)
        /\ ~Mentions(batch', {"finished", "moved"}, t)
  BY <1>3, <1>4, PendingStep DEF Is
<1> QED
  BY <1>5, <1>6, <1>7, <1>8

(***************************************************************************)
(* The phases of the shutdown, and what the flush sees.                    *)
(***************************************************************************)
LEMMA FlushStep ==
    ASSUME Accounting, Next, NEW t \in Torrents
    PROVE  /\ \/ flushVer'[t] = flushVer[t] /\ (FlushVisit(t) => t \notin handles)
              \/ FlushVisit(t) /\ t \in handles /\ flushVer'[t] = ver[t]
           /\ t \in ckTodo /\ t \notin ckTodo' => FlushVisit(t) \/ FlushStart
           /\ t \notin ckTodo /\ t \in ckTodo' => FlushStart
           /\ flushFailed \subseteq flushFailed'
<1> DEFINE P == /\ \/ /\ flushVer'[t] = flushVer[t]
                      /\ FlushVisit(t) => t \notin handles
                   \/ FlushVisit(t) /\ t \in handles /\ flushVer'[t] = ver[t]
                /\ t \in ckTodo /\ t \notin ckTodo' => FlushVisit(t) \/ FlushStart
                /\ t \notin ckTodo /\ t \in ckTodo' => FlushStart
                /\ flushFailed \subseteq flushFailed'
<1>1. flushVer \in [Torrents -> Int] /\ ckTodo \subseteq Torrents
  BY DEF Accounting, TypeOK, HistoryTypeOK, TasksTypeOK
<1>2. ASSUME UNCHANGED <<flushVer, ckTodo>>, flushFailed \subseteq flushFailed'
      PROVE  P
  <2>1. FlushVisit(t) => t \notin handles \/ flushVer'[t] = ver[t]
    BY <1>1 DEF FlushVisit
  <2> QED
    BY <1>2, <2>1
<1>3. CASE LibtorrentNext
  BY <1>2, <1>3 DEF LibtorrentNext, LtAdd, LtRemove, LtExpire, LtChange, LtFinished,
     LtMoved, LtAnswerSave, shutVars, history, observed
<1>4. CASE PumpNext
  BY <1>2, <1>4 DEF PumpNext, PumpPop, HandleAddFailed, HandleAdded, HandleRemoved,
     HandleSaveTrigger, RequestSave, HandleSaved, HandleSaveFailed, PumpSend,
     RetryTick, RetryDone, PumpStop, PumpAbort, RetryVisit, shutVars, history, observed
<1>5. CASE PersisterNext
  BY <1>2, <1>5 DEF PersisterNext, PersistRecv, PersistWrite, PersistDelete,
     PersistState, shutVars, history, observed
<1>6. CASE CallNext
  BY <1>2, <1>6 DEF CallNext, AddCall, AddRegister, AddEnqueue, AddSend, AddAcked,
     AddDelete, AddNacked, AddDrop, RemoveCall, RemoveGiveUp, SaveCall, SaveGiveUp,
     shutVars, history, observed
<1>7. CASE SweepNext
  BY <1>2, <1>7 DEF SweepNext, SweepTick, SweepVisit, shutVars, history, observed
<1>8. CASE ShutdownNext
  <2>1. ASSUME NEW u \in Torrents, FlushVisit(u) PROVE P
    <3>1. /\ ckTodo' = ckTodo \ {u} /\ UNCHANGED flushFailed
          /\ IF u \in handles THEN flushVer' = [flushVer EXCEPT ![u] = ver[u]]
                              ELSE flushVer' = flushVer
      BY <2>1 DEF FlushVisit
    <3>2. CASE u = t
      BY <1>1, <2>1, <3>1, <3>2
    <3>3. CASE u # t
      <4>1. flushVer'[t] = flushVer[t]
        BY <1>1, <3>1, <3>3
      <4>2. FlushVisit(t) => ckTodo' = ckTodo \ {t} /\ t \in ckTodo
        BY DEF FlushVisit
      <4>3. ~FlushVisit(t)
        BY <3>1, <3>3, <4>2
      <4> QED
        BY <3>1, <3>3, <4>1, <4>3
    <3> QED
      BY <3>2, <3>3
  <2>2. CASE FlushStart
    BY <2>2 DEF FlushStart, history, observed, FlushVisit
  <2> QED
    BY <1>2, <1>8, <2>1, <2>2 DEF ShutdownNext, ShutdownStart, FlushWait, FlushEnd,
       StateSend, StateGiveUp, DropSender, PersisterEnd, history, observed
<1> QED
  BY <1>3, <1>4, <1>5, <1>6, <1>7, <1>8 DEF Next

\* The flush starts once.
LEMMA FlushingStep ==
    ASSUME Next, Flushing'
    PROVE  Flushing \/ FlushStart
<1> USE DEF Flushing
<1>1. CASE UNCHANGED sd
  BY <1>1
<1>2. CASE LibtorrentNext \/ CallNext \/ SweepNext
  BY <1>1, <1>2 DEF LibtorrentNext, LtAdd, LtRemove, LtExpire, LtChange, LtFinished,
     LtMoved, LtAnswerSave, CallNext, AddCall, AddRegister, AddEnqueue, AddSend,
     AddAcked, AddDelete, AddNacked, AddDrop, RemoveCall, RemoveGiveUp, SaveCall,
     SaveGiveUp, SweepNext, SweepTick, SweepVisit, shutVars
<1>3. CASE PumpNext
  BY <1>1, <1>3 DEF PumpNext, PumpPop, HandleAddFailed, HandleAdded, HandleRemoved,
     HandleSaveTrigger, RequestSave, HandleSaved, HandleSaveFailed, PumpSend,
     RetryTick, RetryDone, PumpStop, PumpAbort, RetryVisit, shutVars
<1>4. CASE PersisterNext
  BY <1>1, <1>4 DEF PersisterNext, PersistRecv, PersistWrite, PersistDelete,
     PersistState, shutVars
<1>5. CASE ShutdownNext
  BY <1>5 DEF ShutdownNext, ShutdownStart, FlushStart, FlushWait, FlushEnd, StateSend,
     StateGiveUp, DropSender, PersisterEnd, FlushVisit, shutVars
<1> QED
  BY <1>2, <1>3, <1>4, <1>5 DEF Next

LEMMA PhaseInvStep ==
    ASSUME Accounting, PhaseInv, Next
    PROVE  PhaseInv'
<1> DEFINE P == /\ ~Flushing => \A t \in Torrents : flushVer[t] = NoFile
                /\ Flushing => sweepTodo = {}
                /\ sd \in {"run", "quiesced", "flush", "wait"} => flushed = "no"
                /\ sd \notin {"run", "quiesced", "flush"} => ckTodo = {}
<1>1. P'
  <2> USE DEF PhaseInv, Flushing
  <2>1. CASE UNCHANGED <<shutVars, sweepTodo, flushVer>>
    BY <2>1 DEF shutVars
  <2>2. CASE LibtorrentNext
    BY <2>1, <2>2 DEF LibtorrentNext, LtAdd, LtRemove, LtExpire, LtChange,
       LtFinished, LtMoved, LtAnswerSave, history, observed
  <2>3. CASE PumpNext
    BY <2>1, <2>3 DEF PumpNext, PumpPop, HandleAddFailed, HandleAdded, HandleRemoved,
       HandleSaveTrigger, RequestSave, HandleSaved, HandleSaveFailed, PumpSend,
       RetryTick, RetryDone, PumpStop, PumpAbort, RetryVisit, history, observed
  <2>4. CASE PersisterNext
    <3>1. CASE PersistState
      BY <3>1 DEF PersistState, history, observed
    <3> QED
      BY <2>1, <2>4, <3>1 DEF PersisterNext, PersistRecv, PersistWrite, PersistDelete,
         observed
  <2>5. CASE CallNext
    BY <2>1, <2>5 DEF CallNext, AddCall, AddRegister, AddEnqueue, AddSend, AddAcked,
       AddDelete, AddNacked, AddDrop, RemoveCall, RemoveGiveUp, SaveCall, SaveGiveUp,
       history, observed
  <2>6. CASE SweepNext
    BY <2>6 DEF SweepNext, SweepTick, SweepVisit, Quiesced, shutVars, history, observed
  <2>7. ASSUME NEW u \in Torrents, FlushVisit(u) PROVE P'
    BY <2>7 DEF FlushVisit
  <2>8. CASE ShutdownNext
    BY <2>7, <2>8 DEF ShutdownNext, ShutdownStart, FlushStart, FlushWait, FlushEnd,
       StateSend, StateGiveUp, DropSender, PersisterEnd, history, observed
  <2> QED
    BY <2>2, <2>3, <2>4, <2>5, <2>6, <2>8 DEF Next
<1>2. ASSUME NEW t \in Torrents
      PROVE  NoFile <= flushVer'[t] /\ flushVer'[t] <= ver'[t]
  <2>1. /\ ver[t] \in Nat /\ flushVer[t] \in Int
        /\ NoFile <= flushVer[t] /\ flushVer[t] <= ver[t] /\ TypeOK
    BY DEF Accounting, TypeOK, LtTypeOK, HistoryTypeOK, PhaseInv
  <2>2. ver'[t] = ver[t] \/ ver'[t] = ver[t] + 1
    BY <2>1, VerStep
  <2>3. flushVer'[t] = flushVer[t] \/ flushVer'[t] = ver[t]
    BY FlushStep
  <2> QED
    BY <2>1, <2>2, <2>3 DEF NoFile
<1> QED
  BY <1>1, <1>2 DEF PhaseInv

\* A torrent is present when its add returns, and stays so until it is removed.
LEMMA PresentStep ==
    ASSUME Accounting, TasksInv, RemovalInv, Next, NEW t \in Torrents, Present(t)'
    PROVE  /\ life[t] = "live"
           /\ Present(t) \/ (apc[t] = "acked" /\ AddAcked(t))
<1>1. TypeOK /\ life'[t] = "live" /\ apc'[t] \in {"ok", "restored"}
  BY DEF Accounting, Present
<1>2. life[t] \in {"adding", "live"} /\ (life[t] = "adding" => UNCHANGED apc)
  BY <1>1, LiveStep
<1>3. apc[t] # "deleting"
  BY <1>2 DEF RemovalInv, SessionInv, Inside, Handled
<1>4. apc[t] \in {"ok", "restored"} \/ (apc[t] = "acked" /\ AddAcked(t))
  BY <1>1, <1>3, AddStep
<1>5. life[t] = "live"
  BY <1>2, <1>4, InsideLives DEF Inside
<1> QED
  BY <1>4, <1>5 DEF Present

LEMMA MissedStep ==
    ASSUME Accounting, TasksInv, RemovalInv, HandlesInv, YoungInv, PhaseInv,
           MissedInv, Next
    PROVE  MissedInv'
<1> SUFFICES ASSUME NEW t \in Torrents, Missed(t)'
             PROVE  /\ Unsaved(t)'
                    /\ ~Mentions(queue', {"write"}, t)
                    /\ ~Mentions(current', {"write"}, t)
  BY DEF MissedInv
<1>1. /\ Flushing' /\ Present(t)' /\ t \notin ckTodo' /\ flushVer'[t] = NoFile
      /\ apc'[t] \in {"ok", "restored"}
  BY DEF Missed, Present
<1>2. life[t] = "live" /\ (Present(t) \/ (apc[t] = "acked" /\ AddAcked(t)))
  BY <1>1, PresentStep
<1>3. CASE apc[t] = "acked" /\ AddAcked(t)
  <2>1. Unsaved(t) /\ AddRecord(t)
    BY <1>3 DEF YoungInv, Young, AddRunning
  <2>2. UNCHANGED <<dirty, todo, posted, alerts, batch, ops, pc, queue, current>>
    BY <1>3 DEF AddAcked, ltVars, shared, pumpVars
  <2> QED
    BY <1>3, <2>1, <2>2 DEF Unsaved, AddRecord, AlertPending
<1>4. CASE Present(t)
  <2>1. t \in registry /\ t \in handles
    BY <1>4, LiveFacts DEF Present
  <2>2. ~FlushStart
    BY <1>1, <2>1 DEF FlushStart
  <2>3. ver[t] \in Nat /\ ver[t] # NoFile
    BY DEF Accounting, TypeOK, LtTypeOK, NoFile
  <2>4. ~FlushVisit(t) /\ flushVer[t] = NoFile
    BY <1>1, <2>1, <2>3, FlushStep
  <2>5. t \notin ckTodo
    BY <1>1, <2>2, <2>4, FlushStep
  <2>6. Flushing
    BY <1>1, <2>2, FlushingStep
  <2>7. /\ Unsaved(t) /\ sweepTodo = {} /\ Quiesced
        /\ ~Mentions(queue, {"write"}, t) /\ ~Mentions(current, {"write"}, t)
    BY <1>4, <2>4, <2>5, <2>6 DEF MissedInv, Missed, PhaseInv, Flushing, Quiesced
  <2>8. AddRecord(t)
    BY <2>7 DEF AddRecord, Single, Mentions, Is
  <2>9. t \notin dirty'
    BY <1>1, <2>7, <2>8, AddRecordFails DEF Unsaved
  <2>10. Unsaved(t)'
    BY <2>5, <2>7, <2>9, UnsavedStep
  <2>11. AddRecord(t)'
    BY <1>1, <2>7, <2>8, AddRecordStep DEF Unsaved
  <2> QED
    BY <1>1, <2>10, <2>11 DEF AddRecord
<1> QED
  BY <1>2, <1>3, <1>4

\* Once seen, a torrent is left alone by the flush.
LEMMA SeenStep ==
    ASSUME Accounting, AskedFirst, RemovalInv, HandlesInv, FreshInv, MovedInv,
           ChangeInv, YoungInv, PhaseInv, SeenInv, Next, Undisturbed
    PROVE  SeenInv'
<1> SUFFICES ASSUME NEW t \in Torrents, SessionOpen', Seen(t)'
             PROVE  Covers(t, flushVer[t], TRUE)'
  BY DEF SeenInv
<1>0. ASSUME NEW n \in Int, n = flushVer'[t], Covers(t, n, TRUE)'
      PROVE  Covers(t, flushVer[t], TRUE)'
  BY <1>0 DEF Covers, AlwaysPosted, Reaches, Then, OnDisk, Ends
<1>1. /\ TasksInv /\ VersionsInv /\ SessionOpen /\ ~PumpAbort
      /\ Present(t)' /\ flushVer'[t] # NoFile /\ t \notin flushFailed'
      /\ ver[t] \in Nat /\ flushVer[t] \in Int
      /\ NoFile <= flushVer[t] /\ flushVer[t] <= ver[t]
  BY PhaseStep DEF AskedFirst, Seen, Accounting, TypeOK, LtTypeOK, HistoryTypeOK,
     PhaseInv
<1>2. life[t] = "live" /\ (Present(t) \/ (apc[t] = "acked" /\ AddAcked(t)))
  BY <1>1, PresentStep
<1>3. t \notin flushFailed
  BY <1>1, FlushStep
<1>4. CASE FlushVisit(t) /\ t \in handles /\ flushVer'[t] = ver[t]
  <2>1. /\ Present(t) /\ apc[t] \in {"ok", "restored"}
        /\ UNCHANGED <<alerts, batch, ops, queue, current, dirty, disk>>
    <3>1. UNCHANGED <<apc, alerts, batch, ops, queue, current, dirty, disk>>
      BY <1>4 DEF FlushVisit, calls, pumpVars
    <3> QED
      BY <1>1, <1>2, <3>1 DEF Present
  <2>2. CASE t \in need \/ t \in dirty
    <3>1. PostSave(t, "always")
      BY <1>2, <1>4, <2>2 DEF FlushVisit, WorthFlushing, Accepted
    <3>2. PICK id \in Tokens :
            posted' = posted \cup {[t |-> t, id |-> id, flag |-> "always"]}
      BY <3>1 DEF PostSave
    <3> DEFINE p == [t |-> t, id |-> id, flag |-> "always"]
    <3>3. p \in posted' /\ p.t = t /\ p.flag = "always"
      BY <3>2
    <3> QED
      BY <3>3 DEF AlwaysPosted, Covers
  <2>3. CASE t \notin need /\ t \notin dirty
    <3>1. ~AlertPending({"moved"}, t)
      BY <1>4 DEF FlushVisit, MovedInv, Undisturbed
    <3>2. Covers(t, ver[t], FALSE)
      BY <1>1, <1>2, <2>1, <2>3, <3>1 DEF ChangeInv
    <3>3. Covers(t, ver[t], TRUE)
      BY <2>3, <3>2 DEF Covers, Reaches, Then, OnDisk
    <3>4. PICK n \in Int : n = ver[t]
      BY <1>1
    <3>5. Covers(t, n, TRUE)
      BY <3>3, <3>4
    <3>6. AlwaysPosted(t) => AlwaysPosted(t)'
      BY <1>4, PostKept DEF FlushVisit, NoPost
    <3>7. Covers(t, n, TRUE)'
      BY <2>1, <3>5, <3>6, CoversKept
    <3> QED
      BY <1>0, <1>4, <3>4, <3>7
  <2> QED
    BY <2>2, <2>3
<1>5. CASE flushVer'[t] = flushVer[t]
  <2>1. PICK n \in Int : n = flushVer[t] /\ n <= ver[t] /\ NoFile <= n
    BY <1>1
  <2>2. CASE Present(t)
    <3>1. apc[t] \in {"ok", "restored"} /\ Seen(t)
      BY <1>1, <1>3, <1>5, <2>2 DEF Seen, Present
    <3>2. Covers(t, n, TRUE)
      BY <1>1, <2>1, <3>1 DEF SeenInv
    <3>3. flushVer[t] # NoFile /\ t \notin flushFailed' /\ TRUE \in BOOLEAN
      BY <1>1, <1>5
    <3>4. Covers(t, n, TRUE)'
      BY <1>1, <1>2, <2>1, <3>1, <3>2, <3>3, CoversStep DEF Undisturbed
    <3> QED
      BY <1>0, <1>5, <2>1, <3>4
  <2>3. CASE apc[t] = "acked" /\ AddAcked(t)
    <3>1. ver[t] = 0 /\ rpc[t] = "idle"
      BY <2>3 DEF FreshInv, AddRunning
    <3>2. n = 0
      BY <1>1, <1>5, <2>1, <3>1 DEF NoFile
    <3>3. disk[t] # NoFile
      BY <2>3, <3>1 DEF AskedFirst, StoredInv, Asked
    <3>4. t \notin dirty
      BY <2>3 DEF YoungInv, Young, AddRunning, Unsaved
    <3>5. Reaches(t, 0, TRUE)
      BY <1>1, <3>3, <3>4, AllReachZero
    <3>6. UNCHANGED <<alerts, batch, ops, queue, current, dirty, disk>>
      BY <2>3 DEF AddAcked, ltVars, shared, pumpVars
    <3>7. Covers(t, 0, TRUE)'
      BY <3>5, <3>6 DEF Covers, Reaches, Then, OnDisk, Ends
    <3>8. 0 \in Int /\ 0 = flushVer'[t]
      BY <1>5, <2>1, <3>2
    <3> QED
      BY <1>0, <3>7, <3>8
  <2> QED
    BY <1>2, <2>2, <2>3
<1> QED
  BY <1>4, <1>5, FlushStep

\* The flush ends clean when the counter is zero.
LEMMA CleanEnd ==
    ASSUME Next, PhaseInv, flushed # "clean", flushed' = "clean"
    PROVE  FlushEnd /\ inflight = 0 /\ sd = "wait"
<1>1. CASE LibtorrentNext
  BY <1>1 DEF LibtorrentNext, LtAdd, LtRemove, LtExpire, LtChange, LtFinished,
     LtMoved, LtAnswerSave, shutVars
<1>2. CASE PumpNext
  BY <1>2 DEF PumpNext, PumpPop, HandleAddFailed, HandleAdded, HandleRemoved,
     HandleSaveTrigger, RequestSave, HandleSaved, HandleSaveFailed, PumpSend,
     RetryTick, RetryDone, PumpStop, PumpAbort, RetryVisit, shutVars
<1>3. CASE PersisterNext
  BY <1>3 DEF PersisterNext, PersistRecv, PersistWrite, PersistDelete, PersistState,
     shutVars
<1>4. CASE CallNext
  BY <1>4 DEF CallNext, AddCall, AddRegister, AddEnqueue, AddSend, AddAcked,
     AddDelete, AddNacked, AddDrop, RemoveCall, RemoveGiveUp, SaveCall, SaveGiveUp,
     shutVars
<1>5. CASE SweepNext \/ ShutdownNext
  BY <1>5 DEF SweepNext, SweepTick, SweepVisit, ShutdownNext, ShutdownStart,
     FlushStart, FlushWait, FlushEnd, StateSend, StateGiveUp, DropSender,
     PersisterEnd, FlushVisit, shutVars
<1> QED
  BY <1>1, <1>2, <1>3, <1>4, <1>5 DEF Next

LEMMA DrainedStep ==
    ASSUME Accounting, ZeroMeansQuiet, AskedFirst, RemovalInv, FreshInv, YoungInv,
           PhaseInv, SeenInv, DrainedInv, Next
    PROVE  DrainedInv'
<1> SUFFICES ASSUME NEW t \in Torrents, flushed' = "clean", Seen(t)'
             PROVE  Kept(t, flushVer[t])'
  BY DEF DrainedInv
<1>0. ASSUME NEW n \in Int, n = flushVer'[t], Kept(t, n)'
      PROVE  Kept(t, flushVer[t])'
  BY <1>0 DEF Kept, AtLeast
<1>1. /\ TasksInv /\ VersionsInv
      /\ Present(t)' /\ flushVer'[t] # NoFile /\ t \notin flushFailed'
      /\ ver[t] \in Nat /\ flushVer[t] \in Int
      /\ NoFile <= flushVer[t] /\ flushVer[t] <= ver[t]
  BY DEF AskedFirst, Seen, Accounting, TypeOK, LtTypeOK, HistoryTypeOK, PhaseInv
<1>2. PICK n \in Int : n = flushVer[t] /\ n <= ver[t] /\ NoFile <= n
  BY <1>1
<1>3. Present(t) \/ (apc[t] = "acked" /\ AddAcked(t))
  BY <1>1, PresentStep
<1>4. CASE flushed # "clean"
  <2>1. FlushEnd /\ inflight = 0 /\ sd = "wait"
    BY <1>4, CleanEnd
  <2>2. /\ Present(t) /\ flushVer'[t] = flushVer[t] /\ SessionOpen
        /\ UNCHANGED <<alerts, batch, ops, queue, current, dirty, disk, flushFailed>>
    BY <1>3, <2>1 DEF FlushEnd, AddAcked, calls, ltVars, pumpVars, shared, history,
       observed, shutVars, SessionOpen
  <2>3. Covers(t, n, TRUE)
    BY <1>1, <1>2, <2>2 DEF SeenInv, Seen
  <2>4. ~Outstanding(t)
    BY <2>1 DEF ZeroMeansQuiet
  <2>5. /\ ~Mentions(alerts, {"saved"}, t) /\ ~Mentions(batch, {"saved"}, t)
        /\ ~Mentions(ops, {"write"}, t) /\ ~Mentions(queue, {"write"}, t)
        /\ ~Mentions(current, {"write"}, t)
    BY <2>4 DEF Outstanding, AlertPending, OpPending, Mentions
  <2>6. disk[t] >= n /\ t \notin dirty
    BY <2>3, <2>4, <2>5, EndsMentions
       DEF Covers, Reaches, Then, OnDisk, AlwaysPosted, Outstanding
  <2>7. Kept(t, n)
    BY <2>5, <2>6, AtLeastNone DEF Kept
  <2>8. Kept(t, n)'
    BY <2>2, <2>7 DEF Kept, AtLeast
  <2> QED
    BY <1>0, <1>2, <2>2, <2>8
<1>5. CASE flushed = "clean"
  <2>1. ckTodo = {}
    BY <1>5 DEF PhaseInv
  <2>2. flushVer'[t] = flushVer[t] /\ t \notin flushFailed
    BY <1>1, <2>1, FlushStep DEF FlushVisit
  <2>3. CASE Present(t)
    <3>1. Kept(t, n)
      BY <1>1, <1>2, <1>5, <2>2, <2>3 DEF DrainedInv, Seen
    <3>2. Kept(t, n)'
      BY <1>1, <1>2, <2>2, <2>3, <3>1, KeptStep
    <3> QED
      BY <1>0, <1>2, <2>2, <3>2
  <2>4. CASE apc[t] = "acked" /\ AddAcked(t)
    <3>1. ver[t] = 0 /\ rpc[t] = "idle"
      BY <2>4 DEF FreshInv, AddRunning
    <3>2. disk[t] # NoFile
      BY <2>4, <3>1 DEF AskedFirst, StoredInv, Asked
    <3>3. disk[t] >= n
      <4>1. n = 0
        BY <1>1, <1>2, <2>2, <3>1 DEF NoFile
      <4>2. disk[t] \in Int /\ disk[t] >= NoFile
        BY <1>1 DEF VersionsInv, Accounting, TypeOK, SharedTypeOK
      <4> QED
        BY <3>2, <4>1, <4>2 DEF NoFile
    <3>4. Unsaved(t) /\ AddRecord(t)
      BY <2>4 DEF YoungInv, Young, AddRunning
    <3>5. Kept(t, n)
      BY <2>4, <3>3, <3>4, AtLeastNone DEF Unsaved, AddRecord, AlertPending, Kept
    <3>6. UNCHANGED <<alerts, batch, ops, queue, current, dirty, disk>>
      BY <2>4 DEF AddAcked, ltVars, shared, pumpVars
    <3>7. Kept(t, n)'
      BY <3>5, <3>6 DEF Kept, AtLeast
    <3> QED
      BY <1>0, <1>2, <2>2, <3>7
  <2> QED
    BY <1>3, <2>3, <2>4
<1> QED
  BY <1>4, <1>5

LEMMA FlushInit == Init => FlushInv
<1> SUFFICES ASSUME Init PROVE FlushInv
  OBVIOUS
<1>1. /\ alerts = <<>> /\ batch = <<>> /\ ops = <<>> /\ queue = <<>>
      /\ current = <<>> /\ dirty = {} /\ todo = {} /\ posted = {} /\ pc = "select"
      /\ need = {} /\ sd = "run" /\ flushed = "no" /\ ckTodo = {} /\ sweepTodo = {}
      /\ \A t \in Torrents : ver[t] = 0 /\ flushVer[t] = NoFile
  BY DEF Init
<1>2. YoungInv
  BY <1>1, MentionsEmpty, SingleEmpty
     DEF YoungInv, Unsaved, AddRecord, AlertPending
<1>3. PhaseInv
  BY <1>1 DEF PhaseInv, Flushing, NoFile
<1>4. MissedInv /\ SeenInv /\ DrainedInv
  BY <1>1 DEF MissedInv, Missed, Flushing, SeenInv, Seen, DrainedInv
<1> QED
  BY <1>2, <1>3, <1>4 DEF FlushInv

\* The inductive invariant: a torrent the flush saw reaches the disk with the
\* version seen, one that came too late for it is saved as its add left it, and
\* once the counter was zero no older version comes up again.
THEOREM FlushInvariant ==
    ASSUME Undisturbed
    PROVE  Spec => [](Accounting /\ AskedFirst /\ RemovalInv /\ ChangesInv /\ FlushInv)
<1> DEFINE I == Accounting /\ AskedFirst /\ RemovalInv /\ ChangesInv
<1>1. {"race", "earlyRace"} \cap Env = {}
  BY DEF Undisturbed
<1>2. I /\ ZeroMeansQuiet /\ FlushInv /\ [Next]_vars => FlushInv'
  <2> SUFFICES ASSUME I, ZeroMeansQuiet, FlushInv, [Next]_vars PROVE FlushInv'
    OBVIOUS
  <2>1. CASE Next
    <3>1. /\ TasksInv /\ EarlyInv /\ FreshInv /\ HandlesInv /\ MovedInv /\ ChangeInv
          /\ YoungInv /\ PhaseInv /\ MissedInv /\ SeenInv /\ DrainedInv
      BY DEF AskedFirst, RemovalInv, ChangesInv, FlushInv
    <3>2. YoungInv'
      BY <1>1, <2>1, <3>1, YoungStep
    <3>3. PhaseInv'
      BY <2>1, <3>1, PhaseInvStep
    <3>4. MissedInv'
      BY <2>1, <3>1, MissedStep
    <3>5. SeenInv'
      BY <2>1, <3>1, SeenStep
    <3>6. DrainedInv'
      BY <2>1, <3>1, DrainedStep
    <3> QED
      BY <3>2, <3>3, <3>4, <3>5, <3>6 DEF FlushInv
  <2>2. CASE UNCHANGED vars
    <3> USE <2>2 DEF vars, ltVars, shared, pumpVars, calls, shutVars, history, observed,
            FlushInv, AlertPending, Mentions
    <3>1. YoungInv'
      BY DEF YoungInv, Young, AddRunning, Unsaved, AddRecord, Single, Is
    <3>2. PhaseInv'
      BY DEF PhaseInv, Flushing
    <3>3. MissedInv'
      BY DEF MissedInv, Missed, Flushing, Present, Unsaved
    <3>4. SeenInv'
      BY DEF SeenInv, Seen, Present, SessionOpen, Covers, AlwaysPosted, Reaches, Then,
         OnDisk, Ends, Is
    <3>5. DrainedInv'
      BY DEF DrainedInv, Seen, Present, Kept, AtLeast, Is
    <3> QED
      BY <3>1, <3>2, <3>3, <3>4, <3>5
  <2> QED
    BY <2>1, <2>2
<1>3. Spec => []I
  BY ChangeInvariant
<1> QED
  BY <1>2, <1>3, FlushInit, QuietAtZero, PTL DEF Spec

\* A flush that ended because the in-flight counter reached zero has put every
\* version it saw on disk and left nothing marked dirty, but for writes that
\* failed after it saw the torrent and for adds that have not succeeded.
THEOREM CleanFlushesAreComplete ==
    ASSUME Undisturbed
    PROVE  Spec => []CleanFlushIsComplete
<1>1. Accounting /\ AskedFirst /\ RemovalInv /\ ChangesInv /\ FlushInv
        => CleanFlushIsComplete
  <2> SUFFICES ASSUME Accounting, AskedFirst, RemovalInv, ChangesInv, FlushInv,
                      flushed = "clean", NEW t \in registry \cap handles,
                      life[t] = "live", ~AddRunning(t),
                      apc[t] \notin {"err", "dropped"}, t \notin flushFailed
               PROVE  disk[t] >= flushVer[t] /\ t \notin dirty
    BY DEF CleanFlushIsComplete
  <2>1. /\ t \in Torrents /\ apc[t] \in AddStates /\ disk[t] \in Int
        /\ disk[t] >= NoFile
    BY DEF Accounting, TypeOK, SharedTypeOK, CallsTypeOK, AskedFirst, VersionsInv
  <2>2. Present(t)
    BY <2>1 DEF AddStates, AddRunning, RemovalInv, EarlyInv, Present
  <2>3. Flushing /\ ckTodo = {} /\ sd \in Phases
    BY DEF FlushInv, PhaseInv, Flushing, Accounting, TypeOK, TasksTypeOK
  <2>4. CASE flushVer[t] # NoFile
    BY <2>1, <2>2, <2>4 DEF FlushInv, DrainedInv, Seen, Kept
  <2>5. CASE flushVer[t] = NoFile
    BY <2>1, <2>2, <2>3, <2>5 DEF FlushInv, MissedInv, Missed, Unsaved
  <2> QED
    BY <2>4, <2>5
<1> QED
  BY <1>1, FlushInvariant, PTL

(***************************************************************************)
(* Fifth part: the files are a ResumeStore.                                *)
(***************************************************************************)
\* The resume data of t that a save produced, and the record of its add.
IsSave(e, t) == Is(e, {"saved"}, t) \/ (Is(e, {"write"}, t) /\ e.ack = "none")
IsRecord(e, t) == Is(e, {"write"}, t) /\ e.ack = "add"

\* The versions of t in s, and that they do not fall.
Saves(s, t) == {s[i].v : i \in {j \in 1 .. Len(s) : IsSave(s[j], t)}}
Rising(s, t) ==
    \A i, j \in 1 .. Len(s) :
        i < j /\ IsSave(s[i], t) /\ IsSave(s[j], t) => s[i].v <= s[j].v

\* The versions of t that are still to come to a place in the pipeline are n
\* or later.
Since(s, t, n) == \A v \in Saves(s, t) : n <= v
AlertsSince(t, n) == n <= ver[t] /\ Since(alerts, t, n)
BatchSince(t, n) == AlertsSince(t, n) /\ Since(batch, t, n)
OpsSince(t, n) == BatchSince(t, n) /\ Since(ops, t, n)
QueueSince(t, n) == OpsSince(t, n) /\ Since(queue, t, n)
CurrentSince(t, n) == QueueSince(t, n) /\ Since(current, t, n)

\* Nothing overtakes: what is further down the pipeline is not newer.
OrderedInv ==
    \A t \in Torrents :
        /\ Rising(alerts, t) /\ Rising(batch, t) /\ Rising(ops, t) /\ Rising(queue, t)
        /\ \A v \in Saves(batch, t) : AlertsSince(t, v)
        /\ \A v \in Saves(ops, t) : BatchSince(t, v)
        /\ \A v \in Saves(queue, t) : OpsSince(t, v)
        /\ \A v \in Saves(current, t) : QueueSince(t, v)
        /\ CurrentSince(t, disk[t])

\* The record of an add exists once, and only until the add is acknowledged:
\* it cannot replace what was saved after that.
HasRecord(s, t) == \E i \in 1 .. Len(s) : IsRecord(s[i], t)
OneRecord(s, t) ==
    \A i, j \in 1 .. Len(s) :
        IsRecord(s[i], t) => s[i].v = 0 /\ (IsRecord(s[j], t) => i = j)

RecordInv ==
    \A t \in Torrents :
        /\ ~HasRecord(ops, t) /\ OneRecord(queue, t) /\ OneRecord(current, t)
        /\ HasRecord(current, t) => ~HasRecord(queue, t)
        /\ HasRecord(queue, t) \/ HasRecord(current, t)
             => apc[t] \in {"acking", "dropped"}

\* A handle works until the pump learns that its torrent was removed.
HeldInv ==
    \A t \in handles : life[t] = "live" \/ Mentions(alerts, {"removed"}, t)

StoreInv == IdleInv /\ NewsInv /\ HeldInv /\ RecordInv /\ OrderedInv

(***************************************************************************)
(* Entries at the ends of a queue.                                         *)
(***************************************************************************)
LEMMA SavesEmpty == \A t : Saves(<<>>, t) = {} /\ Rising(<<>>, t)
  BY DEF Saves, Rising

LEMMA SavesAppend ==
    ASSUME NEW S, NEW s \in Seq(S), NEW e \in S, NEW t
    PROVE  /\ \A v : v \in Saves(Append(s, e), t) <=>
                        v \in Saves(s, t) \/ (IsSave(e, t) /\ v = e.v)
           /\ Rising(s, t) /\ (IsSave(e, t) => \A v \in Saves(s, t) : v <= e.v)
                => Rising(Append(s, e), t)
<1> DEFINE x == Append(s, e)
<1>1. /\ Len(s) \in Nat /\ Len(x) = Len(s) + 1 /\ x[Len(s) + 1] = e
      /\ \A i \in 1 .. Len(s) : x[i] = s[i]
  BY SeqFacts
<1>2. /\ \A i \in 1 .. Len(x) : i \in 1 .. Len(s) \/ i = Len(s) + 1
      /\ \A i \in 1 .. Len(s) : i \in 1 .. Len(x) /\ ~(Len(s) + 1 < i)
      /\ Len(s) + 1 \in 1 .. Len(x) /\ ~(Len(s) + 1 < Len(s) + 1)
  BY <1>1
<1> HIDE DEF x
<1>3. \A v : v \in Saves(x, t) <=> v \in Saves(s, t) \/ (IsSave(e, t) /\ v = e.v)
  BY <1>1, <1>2 DEF Saves
<1>4. ASSUME Rising(s, t), IsSave(e, t) => \A v \in Saves(s, t) : v <= e.v
      PROVE  Rising(x, t)
  <2> SUFFICES ASSUME NEW i \in 1 .. Len(x), NEW j \in 1 .. Len(x), i < j,
                      IsSave(x[i], t), IsSave(x[j], t)
               PROVE  x[i].v <= x[j].v
    BY DEF Rising
  <2>1. CASE j \in 1 .. Len(s)
    BY <1>1, <1>2, <1>4, <2>1 DEF Rising
  <2>2. CASE j = Len(s) + 1 /\ i \in 1 .. Len(s)
    <3>1. s[i].v \in Saves(s, t) /\ x[i] = s[i] /\ x[j] = e
      BY <1>1, <2>2 DEF Saves
    <3> QED
      BY <1>4, <3>1
  <2> QED
    BY <1>2, <2>1, <2>2
<1> QED
  BY <1>3, <1>4 DEF x

LEMMA SavesTail ==
    ASSUME NEW S, NEW s \in Seq(S), s # <<>>, NEW t
    PROVE  /\ \A v : v \in Saves(s, t) <=>
                        \/ v \in Saves(Tail(s), t)
                        \/ IsSave(Head(s), t) /\ v = Head(s).v
           /\ Rising(s, t) => /\ Rising(Tail(s), t)
                              /\ IsSave(Head(s), t) => Since(Tail(s), t, Head(s).v)
<1> DEFINE x == Tail(s)
<1>1. /\ Len(s) \in Nat /\ Len(s) >= 1 /\ Len(x) = Len(s) - 1
      /\ Head(s) = s[1] /\ \A i \in 1 .. Len(x) : x[i] = s[i + 1]
  BY SeqFacts
<1>2. /\ \A i \in 1 .. Len(x) : i + 1 \in 1 .. Len(s) /\ 1 < i + 1
      /\ \A i, j \in 1 .. Len(x) : i < j => i + 1 < j + 1
      /\ \A i \in 1 .. Len(s) : i = 1 \/ (i - 1 \in 1 .. Len(x) /\ s[i] = x[i - 1])
      /\ 1 \in 1 .. Len(s)
  BY <1>1
<1> HIDE DEF x
<1>3. \A v : v \in Saves(s, t) <=>
               v \in Saves(x, t) \/ (IsSave(s[1], t) /\ v = s[1].v)
  BY <1>1, <1>2 DEF Saves
<1>4. Rising(s, t) => Rising(x, t)
  BY <1>1, <1>2 DEF Rising
<1>5. Rising(s, t) /\ IsSave(s[1], t) => Since(x, t, s[1].v)
  BY <1>1, <1>2 DEF Rising, Since, Saves
<1> QED
  BY <1>1, <1>3, <1>4, <1>5 DEF x

LEMMA RecordEmpty == \A t : ~HasRecord(<<>>, t) /\ OneRecord(<<>>, t)
  BY DEF HasRecord, OneRecord

LEMMA RecordAppend ==
    ASSUME NEW S, NEW s \in Seq(S), NEW e \in S, NEW t
    PROVE  /\ HasRecord(Append(s, e), t) <=> HasRecord(s, t) \/ IsRecord(e, t)
           /\ OneRecord(s, t) /\ (IsRecord(e, t) => e.v = 0 /\ ~HasRecord(s, t))
                => OneRecord(Append(s, e), t)
<1> DEFINE x == Append(s, e)
<1>1. /\ Len(s) \in Nat /\ Len(x) = Len(s) + 1 /\ x[Len(s) + 1] = e
      /\ \A i \in 1 .. Len(s) : x[i] = s[i]
  BY SeqFacts
<1>2. /\ \A i \in 1 .. Len(x) : i \in 1 .. Len(s) \/ i = Len(s) + 1
      /\ \A i \in 1 .. Len(s) : i \in 1 .. Len(x)
      /\ Len(s) + 1 \in 1 .. Len(x)
  BY <1>1
<1> HIDE DEF x
<1>3. HasRecord(x, t) <=> HasRecord(s, t) \/ IsRecord(e, t)
  BY <1>1, <1>2 DEF HasRecord
<1>4. OneRecord(s, t) /\ (IsRecord(e, t) => e.v = 0 /\ ~HasRecord(s, t))
        => OneRecord(x, t)
  BY <1>1, <1>2 DEF HasRecord, OneRecord
<1> QED
  BY <1>3, <1>4 DEF x

LEMMA RecordTail ==
    ASSUME NEW S, NEW s \in Seq(S), s # <<>>, NEW t
    PROVE  /\ HasRecord(s, t) <=> HasRecord(Tail(s), t) \/ IsRecord(Head(s), t)
           /\ OneRecord(s, t) =>
                /\ OneRecord(Tail(s), t)
                /\ IsRecord(Head(s), t) => Head(s).v = 0 /\ ~HasRecord(Tail(s), t)
<1> DEFINE x == Tail(s)
<1>1. /\ Len(s) \in Nat /\ Len(s) >= 1 /\ Len(x) = Len(s) - 1
      /\ Head(s) = s[1] /\ \A i \in 1 .. Len(x) : x[i] = s[i + 1]
  BY SeqFacts
<1>2. /\ \A i \in 1 .. Len(x) : i + 1 \in 1 .. Len(s) /\ i + 1 # 1
      /\ \A i, j \in 1 .. Len(x) : i + 1 = j + 1 => i = j
      /\ \A i \in 1 .. Len(s) : i = 1 \/ (i - 1 \in 1 .. Len(x) /\ s[i] = x[i - 1])
      /\ 1 \in 1 .. Len(s)
  BY <1>1
<1> HIDE DEF x
<1>3. HasRecord(s, t) <=> HasRecord(x, t) \/ IsRecord(s[1], t)
  BY <1>1, <1>2 DEF HasRecord
<1>4. OneRecord(s, t) => OneRecord(x, t)
  BY <1>1, <1>2 DEF OneRecord
<1>5. OneRecord(s, t) /\ IsRecord(s[1], t) => s[1].v = 0 /\ ~HasRecord(x, t)
  BY <1>1, <1>2 DEF OneRecord, HasRecord
<1> QED
  BY <1>1, <1>3, <1>4, <1>5 DEF x

(***************************************************************************)
(* A removed torrent is left alone.                                        *)
(***************************************************************************)
LEMMA IdleStep ==
    ASSUME Accounting, IdleInv, Next
    PROVE  IdleInv'
<1> SUFFICES ASSUME NEW t \in Torrents, apc'[t] = "idle" PROVE life'[t] = "none"
  BY DEF IdleInv
<1>1. /\ apc \in [Torrents -> AddStates] /\ life \in [Torrents -> Lives]
      /\ apc[t] = "idle" => life[t] = "none"
  BY DEF IdleInv, Accounting, TypeOK, LtTypeOK, CallsTypeOK
<1>2. CASE UNCHANGED <<apc, life>>
  BY <1>1, <1>2
<1>3. CASE LibtorrentNext
  BY <1>1, <1>2, <1>3 DEF LibtorrentNext, LtAdd, LtRemove, LtExpire, LtChange,
     LtFinished, LtMoved, LtAnswerSave, calls
<1>4. CASE PumpNext
  <2>1. CASE PumpPop
    BY <1>1, <2>1 DEF PumpPop
  <2> QED
    BY <1>2, <1>4, <2>1 DEF PumpNext, HandleAddFailed, HandleAdded, HandleRemoved,
       HandleSaveTrigger, RequestSave, HandleSaved, HandleSaveFailed, PumpSend,
       RetryTick, RetryDone, PumpStop, PumpAbort, RetryVisit, calls, ltVars
<1>5. CASE PersisterNext
  BY <1>1, <1>2, <1>5 DEF PersisterNext, PersistRecv, PersistWrite, PersistDelete,
     PersistState, calls, ltVars
<1>6. CASE CallNext
  <2> SUFFICES ASSUME NEW u \in Torrents,
                      \/ AddCall(u) \/ AddRegister(u) \/ AddEnqueue(u)
                      \/ AddSend(u) \/ AddAcked(u) \/ AddDelete(u)
                      \/ AddNacked(u) \/ AddDrop(u) \/ RemoveCall(u)
                      \/ RemoveGiveUp(u) \/ SaveCall(u) \/ SaveGiveUp(u)
               PROVE  life'[t] = "none"
    BY <1>6 DEF CallNext
  <2>1. CASE RemoveCall(u) \/ RemoveGiveUp(u) \/ SaveCall(u) \/ SaveGiveUp(u)
    BY <1>2, <2>1 DEF RemoveCall, RemoveGiveUp, SaveCall, SaveGiveUp, ltVars
  <2>2. CASE AddCall(u)
    BY <1>1, <2>2 DEF AddCall
  <2>3. CASE AddRegister(u) \/ AddSend(u) \/ AddAcked(u) \/ AddDelete(u) \/ AddDrop(u)
    BY <1>1, <2>3 DEF AddRegister, AddSend, AddAcked, AddDelete, AddDrop, ltVars
  <2>4. CASE AddEnqueue(u) \/ AddNacked(u)
    BY <1>1, <2>4 DEF AddEnqueue, AddNacked, Unwind
  <2> QED
    BY <2>1, <2>2, <2>3, <2>4
<1>7. CASE SweepNext
  BY <1>2, <1>7 DEF SweepNext, SweepTick, SweepVisit, calls, ltVars
<1>8. CASE ShutdownNext
  BY <1>2, <1>8 DEF ShutdownNext, ShutdownStart, FlushStart, FlushWait, FlushEnd,
     StateSend, StateGiveUp, DropSender, PersisterEnd, FlushVisit, calls, ltVars
<1> QED
  BY <1>3, <1>4, <1>5, <1>6, <1>7, <1>8 DEF Next

\* The pump alone changes what the handles resolve to, at the head of a batch.
LEMMA OnlyPopHandles ==
    ASSUME Next, ~PumpPop
    PROVE  UNCHANGED handles
<1>1. CASE LibtorrentNext \/ PersisterNext
  BY <1>1 DEF LibtorrentNext, LtAdd, LtRemove, LtExpire, LtChange, LtFinished,
     LtMoved, LtAnswerSave, PersisterNext, PersistRecv, PersistWrite,
     PersistDelete, PersistState, ltVars
<1>2. CASE PumpNext
  BY <1>2 DEF PumpNext, HandleAddFailed, HandleAdded, HandleRemoved,
     HandleSaveTrigger, RequestSave, HandleSaved, HandleSaveFailed, PumpSend,
     RetryTick, RetryDone, PumpStop, PumpAbort, RetryVisit, ltVars
<1>3. CASE CallNext
  BY <1>3 DEF CallNext, AddCall, AddRegister, AddEnqueue, AddSend, AddAcked,
     AddDelete, AddNacked, AddDrop, RemoveCall, RemoveGiveUp, SaveCall,
     SaveGiveUp, ltVars
<1>4. CASE SweepNext \/ ShutdownNext
  BY <1>4 DEF SweepNext, SweepTick, SweepVisit, ShutdownNext, ShutdownStart,
     FlushStart, FlushWait, FlushEnd, StateSend, StateGiveUp, DropSender,
     PersisterEnd, FlushVisit, ltVars
<1> QED
  BY <1>1, <1>2, <1>3, <1>4 DEF Next

LEMMA HeldStep ==
    ASSUME Accounting, TasksInv, NewsInv, IdleInv, HeldInv, Next
    PROVE  HeldInv'
<1> SUFFICES ASSUME NEW t \in handles'
             PROVE  life'[t] = "live" \/ Mentions(alerts', {"removed"}, t)
  BY DEF HeldInv
<1> USE DEF AlertPending
<1>1. /\ life \in [Torrents -> Lives] /\ handles \subseteq Torrents
      /\ alerts \in Seq(Alert)
  BY DEF Accounting, TypeOK, LtTypeOK
<1>2. CASE PumpPop
  <2>1. /\ t \in Torrents
        /\ t \in handles \/ Announced("added", t)
        /\ ~Announced("removed", t) /\ UNCHANGED life /\ batch = <<>>
    BY <1>2 DEF PumpPop, TasksInv
  <2>2. /\ ~Mentions(alerts, {"removed"}, t) /\ ~Mentions(batch, {"removed"}, t)
        /\ Announced("added", t) => Mentions(alerts, {"added"}, t)
    BY <2>1, MentionsEmpty DEF Announced, Mentions
  <2>3. t \in handles => life[t] = "live"
    BY <2>2 DEF HeldInv
  <2>4. Announced("added", t) => life[t] = "live"
    BY <2>1, <2>2 DEF NewsInv, Handled
  <2> QED
    BY <2>1, <2>3, <2>4
<1>3. CASE ~PumpPop
  <2>1. t \in handles /\ t \in Torrents
    BY <1>1, <1>3, OnlyPopHandles
  <2>2. life[t] = "live" \/ Mentions(alerts, {"removed"}, t)
    BY <2>1 DEF HeldInv
  <2>3. CASE UNCHANGED <<alerts, batch>> /\ LifeGoesOn(t)
    BY <2>1, <2>2, <2>3 DEF LifeGoesOn, IdleInv
  <2>4. CASE AlertQueued
    <3>1. PICK a \in Alert :
            /\ alerts' = Append(alerts, a)
            /\ a.kind \in {"added", "addFailed"} => life[a.t] = "adding"
            /\ a.kind = "added" => life' = [life EXCEPT ![a.t] = "live"]
            /\ a.kind = "addFailed" => life' = [life EXCEPT ![a.t] = "failed"]
            /\ a.kind = "removed" => life' = [life EXCEPT ![a.t] = "removed"]
            /\ a.kind \notin {"added", "addFailed", "removed"} => UNCHANGED life
      BY <2>4 DEF AlertQueued
    <3>2. Mentions(alerts', {"removed"}, t)
            <=> Mentions(alerts, {"removed"}, t) \/ (a.t = t /\ a.kind = "removed")
      BY <1>1, <3>1, MentionsAppend DEF Is
    <3> QED
      BY <1>1, <2>1, <2>2, <3>1, <3>2
  <2>5. CASE AlertHandled
    BY <2>2, <2>5 DEF AlertHandled
  <2> QED
    BY <1>3, <2>1, <2>3, <2>4, <2>5, AlertFlowStep DEF AlertFlow
<1> QED
  BY <1>2, <1>3

\* Saves and removals are asked for by handle, and by calls that still run.
LEMMA RequestStep ==
    ASSUME Accounting, Next, NEW t \in Torrents, t \notin handles
    PROVE  /\ (\A p \in posted : p.t # t) => \A p \in posted' : p.t # t
           /\ t \in rmPosted' => t \in rmPosted
<1> DEFINE P == /\ (\A p \in posted : p.t # t) => \A p \in posted' : p.t # t
                /\ t \in rmPosted' => t \in rmPosted
<1>1. CASE posted' \subseteq posted /\ rmPosted' \subseteq rmPosted
  BY <1>1
<1>2. ASSUME NEW u, NEW flag, u # t, PostSave(u, flag), rmPosted' \subseteq rmPosted
      PROVE  P
  BY <1>2 DEF PostSave
<1>3. CASE LibtorrentNext
  BY <1>1, <1>3 DEF LibtorrentNext, LtAdd, LtRemove, LtExpire, LtChange, LtFinished,
     LtMoved, LtAnswerSave
<1>4. CASE PumpNext
  <2>1. CASE RequestSave
    BY <1>1, <1>2, <2>1 DEF RequestSave, NoPost
  <2>2. ASSUME NEW u \in Torrents, RetryVisit(u) PROVE P
    BY <1>1, <1>2, <2>2 DEF RetryVisit, NoPost
  <2> QED
    BY <1>1, <1>4, <2>1, <2>2 DEF PumpNext, PumpPop, HandleAddFailed, HandleAdded,
       HandleRemoved, HandleSaveTrigger, HandleSaved, HandleSaveFailed, PumpSend,
       RetryTick, RetryDone, PumpStop, PumpAbort, ltVars
<1>5. CASE PersisterNext
  BY <1>1, <1>5 DEF PersisterNext, PersistRecv, PersistWrite, PersistDelete,
     PersistState, ltVars
<1>6. CASE CallNext
  <2>1. ASSUME NEW u \in Torrents, SaveCall(u) PROVE P
    BY <1>1, <1>2, <2>1 DEF SaveCall, NoPost
  <2>2. ASSUME NEW u \in Torrents, RemoveCall(u) \/ AddEnqueue(u) \/ AddNacked(u)
        PROVE  P
    BY <2>2 DEF RemoveCall, AddEnqueue, AddNacked, Unwind
  <2> QED
    BY <1>1, <1>6, <2>1, <2>2 DEF CallNext, AddCall, AddRegister, AddSend, AddAcked,
       AddDelete, AddDrop, RemoveGiveUp, SaveGiveUp, ltVars
<1>7. CASE SweepNext
  <2>1. ASSUME NEW u \in Torrents, SweepVisit(u) PROVE P
    BY <1>1, <1>2, <2>1 DEF SweepVisit, NoPost
  <2> QED
    BY <1>1, <1>7, <2>1 DEF SweepNext, SweepTick, ltVars
<1>8. CASE ShutdownNext
  <2>1. ASSUME NEW u \in Torrents, FlushVisit(u) PROVE P
    BY <1>1, <1>2, <2>1 DEF FlushVisit, NoPost
  <2> QED
    BY <1>1, <1>8, <2>1 DEF ShutdownNext, ShutdownStart, FlushStart, FlushWait,
       FlushEnd, StateSend, StateGiveUp, DropSender, PersisterEnd, ltVars
<1> QED
  BY <1>3, <1>4, <1>5, <1>6, <1>7, <1>8 DEF Next

\* Alerts of a torrent come from the session, or answer a save.
LEMMA SilentStep ==
    ASSUME Accounting, TasksInv, Next, NEW t \in Torrents,
           ~AlertPending(AlertKinds, t), life[t] \notin {"adding", "live"},
           \A p \in posted : p.t # t
    PROVE  ~Mentions(alerts', AlertKinds, t) /\ ~Mentions(batch', AlertKinds, t)
<1> USE DEF AlertPending
<1>1. CASE UNCHANGED <<alerts, batch>>
  BY <1>1
<1>2. CASE AlertQueued
  <2>1. PICK a \in Alert :
          /\ alerts' = Append(alerts, a) /\ UNCHANGED batch
          /\ a.kind \in {"added", "addFailed"} => life[a.t] = "adding"
          /\ a.kind = "removed" => life[a.t] = "live"
          /\ a.kind \in {"finished", "moved"} => life[a.t] = "live"
          /\ a.kind \in {"saved", "saveFailed"} => \E p \in posted : p.t = a.t
    BY <1>2 DEF AlertQueued
  <2>2. a.kind \in AlertKinds
    BY DEF Alert
  <2>3. a.t # t
    BY <2>1, <2>2 DEF AlertKinds
  <2> QED
    BY <2>1, <2>3, HeadFacts, MentionsAppend DEF Is
<1>3. CASE PumpPop
  BY <1>3, MentionsEmpty DEF PumpPop
<1>4. CASE AlertHandled
  BY <1>4, HeadFacts, MentionsTail DEF AlertHandled
<1> QED
  BY <1>1, <1>2, <1>3, <1>4, AlertFlowStep DEF AlertFlow

\* Operations come from alerts, or from the add call.
LEMMA IdleOpsStep ==
    ASSUME Accounting, TasksInv, Next, NEW t \in Torrents,
           ~AlertPending(AlertKinds, t), ~AddRunning(t),
           NEW kinds \in SUBSET {"write", "delete"}, ~OpPending(kinds, t)
    PROVE  /\ ~Mentions(ops', kinds, t) /\ ~Mentions(queue', kinds, t)
           /\ ~Mentions(current', kinds, t)
<1> USE DEF OpPending
<1>1. CASE UNCHANGED <<ops, queue, current>>
  BY <1>1
<1>2. CASE OpCollected
  <2>1. PICK o \in PersistOp :
          /\ ops' = Append(ops, o) /\ UNCHANGED <<queue, current>>
          /\ o.kind = "write" => HandleSaved /\ o.t = Head(batch).t
          /\ o.kind = "delete" => HandleRemoved /\ o.t = Head(batch).t
    BY <1>2 DEF OpCollected
  <2>2. ~Is(o, kinds, t)
    <3> SUFFICES ASSUME Is(o, kinds, t) PROVE FALSE
      OBVIOUS
    <3>1. /\ batch # <<>> /\ Head(batch).t = t
          /\ Head(batch).kind \in {"saved", "removed"}
      BY <2>1 DEF Is, HandleSaved, HandleRemoved, Consume
    <3>2. Is(Head(batch), AlertKinds, t)
      BY <3>1 DEF Is, AlertKinds
    <3> QED
      BY <3>1, <3>2, HeadFacts, MentionsTail DEF AlertPending
  <2> QED
    BY <2>1, <2>2, MovedOn
<1>3. CASE OpQueued
  <2>1. PICK o \in PersistOp :
          /\ queue' = Append(queue, o) /\ UNCHANGED <<ops, current>>
          /\ o.kind = "write" => AddSend(o.t)
          /\ o.kind = "delete" => AddDelete(o.t)
    BY <1>3 DEF OpQueued
  <2>2. ~Is(o, kinds, t)
    BY <2>1 DEF Is, AddSend, AddDelete, AddRunning
  <2> QED
    BY <2>1, <2>2, MovedOn
<1>4. CASE PumpSend /\ ops # <<>> /\ queue' = Append(queue, Head(ops))
           /\ ops' = Tail(ops)
  BY <1>4, MovedOn DEF PumpSend
<1>5. CASE PumpAbort
  BY <1>5, MentionsEmpty DEF PumpAbort, shared
<1>6. CASE PersistRecv
  BY <1>6, MovedOn DEF PersistRecv, pumpVars
<1>7. CASE PersistWrite \/ PersistDelete \/ PersistState
  BY <1>7, MentionsEmpty DEF PersistWrite, PersistDelete, PersistState, pumpVars, shared
<1> QED
  BY <1>1, <1>2, <1>3, <1>4, <1>5, <1>6, <1>7, OpsFlowStep DEF OpsFlow

\* What the persister does to the files.
LEMMA DiskStep ==
    ASSUME Accounting, AskedFirst, Next
    PROVE  \/ UNCHANGED disk
           \/ /\ PersistWrite /\ current # <<>> /\ current[1].kind = "write"
              /\ current[1].t \in Torrents /\ current[1].v \in Nat
              /\ Mentions(current, {"write"}, current[1].t)
              /\ disk' = [disk EXCEPT ![current[1].t] = current[1].v]
           \/ /\ PersistDelete /\ current # <<>> /\ current[1].t \in Torrents
              /\ Mentions(current, {"delete"}, current[1].t)
              /\ disk' = [disk EXCEPT ![current[1].t] = NoFile]
<1>1. TasksInv /\ VersionsInv
  BY DEF AskedFirst
<1>2. CASE PersistWrite
  <2>1. /\ current # <<>> /\ current[1].kind = "write"
        /\ disk' = disk \/ disk' = [disk EXCEPT ![current[1].t] = current[1].v]
    BY <1>2 DEF PersistWrite, write_atomic
  <2>2. current[1].t \in Torrents /\ current[1].v \in Nat
    BY <1>1, <2>1, CurrentFacts
  <2>3. Mentions(current, {"write"}, current[1].t)
    BY <1>1, <2>1, OnlyCurrent DEF Is
  <2> QED
    BY <1>2, <2>1, <2>2, <2>3
<1>3. CASE PersistDelete
  <2>1. /\ current # <<>> /\ current[1].kind = "delete"
        /\ disk' = disk \/ disk' = [disk EXCEPT ![current[1].t] = NoFile]
    BY <1>3 DEF PersistDelete
  <2> QED
    BY <1>1, <1>3, <2>1, CurrentFacts
<1> QED
  BY <1>2, <1>3, OpsFlowStep DEF OpsFlow, OpCollected, OpQueued, PumpSend, PumpAbort,
     PersistRecv, PersistState, shared

\* A removal that is complete stays complete.
LEMMA VanishedStep ==
    ASSUME Accounting, AskedFirst, IdleInv, NewsInv, HeldInv, Next,
           NEW t \in Torrents, Vanished(t)
    PROVE  Vanished(t)'
<1>1. /\ TypeOK /\ TasksInv /\ disk \in [Torrents -> Int]
  BY DEF Accounting, AskedFirst, TypeOK, SharedTypeOK
<1>2. /\ Asked(t) /\ life[t] \in {"removed", "gone"} /\ disk[t] = NoFile
      /\ ~AddRunning(t) /\ t \notin rmPosted /\ \A p \in posted : p.t # t
      /\ ~AlertPending(AlertKinds, t)
      /\ ~OpPending({"write"}, t) /\ ~OpPending({"delete"}, t)
  BY DEF Vanished, Busy, Outstanding
<1>3. apc[t] # "idle"
  BY <1>2 DEF IdleInv
<1>4. t \notin handles
  <2>1. ~Mentions(alerts, {"removed"}, t)
    BY <1>2 DEF AlertPending, Mentions, AlertKinds
  <2> QED
    BY <1>2, <2>1 DEF HeldInv
<1>5. Asked(t)' /\ life'[t] \in {"removed", "gone"}
  BY <1>1, <1>2, AskedStays, HandledStep
<1>6. ~AddRunning(t)'
  BY <1>1, <1>2, <1>3, AddStep
<1>7. t \notin rmPosted' /\ \A p \in posted' : p.t # t
  BY <1>2, <1>4, RequestStep
<1>8. ~AlertPending(AlertKinds, t)' /\ ~AlertPending({"saved", "saveFailed"}, t)'
  <2>1. ~Mentions(alerts', AlertKinds, t) /\ ~Mentions(batch', AlertKinds, t)
    BY <1>1, <1>2, SilentStep
  <2> QED
    BY <2>1 DEF AlertPending, Mentions, AlertKinds
<1>9. ~OpPending({"write"}, t)' /\ ~OpPending({"delete"}, t)'
  BY <1>1, <1>2, IdleOpsStep DEF OpPending
<1>10. disk'[t] = NoFile
  BY <1>1, <1>2, DiskStep DEF OpPending
<1> QED
  BY <1>5, <1>6, <1>7, <1>8, <1>9, <1>10 DEF Vanished, Busy, Outstanding

LEMMA RecordStep ==
    ASSUME Accounting, TasksInv, RecordInv, Next
    PROVE  RecordInv'
<1> DEFINE R(t) ==
        /\ ~HasRecord(ops, t) /\ OneRecord(queue, t) /\ OneRecord(current, t)
        /\ HasRecord(current, t) => ~HasRecord(queue, t)
        /\ HasRecord(queue, t) \/ HasRecord(current, t)
             => apc[t] \in {"acking", "dropped"}
<1> SUFFICES ASSUME NEW t \in Torrents PROVE R(t)'
  BY DEF RecordInv
<1>1. R(t)
  BY DEF RecordInv
<1>2. PersistWrite => current # <<>> /\ current' = <<>>
  BY DEF PersistWrite
<1>3. apc[t] \in {"acking", "dropped"} =>
        \/ apc'[t] \in {"acking", "dropped"}
        \/ /\ PersistWrite /\ current # <<>>
           /\ current[1].t = t /\ current[1].ack = "add"
  BY AckingStep
<1>4. CASE UNCHANGED <<ops, queue, current>>
  BY <1>1, <1>2, <1>3, <1>4
<1>5. CASE OpCollected
  <2>1. PICK o \in PersistOp :
          /\ ops' = Append(ops, o) /\ UNCHANGED <<queue, current, apc>>
          /\ o.kind = "write" => o.ack = "none"
    BY <1>5 DEF OpCollected
  <2>2. ~IsRecord(o, t)
    BY <2>1 DEF IsRecord, Is
  <2>3. ~HasRecord(ops', t)
    BY <1>1, <2>1, <2>2, HeadFacts, RecordAppend
  <2> QED
    BY <1>1, <2>1, <2>3
<1>6. CASE OpQueued
  <2>1. PICK o \in PersistOp :
          /\ queue' = Append(queue, o) /\ UNCHANGED <<ops, current>>
          /\ o.kind = "write" => AddSend(o.t) /\ o.v = 0 /\ o.ack = "add"
    BY <1>6 DEF OpQueued
  <2>2. /\ HasRecord(queue', t) <=> HasRecord(queue, t) \/ IsRecord(o, t)
        /\ (IsRecord(o, t) => o.v = 0 /\ ~HasRecord(queue, t)) => OneRecord(queue', t)
    BY <1>1, <2>1, HeadFacts, RecordAppend
  <2>3. CASE IsRecord(o, t)
    <3>1. o.v = 0 /\ apc[t] = "sending" /\ apc'[t] = "acking"
      BY <2>1, <2>3 DEF IsRecord, Is, AddSend, Accounting, TypeOK, CallsTypeOK
    <3>2. ~HasRecord(queue, t) /\ ~HasRecord(current, t)
      BY <1>1, <3>1
    <3> QED
      BY <1>1, <2>1, <2>2, <3>1, <3>2
  <2>4. CASE ~IsRecord(o, t)
    BY <1>1, <1>2, <1>3, <2>1, <2>2, <2>4
  <2> QED
    BY <2>3, <2>4
<1>7. CASE PumpSend /\ ops # <<>> /\ queue' = Append(queue, Head(ops))
           /\ ops' = Tail(ops)
  <2>1. UNCHANGED <<current, apc>>
    BY <1>7 DEF PumpSend, calls
  <2>2. ~IsRecord(Head(ops), t) /\ ~HasRecord(ops', t)
    BY <1>1, <1>7, HeadFacts, RecordTail
  <2>3. OneRecord(queue', t) /\ (HasRecord(queue', t) <=> HasRecord(queue, t))
    BY <1>1, <1>7, <2>2, HeadFacts, RecordAppend
  <2> QED
    BY <1>1, <2>1, <2>2, <2>3
<1>8. CASE PumpAbort
  BY <1>1, <1>8, RecordEmpty DEF PumpAbort, shared, calls
<1>9. CASE PersistRecv
  <2> DEFINE h == Head(queue)
  <2>1. /\ queue # <<>> /\ current = <<>> /\ current' = <<h>> /\ queue' = Tail(queue)
        /\ UNCHANGED <<ops, apc>> /\ <<h>> = Append(<<>>, h)
    BY <1>9 DEF PersistRecv, pumpVars, calls
  <2>2. h \in PersistOp /\ <<>> \in Seq(PersistOp)
    BY <2>1, HeadFacts
  <2>3. /\ HasRecord(queue, t) <=> HasRecord(queue', t) \/ IsRecord(h, t)
        /\ OneRecord(queue', t)
        /\ IsRecord(h, t) => h.v = 0 /\ ~HasRecord(queue', t)
    BY <1>1, <2>1, HeadFacts, RecordTail
  <2>4. /\ OneRecord(Append(<<>>, h), t)
        /\ HasRecord(Append(<<>>, h), t) <=> IsRecord(h, t)
    BY <2>2, <2>3, RecordEmpty, RecordAppend
  <2> HIDE DEF h
  <2> QED
    BY <1>1, <2>1, <2>3, <2>4
<1>10. CASE PersistWrite
  <2>1. /\ current # <<>> /\ current' = <<>> /\ UNCHANGED <<queue, ops>>
        /\ current[1].kind = "write"
    BY <1>10 DEF PersistWrite, pumpVars
  <2>2. 1 \in 1 .. Len(current)
    BY <2>1, HeadFacts
  <2>3. current[1].t = t /\ current[1].ack = "add" => HasRecord(current, t)
    BY <2>1, <2>2 DEF HasRecord, IsRecord, Is
  <2> QED
    BY <1>1, <1>3, <2>1, <2>3, RecordEmpty
<1>11. CASE PersistDelete \/ PersistState
  <2>1. current' = <<>> /\ UNCHANGED <<queue, ops, apc>>
    BY <1>11 DEF PersistDelete, PersistState, shared, calls, pumpVars
  <2> QED
    BY <1>1, <2>1, RecordEmpty
<1> QED
  BY <1>4, <1>5, <1>6, <1>7, <1>8, <1>9, <1>10, <1>11, OpsFlowStep DEF OpsFlow

(***************************************************************************)
(* Nothing overtakes.                                                      *)
(***************************************************************************)
LEMMA SavesOne ==
    ASSUME NEW o, NEW t
    PROVE  \A v : v \in Saves(<<o>>, t) <=> IsSave(o, t) /\ v = o.v
<1>1. Len(<<o>>) = 1 /\ <<o>>[1] = o
  OBVIOUS
<1>2. 1 \in 1 .. Len(<<o>>) /\ \A i \in 1 .. Len(<<o>>) : i = 1
  BY <1>1
<1> QED
  BY <1>1, <1>2 DEF Saves

\* Alerts are no operations, and an operation is a save or a record.
LEMMA SaveKind ==
    ASSUME NEW t
    PROVE  /\ \A a \in Alert : IsSave(a, t) <=> a.kind = "saved" /\ a.t = t
           /\ \A o \in PersistOp :
                /\ IsSave(o, t) => o.kind = "write" /\ o.ack = "none" /\ o.t = t
                /\ Is(o, {"write"}, t) => IsSave(o, t) \/ IsRecord(o, t)
<1>1. "write" \notin AlertKinds /\ "state" \notin AlertKinds
  BY DEF AlertKinds
<1>2. \A a \in Alert : a.kind \in AlertKinds
  BY DEF Alert
<1>3. \A a \in Alert : IsSave(a, t) <=> a.kind = "saved" /\ a.t = t
  BY <1>1, <1>2 DEF IsSave, Is
<1>4. \A o \in PersistOp : o.kind # "saved" /\ (o.kind = "write" => o.ack \in {"add", "none"})
  BY DEF PersistOp, WriteOp, DeleteOp, StateOp
<1>5. \A o \in PersistOp :
        /\ IsSave(o, t) => o.kind = "write" /\ o.ack = "none" /\ o.t = t
        /\ Is(o, {"write"}, t) => IsSave(o, t) \/ IsRecord(o, t)
  BY <1>4 DEF IsSave, IsRecord, Is
<1> QED
  BY <1>3, <1>5

\* Versions under way lie between 0 and the version of the torrent.
LEMMA SavesBounds ==
    ASSUME Accounting, VersionsInv, NEW t \in Torrents
    PROVE  /\ \A v \in Saves(alerts, t) : v \in Int /\ 0 <= v /\ v <= ver[t]
           /\ \A v \in Saves(batch, t) : v \in Int /\ 0 <= v
           /\ \A v \in Saves(ops, t) : v \in Int /\ 0 <= v
           /\ \A v \in Saves(queue, t) : v \in Int /\ 0 <= v
           /\ \A v \in Saves(current, t) : v \in Int /\ 0 <= v
<1>1. /\ alerts \in Seq(Alert) /\ batch \in Seq(Alert)
      /\ ops \in Seq(PersistOp) /\ queue \in Seq(PersistOp)
      /\ current \in Seq(PersistOp)
  BY HeadFacts
<1>2. ASSUME NEW s \in Seq(Alert), Within(s, {"saved"}, ver), NEW v \in Saves(s, t)
      PROVE  v \in Int /\ 0 <= v /\ v <= ver[t]
  <2>1. PICK i \in 1 .. Len(s) : IsSave(s[i], t) /\ v = s[i].v
    BY DEF Saves
  <2>2. s[i] \in Alert /\ s[i].v \in Int
    BY EntryTypes
  <2>3. s[i].kind = "saved" /\ s[i].t = t
    BY <2>1, <2>2, SaveKind
  <2>4. s[i].v >= 0 /\ s[i].v <= ver[t]
    BY <1>2, <2>3 DEF Within
  <2> QED
    BY <2>1, <2>2, <2>4
<1>3. ASSUME NEW s \in Seq(PersistOp), Within(s, {"write"}, ver), NEW v \in Saves(s, t)
      PROVE  v \in Int /\ 0 <= v
  <2>1. PICK i \in 1 .. Len(s) : IsSave(s[i], t) /\ v = s[i].v
    BY DEF Saves
  <2>2. s[i] \in PersistOp
    OBVIOUS
  <2>3. s[i].kind = "write"
    BY <2>1, <2>2, SaveKind
  <2>4. s[i].v \in Int
    BY <2>3, EntryTypes
  <2>5. s[i].v >= 0
    BY <1>3, <2>3 DEF Within
  <2> QED
    BY <2>1, <2>4, <2>5
<1> QED
  BY <1>1, <1>2, <1>3 DEF VersionsInv

LEMMA NothingBelowZero ==
    ASSUME Accounting, VersionsInv, NEW t \in Torrents, NEW n \in Int, n <= 0
    PROVE  QueueSince(t, n)
<1>1. ver[t] \in Nat
  BY DEF Accounting, TypeOK, LtTypeOK
<1>2. \A v \in Int : 0 <= v => n <= v
  OBVIOUS
<1> QED
  BY <1>1, <1>2, SavesBounds DEF QueueSince, OpsSince, BatchSince, AlertsSince, Since

\* What is still to come only gets newer.
LEMMA AlertsSinceStep ==
    ASSUME Accounting, TasksInv, Next, NEW t \in Torrents, NEW n \in Int,
           AlertsSince(t, n)
    PROVE  AlertsSince(t, n)' /\ (Since(batch, t, n) => Since(batch', t, n))
<1>1. /\ TypeOK /\ ver[t] \in Nat /\ n <= ver[t] /\ Since(alerts, t, n)
  BY DEF Accounting, TypeOK, LtTypeOK, AlertsSince
<1>2. n <= ver'[t]
  <2>1. ver'[t] = ver[t] \/ ver'[t] = ver[t] + 1
    BY <1>1, VerStep
  <2> QED
    BY <1>1, <2>1
<1>3. CASE UNCHANGED <<alerts, batch>>
  BY <1>1, <1>2, <1>3 DEF AlertsSince
<1>4. CASE AlertQueued
  <2>1. PICK a \in Alert :
          /\ alerts' = Append(alerts, a) /\ UNCHANGED batch
          /\ a.kind = "saved" => a.v = ver[a.t]
    BY <1>4 DEF AlertQueued
  <2>2. IsSave(a, t) => a.v = ver[t]
    BY <2>1, SaveKind
  <2>3. Since(alerts', t, n)
    BY <1>1, <2>1, <2>2, HeadFacts, SavesAppend DEF Since
  <2> QED
    BY <1>2, <2>1, <2>3 DEF AlertsSince
<1>5. CASE PumpPop
  BY <1>1, <1>2, <1>5, SavesEmpty DEF PumpPop, AlertsSince, Since
<1>6. CASE AlertHandled
  BY <1>1, <1>2, <1>6, HeadFacts, SavesTail DEF AlertHandled, AlertsSince, Since
<1> QED
  BY <1>3, <1>4, <1>5, <1>6, AlertFlowStep DEF AlertFlow

LEMMA OpsSinceStep ==
    ASSUME Accounting, TasksInv, Next, NEW t \in Torrents, NEW n \in Int,
           OpsSince(t, n)
    PROVE  /\ Since(ops', t, n)
           /\ Since(queue, t, n) => Since(queue', t, n)
           /\ Since(queue, t, n) /\ Since(current, t, n) => Since(current', t, n)
<1>1. Since(batch, t, n) /\ Since(ops, t, n)
  BY DEF OpsSince, BatchSince
<1>2. CASE UNCHANGED <<ops, queue, current>>
  BY <1>1, <1>2
<1>3. CASE OpCollected
  <2>1. PICK o \in PersistOp :
          /\ ops' = Append(ops, o) /\ UNCHANGED <<queue, current>>
          /\ o.kind = "write" => /\ HandleSaved /\ o.t = Head(batch).t
                                 /\ o.v = Head(batch).v
    BY <1>3 DEF OpCollected
  <2>2. ASSUME IsSave(o, t) PROVE n <= o.v
    <3>1. /\ HandleSaved /\ Head(batch).t = t /\ o.v = Head(batch).v
      BY <2>1, <2>2, SaveKind
    <3>2. batch # <<>> /\ IsSave(Head(batch), t)
      BY <3>1 DEF HandleSaved, Consume, IsSave, Is
    <3> QED
      BY <1>1, <3>1, <3>2, HeadFacts, SavesTail DEF Since
  <2>3. Since(ops', t, n)
    BY <1>1, <2>1, <2>2, HeadFacts, SavesAppend DEF Since
  <2> QED
    BY <2>1, <2>3
<1>4. CASE OpQueued
  <2>1. PICK o \in PersistOp :
          /\ queue' = Append(queue, o) /\ UNCHANGED <<ops, current>>
          /\ o.kind = "write" => o.ack = "add"
    BY <1>4 DEF OpQueued
  <2>2. ~IsSave(o, t)
    BY <2>1, SaveKind
  <2>3. Since(queue, t, n) => Since(queue', t, n)
    BY <2>1, <2>2, HeadFacts, SavesAppend DEF Since
  <2> QED
    BY <1>1, <2>1, <2>3
<1>5. CASE PumpSend /\ ops # <<>> /\ queue' = Append(queue, Head(ops))
           /\ ops' = Tail(ops)
  <2>1. Since(ops', t, n) /\ (IsSave(Head(ops), t) => n <= Head(ops).v)
    BY <1>1, <1>5, HeadFacts, SavesTail DEF Since
  <2>2. Since(queue, t, n) => Since(queue', t, n)
    BY <1>5, <2>1, HeadFacts, SavesAppend DEF Since
  <2>3. UNCHANGED current
    BY <1>5 DEF PumpSend
  <2> QED
    BY <2>1, <2>2, <2>3
<1>6. CASE PumpAbort
  BY <1>6, SavesEmpty DEF PumpAbort, shared, Since
<1>7. CASE PersistRecv
  <2> DEFINE h == Head(queue)
  <2>1. /\ queue # <<>> /\ current' = <<h>> /\ queue' = Tail(queue)
        /\ UNCHANGED ops
    BY <1>7 DEF PersistRecv, pumpVars
  <2>2. Since(queue, t, n) =>
          Since(Tail(queue), t, n) /\ (IsSave(h, t) => n <= h.v)
    BY <2>1, HeadFacts, SavesTail DEF Since
  <2>3. \A v : v \in Saves(<<h>>, t) <=> IsSave(h, t) /\ v = h.v
    BY SavesOne
  <2> HIDE DEF h
  <2>4. (IsSave(h, t) => n <= h.v) => Since(<<h>>, t, n)
    BY <2>3 DEF Since
  <2> QED
    BY <1>1, <2>1, <2>2, <2>4
<1>8. CASE PersistWrite \/ PersistDelete \/ PersistState
  <2>1. current' = <<>> /\ UNCHANGED <<ops, queue>>
    BY <1>8 DEF PersistWrite, PersistDelete, PersistState, shared, pumpVars
  <2> QED
    BY <1>1, <2>1, SavesEmpty DEF Since
<1> QED
  BY <1>2, <1>3, <1>4, <1>5, <1>6, <1>7, <1>8, OpsFlowStep DEF OpsFlow

LEMMA SinceStep ==
    ASSUME Accounting, TasksInv, Next, NEW t \in Torrents, NEW n \in Int
    PROVE  /\ AlertsSince(t, n) => AlertsSince(t, n)'
           /\ BatchSince(t, n) => BatchSince(t, n)'
           /\ OpsSince(t, n) => OpsSince(t, n)'
           /\ QueueSince(t, n) => QueueSince(t, n)'
           /\ CurrentSince(t, n) => CurrentSince(t, n)'
  BY AlertsSinceStep, OpsSinceStep DEF BatchSince, OpsSince, QueueSince, CurrentSince

\* The alerts, queued and being handled.
LEMMA OrderedAlerts ==
    ASSUME Accounting, TasksInv, VersionsInv, OrderedInv, Next, NEW t \in Torrents
    PROVE  /\ Rising(alerts', t) /\ Rising(batch', t)
           /\ \A v \in Saves(batch', t) : AlertsSince(t, v)'
<1>1. /\ Rising(alerts, t) /\ Rising(batch, t)
      /\ \A v \in Saves(batch, t) : AlertsSince(t, v)
  BY DEF OrderedInv
<1>2. /\ \A v \in Saves(alerts, t) : v \in Int /\ v <= ver[t]
      /\ \A v \in Saves(batch, t) : v \in Int
  BY SavesBounds
<1>3. \A v \in Saves(batch, t) : AlertsSince(t, v)'
  BY <1>1, <1>2, SinceStep
<1>4. CASE UNCHANGED <<alerts, batch>>
  BY <1>1, <1>3, <1>4
<1>5. CASE AlertQueued
  <2>1. PICK a \in Alert :
          /\ alerts' = Append(alerts, a) /\ UNCHANGED batch
          /\ a.kind = "saved" => a.v = ver[a.t]
    BY <1>5 DEF AlertQueued
  <2>2. IsSave(a, t) => a.v = ver[t]
    BY <2>1, SaveKind
  <2>3. Rising(alerts', t)
    BY <1>1, <1>2, <2>1, <2>2, HeadFacts, SavesAppend
  <2> QED
    BY <1>1, <1>3, <2>1, <2>3
<1>6. CASE PumpPop
  <2>1. batch' = alerts /\ alerts' = <<>> /\ UNCHANGED ver
    BY <1>6 DEF PumpPop
  <2> QED
    BY <1>1, <1>2, <2>1, SavesEmpty DEF AlertsSince, Since
<1>7. CASE AlertHandled
  <2>1. batch # <<>> /\ batch' = Tail(batch) /\ UNCHANGED alerts
    BY <1>7 DEF AlertHandled
  <2>2. Rising(batch', t) /\ \A v \in Saves(batch', t) : v \in Saves(batch, t)
    BY <1>1, <2>1, HeadFacts, SavesTail
  <2> QED
    BY <1>1, <1>3, <2>1, <2>2
<1> QED
  BY <1>4, <1>5, <1>6, <1>7, AlertFlowStep DEF AlertFlow

\* The operations the pump has collected, and those that are queued.
LEMMA OrderedOps ==
    ASSUME Accounting, TasksInv, VersionsInv, OrderedInv, Next, NEW t \in Torrents
    PROVE  /\ Rising(ops', t) /\ Rising(queue', t)
           /\ \A v \in Saves(ops', t) : BatchSince(t, v)'
           /\ \A v \in Saves(queue', t) : OpsSince(t, v)'
<1>1. /\ Rising(batch, t) /\ Rising(ops, t) /\ Rising(queue, t)
      /\ \A v \in Saves(batch, t) : AlertsSince(t, v)
      /\ \A v \in Saves(ops, t) : BatchSince(t, v)
      /\ \A v \in Saves(queue, t) : OpsSince(t, v)
  BY DEF OrderedInv
<1>2. /\ \A v \in Saves(batch, t) : v \in Int
      /\ \A v \in Saves(ops, t) : v \in Int
      /\ \A v \in Saves(queue, t) : v \in Int
  BY SavesBounds
<1>3. /\ \A v \in Saves(batch, t) : AlertsSince(t, v)'
      /\ \A v \in Saves(ops, t) : BatchSince(t, v)'
      /\ \A v \in Saves(queue, t) : OpsSince(t, v)'
  BY <1>1, <1>2, SinceStep
<1>4. CASE UNCHANGED <<ops, queue>>
  BY <1>1, <1>3, <1>4
<1>5. CASE OpCollected
  <2>1. PICK o \in PersistOp :
          /\ ops' = Append(ops, o) /\ UNCHANGED queue
          /\ o.kind = "write" => /\ HandleSaved /\ o.t = Head(batch).t
                                 /\ o.v = Head(batch).v
    BY <1>5 DEF OpCollected
  <2>2. ASSUME IsSave(o, t)
        PROVE  BatchSince(t, o.v)' /\ \A v \in Saves(ops, t) : v <= o.v
    <3>1. /\ HandleSaved /\ Head(batch).t = t /\ o.v = Head(batch).v
      BY <2>1, <2>2, SaveKind
    <3>2. /\ batch # <<>> /\ batch' = Tail(batch) /\ IsSave(Head(batch), t)
      BY <3>1 DEF HandleSaved, Consume, IsSave, Is
    <3>3. o.v \in Saves(batch, t) /\ Since(batch', t, o.v)
      BY <1>1, <3>1, <3>2, HeadFacts, SavesTail
    <3> QED
      BY <1>1, <1>3, <3>3 DEF BatchSince, Since
  <2>3. /\ \A v : v \in Saves(ops', t) <=>
                    v \in Saves(ops, t) \/ (IsSave(o, t) /\ v = o.v)
        /\ Rising(ops', t)
    BY <1>1, <2>1, <2>2, HeadFacts, SavesAppend
  <2> QED
    BY <1>1, <1>3, <2>1, <2>2, <2>3
<1>6. CASE OpQueued
  <2>1. PICK o \in PersistOp :
          /\ queue' = Append(queue, o) /\ UNCHANGED ops
          /\ o.kind = "write" => o.ack = "add"
    BY <1>6 DEF OpQueued
  <2>2. ~IsSave(o, t)
    BY <2>1, SaveKind
  <2>3. Rising(queue', t) /\ \A v : v \in Saves(queue', t) <=> v \in Saves(queue, t)
    BY <1>1, <2>1, <2>2, HeadFacts, SavesAppend
  <2> QED
    BY <1>1, <1>3, <2>1, <2>3
<1>7. CASE PumpSend /\ ops # <<>> /\ queue' = Append(queue, Head(ops))
           /\ ops' = Tail(ops)
  <2>1. PICK h \in PersistOp : h = Head(ops)
    BY <1>7, HeadFacts
  <2>2. /\ Rising(ops', t)
        /\ \A v : v \in Saves(ops, t) <=>
                    v \in Saves(ops', t) \/ (IsSave(h, t) /\ v = h.v)
        /\ IsSave(h, t) => Since(ops', t, h.v)
    BY <1>1, <1>7, <2>1, HeadFacts, SavesTail
  <2>3. \A v : v \in Saves(queue', t) <=>
                 v \in Saves(queue, t) \/ (IsSave(h, t) /\ v = h.v)
    BY <1>7, <2>1, HeadFacts, SavesAppend
  <2>4. ASSUME IsSave(h, t)
        PROVE  OpsSince(t, h.v)' /\ \A v \in Saves(queue, t) : v <= h.v
    <3>1. h.v \in Saves(ops, t)
      BY <2>2, <2>4
    <3>2. OpsSince(t, h.v)'
      BY <1>3, <2>2, <2>4, <3>1 DEF OpsSince
    <3>3. \A v \in Saves(queue, t) : v <= h.v
      BY <1>1, <3>1 DEF OpsSince, Since
    <3> QED
      BY <3>2, <3>3
  <2>5. Rising(queue', t)
    BY <1>1, <1>7, <2>1, <2>4, HeadFacts, SavesAppend
  <2>6. \A v \in Saves(ops', t) : v \in Saves(ops, t)
    BY <2>2
  <2> QED
    BY <1>3, <2>2, <2>3, <2>4, <2>5, <2>6
<1>8. CASE PumpAbort
  BY <1>1, <1>3, <1>8, SavesEmpty DEF PumpAbort, shared
<1>9. CASE PersistRecv
  <2>1. queue # <<>> /\ queue' = Tail(queue) /\ UNCHANGED ops
    BY <1>9 DEF PersistRecv, pumpVars
  <2>2. Rising(queue', t) /\ \A v \in Saves(queue', t) : v \in Saves(queue, t)
    BY <1>1, <2>1, HeadFacts, SavesTail
  <2> QED
    BY <1>1, <1>3, <2>1, <2>2
<1>10. CASE PersistWrite \/ PersistDelete \/ PersistState
  <2>1. UNCHANGED <<ops, queue>>
    BY <1>10 DEF PersistWrite, PersistDelete, PersistState, shared, pumpVars
  <2> QED
    BY <1>4, <2>1
<1> QED
  BY <1>4, <1>5, <1>6, <1>7, <1>8, <1>9, <1>10, OpsFlowStep DEF OpsFlow

\* What is being written, and the file.
LEMMA OrderedDisk ==
    ASSUME Accounting, AskedFirst, RecordInv, OrderedInv, Next, NEW t \in Torrents
    PROVE  /\ \A v \in Saves(current', t) : QueueSince(t, v)'
           /\ CurrentSince(t, disk[t])'
<1>1. /\ Rising(queue, t)
      /\ \A v \in Saves(queue, t) : OpsSince(t, v)
      /\ \A v \in Saves(current, t) : QueueSince(t, v)
      /\ CurrentSince(t, disk[t])
      /\ TasksInv /\ VersionsInv /\ disk \in [Torrents -> Int]
  BY DEF OrderedInv, AskedFirst, Accounting, TypeOK, SharedTypeOK
<1>2. /\ \A v \in Saves(queue, t) : v \in Int
      /\ \A v \in Saves(current, t) : v \in Int
  BY <1>1, SavesBounds
<1>3. /\ \A v \in Saves(queue, t) : OpsSince(t, v)'
      /\ \A v \in Saves(current, t) : QueueSince(t, v)'
      /\ disk'[t] = disk[t] => CurrentSince(t, disk[t])'
  <2>1. disk[t] \in Int
    BY <1>1
  <2>2. \A n \in Int : CurrentSince(t, n) => CurrentSince(t, n)'
    BY <1>1, SinceStep
  <2>3. \A n \in Int : /\ OpsSince(t, n) => OpsSince(t, n)'
                       /\ QueueSince(t, n) => QueueSince(t, n)'
    BY <1>1, SinceStep
  <2>4. disk'[t] = disk[t] => CurrentSince(t, disk[t])'
    BY <1>1, <2>1, <2>2 DEF CurrentSince, QueueSince, OpsSince, BatchSince, AlertsSince
  <2> QED
    BY <1>1, <1>2, <2>3, <2>4
<1>4. \A v \in Saves(current', t) : QueueSince(t, v)'
  <2>1. CASE UNCHANGED current
    BY <1>3, <2>1
  <2>2. CASE PersistRecv
    <3> DEFINE h == Head(queue)
    <3>1. queue # <<>> /\ current' = <<h>> /\ queue' = Tail(queue)
      BY <2>2 DEF PersistRecv
    <3>2. IsSave(h, t) => h.v \in Saves(queue, t) /\ Since(queue', t, h.v)
      BY <1>1, <3>1, HeadFacts, SavesTail
    <3>3. \A v : v \in Saves(<<h>>, t) <=> IsSave(h, t) /\ v = h.v
      BY SavesOne
    <3> HIDE DEF h
    <3> QED
      BY <1>3, <3>1, <3>2, <3>3 DEF QueueSince
  <2>3. CASE PersistWrite \/ PersistDelete \/ PersistState
    BY <2>3, SavesEmpty DEF PersistWrite, PersistDelete, PersistState
  <2> QED
    BY <2>1, <2>2, <2>3, OpsFlowStep DEF OpsFlow, OpCollected, OpQueued, PumpSend,
       PumpAbort
<1>5. \A n \in Int : n <= 0 => QueueSince(t, n)'
  BY <1>1, NothingBelowZero, SinceStep
<1>6. ASSUME PersistWrite \/ PersistDelete, NEW n, disk'[t] = n, QueueSince(t, n)'
      PROVE  CurrentSince(t, disk[t])'
  <2>1. current' = <<>>
    BY <1>6 DEF PersistWrite, PersistDelete
  <2> QED
    BY <1>6, <2>1, SavesEmpty DEF CurrentSince, Since
<1>7. CASE disk'[t] = disk[t]
  BY <1>1, <1>3, <1>4, <1>7
<1>8. CASE /\ PersistWrite /\ current # <<>> /\ current[1].kind = "write"
           /\ current[1].t = t /\ disk'[t] = current[1].v
  <2> DEFINE o == current[1]
  <2>1. o \in PersistOp /\ 1 \in 1 .. Len(current)
    BY <1>8, HeadFacts
  <2>2. IsSave(o, t) \/ IsRecord(o, t)
    BY <1>8, <2>1, SaveKind DEF Is
  <2>3. CASE IsSave(o, t)
    <3>1. o.v \in Saves(current, t)
      BY <2>1, <2>3 DEF Saves
    <3> QED
      BY <1>3, <1>4, <1>6, <1>8, <3>1
  <2>4. CASE IsRecord(o, t)
    <3>1. o.v = 0
      BY <2>1, <2>4 DEF RecordInv, OneRecord
    <3> QED
      BY <1>4, <1>5, <1>6, <1>8, <3>1
  <2> QED
    BY <2>2, <2>3, <2>4
<1>9. CASE PersistDelete /\ disk'[t] = NoFile
  BY <1>4, <1>5, <1>6, <1>9 DEF NoFile
<1> QED
  BY <1>1, <1>7, <1>8, <1>9, DiskStep

LEMMA StoreInit == Init => StoreInv
<1> SUFFICES ASSUME Init PROVE StoreInv
  OBVIOUS
<1>1. NewsInv /\ IdleInv
  BY MentionsEmpty, OrderlyEmpty DEF Init, NewsInv, Handled, IdleInv, AlertPending
<1>2. HeldInv
  BY DEF Init, HeldInv
<1>3. RecordInv
  BY RecordEmpty DEF Init, RecordInv
<1>4. OrderedInv
  <2>1. ASSUME NEW t \in Torrents PROVE CurrentSince(t, disk[t])
    BY SavesEmpty DEF Init, CurrentSince, QueueSince, OpsSince, BatchSince,
       AlertsSince, Since, NoFile
  <2> QED
    BY <2>1, SavesEmpty DEF Init, OrderedInv
<1> QED
  BY <1>1, <1>2, <1>3, <1>4 DEF StoreInv

\* What is written for a torrent comes in the order in which libtorrent
\* produced it, and the record of its add before all of it: the inductive
\* invariant of the files.
THEOREM StoreInvariant == Spec => [](Accounting /\ AskedFirst /\ StoreInv)
<1>1. Accounting /\ AskedFirst /\ StoreInv /\ [Next]_vars => StoreInv'
  <2> SUFFICES ASSUME Accounting, AskedFirst, StoreInv, [Next]_vars
               PROVE  StoreInv'
    OBVIOUS
  <2>1. /\ TasksInv /\ VersionsInv
        /\ IdleInv /\ NewsInv /\ HeldInv /\ RecordInv /\ OrderedInv
    BY DEF AskedFirst, StoreInv
  <2>2. CASE Next
    <3>1. IdleInv' /\ NewsInv' /\ HeldInv' /\ RecordInv'
      BY <2>1, <2>2, IdleStep, NewsKept, HeldStep, RecordStep
    <3>2. OrderedInv'
      <4>1. ASSUME NEW t \in Torrents
            PROVE  /\ Rising(alerts', t) /\ Rising(batch', t)
                   /\ \A v \in Saves(batch', t) : AlertsSince(t, v)'
        BY <2>1, <2>2, OrderedAlerts
      <4>2. ASSUME NEW t \in Torrents
            PROVE  /\ Rising(ops', t) /\ Rising(queue', t)
                   /\ \A v \in Saves(ops', t) : BatchSince(t, v)'
                   /\ \A v \in Saves(queue', t) : OpsSince(t, v)'
        BY <2>1, <2>2, OrderedOps
      <4>3. ASSUME NEW t \in Torrents
            PROVE  /\ \A v \in Saves(current', t) : QueueSince(t, v)'
                   /\ CurrentSince(t, disk[t])'
        BY <2>1, <2>2, OrderedDisk
      <4> QED
        BY <4>1, <4>2, <4>3 DEF OrderedInv
    <3> QED
      BY <3>1, <3>2 DEF StoreInv
  <2>3. CASE UNCHANGED vars
    <3>1. UNCHANGED <<life, ver, handles, alerts, batch, ops, queue, current, apc,
                      disk>>
      BY <2>3 DEF vars, ltVars, shared, pumpVars, calls
    <3>2. IdleInv' /\ NewsInv' /\ HeldInv' /\ RecordInv'
      BY <2>1, <3>1 DEF IdleInv, NewsInv, HeldInv, RecordInv, Handled, AlertPending
    <3>3. OrderedInv'
      BY <2>1, <3>1 DEF OrderedInv, CurrentSince, QueueSince, OpsSince, BatchSince,
         AlertsSince
    <3> QED
      BY <3>2, <3>3 DEF StoreInv
  <2> QED
    BY <2>2, <2>3
<1> QED
  BY <1>1, StoreInit, AskedFirstInvariant, PTL DEF Spec

(***************************************************************************)
(* Every step is one of the store, or a stutter.                           *)
(***************************************************************************)
\* How the phase of a torrent reads.
Reads(t) ==
    /\ StorePhase[t] \in Store!Phases
    /\ StorePhase[t] = "gone" <=> Vanished(t)
    /\ StorePhase[t] = "released" <=> Asked(t) /\ ~Vanished(t)
    /\ StorePhase[t] = "kept" <=> ~Asked(t) /\ apc[t] \in {"ok", "restored"}

LEMMA PhaseReads ==
    ASSUME NEW t \in Torrents
    PROVE  Reads(t) /\ Reads(t)'
<1>1. /\ Vanished(t) => Asked(t)
      /\ Vanished(t)' => Asked(t)'
  BY DEF Vanished
<1>2. Reads(t)
  BY <1>1 DEF Reads, StorePhase, Store!Phases
<1>3. Reads(t)'
  BY <1>1 DEF Reads, StorePhase, Store!Phases
<1> QED
  BY <1>2, <1>3

\* An add call that has returned has returned.
LEMMA OkStays ==
    ASSUME TypeOK, Next, NEW t \in Torrents, apc[t] \in {"ok", "restored"}
    PROVE  apc'[t] = apc[t]
<1>1. apc \in [Torrents -> AddStates]
  BY DEF TypeOK, CallsTypeOK
<1>2. CASE UNCHANGED apc
  BY <1>2
<1>3. CASE PersisterNext
  <2>1. CASE PersistWrite
    BY <1>1, <2>1 DEF PersistWrite
  <2> QED
    BY <1>2, <1>3, <2>1 DEF PersisterNext, PersistRecv, PersistDelete, PersistState,
       calls
<1>4. CASE PumpNext
  <2>1. CASE PumpPop
    BY <1>1, <2>1 DEF PumpPop
  <2> QED
    BY <1>2, <1>4, <2>1 DEF PumpNext, HandleAddFailed, HandleAdded, HandleRemoved,
       HandleSaveTrigger, RequestSave, HandleSaved, HandleSaveFailed, PumpSend,
       RetryTick, RetryDone, PumpStop, PumpAbort, RetryVisit, calls
<1>5. CASE CallNext
  <2> SUFFICES ASSUME NEW u \in Torrents,
                      \/ AddCall(u) \/ AddRegister(u) \/ AddEnqueue(u)
                      \/ AddSend(u) \/ AddAcked(u) \/ AddDelete(u)
                      \/ AddNacked(u) \/ AddDrop(u) \/ RemoveCall(u)
                      \/ RemoveGiveUp(u) \/ SaveCall(u) \/ SaveGiveUp(u)
               PROVE  apc'[t] = apc[t]
    BY <1>5 DEF CallNext
  <2>1. CASE \/ AddCall(u) \/ AddRegister(u) \/ AddSend(u) \/ AddAcked(u)
             \/ AddDelete(u) \/ AddDrop(u)
    BY <1>1, <2>1 DEF AddCall, AddRegister, AddSend, AddAcked, AddDelete, AddDrop,
       AddRunning
  <2>2. CASE AddEnqueue(u) \/ AddNacked(u)
    BY <1>1, <2>2 DEF AddEnqueue, AddNacked, Unwind
  <2> QED
    BY <1>2, <2>1, <2>2 DEF RemoveCall, RemoveGiveUp, SaveCall, SaveGiveUp
<1>6. CASE LibtorrentNext \/ SweepNext \/ ShutdownNext
  BY <1>2, <1>6 DEF LibtorrentNext, LtAdd, LtRemove, LtExpire, LtChange, LtFinished,
     LtMoved, LtAnswerSave, SweepNext, SweepTick, SweepVisit, ShutdownNext,
     ShutdownStart, FlushStart, FlushWait, FlushEnd, StateSend, StateGiveUp,
     DropSender, PersisterEnd, FlushVisit, calls
<1> QED
  BY <1>3, <1>4, <1>5, <1>6 DEF Next

\* The persister works for one torrent; the others see nothing of it.
LEMMA OthersWait ==
    ASSUME Accounting, TasksInv, PersistWrite \/ PersistDelete,
           NEW t \in Torrents, t # current[1].t, disk'[t] = disk[t]
    PROVE  StorePhase'[t] = StorePhase[t]
<1>1. /\ current # <<>> /\ current' = <<>> /\ apc \in [Torrents -> AddStates]
      /\ UNCHANGED <<life, posted, rmPosted, alerts, batch, ops, queue, rpc>>
  BY DEF PersistWrite, PersistDelete, ltVars, pumpVars, calls, Accounting, TypeOK,
     CallsTypeOK
<1>2. apc'[t] = apc[t]
  BY <1>1 DEF PersistWrite, PersistDelete, calls
<1>3. \A kinds : ~Mentions(current, kinds, t) /\ ~Mentions(current', kinds, t)
  BY <1>1, OnlyCurrent, MentionsEmpty DEF Is
<1>4. Asked(t)' <=> Asked(t)
  BY <1>1, <1>2 DEF Asked
<1>5. Busy(t)' <=> Busy(t)
  BY <1>1, <1>2, <1>3 DEF Busy, AddRunning, Outstanding, AlertPending, OpPending
<1>6. Vanished(t)' <=> Vanished(t)
  BY <1>1, <1>4, <1>5 DEF Vanished
<1> QED
  BY <1>2, <1>4, <1>6 DEF StorePhase

LEMMA StoreTypes ==
    ASSUME Accounting, AskedFirst
    PROVE  disk \in [Torrents -> Nat \cup {NoFile}]
<1>1. disk \in [Torrents -> Int] /\ \A t \in Torrents : disk[t] >= NoFile
  BY DEF Accounting, AskedFirst, TypeOK, SharedTypeOK, VersionsInv
<1>2. \A n \in Int : n >= NoFile => n \in Nat \cup {NoFile}
  BY DEF NoFile
<1> QED
  BY <1>1, <1>2

LEMMA StoreInitial == Init => Store!StoreInit
<1> SUFFICES ASSUME Init PROVE Store!StoreInit
  OBVIOUS
<1>1. disk \in [Torrents -> {NoFile, 0}]
  BY DEF Init, NoFile
<1>2. ASSUME NEW t \in Torrents
      PROVE  StorePhase[t] = IF disk[t] = NoFile THEN "new" ELSE "kept"
  BY DEF Init, StorePhase, Vanished, Asked, NoFile
<1>3. StorePhase =
        [t \in Torrents |-> IF disk[t] = NoFile THEN "new" ELSE "kept"]
  BY <1>2 DEF StorePhase
<1> QED
  BY <1>1, <1>3 DEF Store!StoreInit

LEMMA PhasesType == StorePhase \in [Torrents -> Store!Phases] /\
                    StorePhase' \in [Torrents -> Store!Phases]
<1>1. /\ StorePhase = [t \in Torrents |-> StorePhase[t]]
      /\ StorePhase' = [t \in Torrents |-> StorePhase'[t]]
  BY DEF StorePhase
<1> QED
  BY <1>1, PhaseReads DEF Reads

\* The phases advance without the files when calls are made or return, and
\* when the last work for a removed torrent is done.
LEMMA PhasesAdvance ==
    ASSUME Accounting, AskedFirst, StoreInv, Next, StoredInv', UNCHANGED disk
    PROVE  Store!Advance
<1>1. TypeOK /\ IdleInv /\ NewsInv /\ HeldInv
  BY DEF Accounting, StoreInv
<1>2. ASSUME NEW t \in Torrents PROVE Store!Advances(t)
  <2>1. Asked(t) => Asked(t)'
    BY <1>1, AskedStays
  <2>2. Vanished(t) => Vanished(t)'
    BY <1>1, VanishedStep
  <2>3. apc[t] \in {"ok", "restored"} => apc'[t] \in {"ok", "restored"}
    BY <1>1, OkStays
  <2>4. apc'[t] \in {"ok", "restored"} => Asked(t)' \/ disk[t] # NoFile
    BY DEF StoredInv
  <2>5. Vanished(t)' => disk[t] = NoFile
    BY DEF Vanished
  <2>6. Reads(t) /\ Reads(t)'
    BY PhaseReads
  <2> QED
    BY <2>1, <2>2, <2>3, <2>4, <2>5, <2>6 DEF Reads, Store!Advances, Store!Phases
<1> QED
  BY <1>2, PhasesType DEF Store!Advance

LEMMA OneReplaced ==
    ASSUME Accounting, TasksInv, AskedFirst, Accounting', AskedFirst',
           PersistWrite \/ PersistDelete, NEW t \in Torrents, t = current[1].t,
           \A u \in Torrents \ {t} : disk'[u] = disk[u]
    PROVE  Store!Replaces(t)
<1>1. disk' \in [Torrents -> Nat \cup {NoFile}]
  <2>1. /\ disk' \in [Torrents -> Int]
        /\ \A u \in Torrents : disk'[u] >= NoFile
    BY DEF Accounting, AskedFirst, TypeOK, SharedTypeOK, VersionsInv, NoFile
  <2>2. \A n \in Int : n >= NoFile => n \in Nat \cup {NoFile}
    BY DEF NoFile
  <2> QED
    BY <2>1, <2>2
<1>2. \A u \in Torrents \ {t} : StorePhase'[u] = StorePhase[u]
  BY OthersWait
<1> QED
  BY <1>1, <1>2, PhasesType DEF Store!Replaces

\* A write does not replace a newer file, nor make one for a removed torrent.
LEMMA WriteStores ==
    ASSUME Accounting, AskedFirst, StoreInv, Accounting', AskedFirst',
           PersistWrite, current # <<>>, current[1].kind = "write",
           NEW t \in Torrents, t = current[1].t, NEW v \in Nat, v = current[1].v,
           Mentions(current, {"write"}, t), disk' = [disk EXCEPT ![t] = v]
    PROVE  Store!Write(t)
<1>1. /\ TasksInv /\ RecordInv /\ OrderedInv /\ disk \in [Torrents -> Int]
      /\ apc \in [Torrents -> AddStates]
  BY DEF AskedFirst, StoreInv, Accounting, TypeOK, SharedTypeOK, CallsTypeOK
<1>2. disk'[t] = v /\ v # NoFile /\ \A u \in Torrents \ {t} : disk'[u] = disk[u]
  BY <1>1 DEF NoFile
<1>3. Store!Replaces(t)
  BY <1>1, <1>2, OneReplaced
<1>4. ~Vanished(t) /\ ~Vanished(t)'
  BY <1>2 DEF Vanished, Busy, Outstanding, OpPending
<1>5. StorePhase'[t] = StorePhase[t]
  <2>1. UNCHANGED rpc
    BY DEF PersistWrite
  <2>2. /\ apc'[t] = "err" <=> apc[t] = "err"
        /\ apc'[t] \in {"ok", "restored"} <=> apc[t] \in {"ok", "restored"}
    BY <1>1 DEF PersistWrite
  <2>3. Asked(t)' <=> Asked(t)
    BY <2>1, <2>2 DEF Asked
  <2> QED
    BY <1>4, <2>2, <2>3 DEF StorePhase
<1>6. ASSUME StorePhase[t] = "kept" PROVE disk[t] <= v
  <2>1. apc[t] \in {"ok", "restored"}
    BY <1>6, PhaseReads DEF Reads
  <2>2. current[1] \in PersistOp /\ 1 \in 1 .. Len(current)
    BY HeadFacts
  <2>3. ~IsRecord(current[1], t)
    BY <1>1, <2>1, <2>2 DEF RecordInv, HasRecord
  <2>4. IsSave(current[1], t)
    BY <2>2, <2>3, SaveKind DEF Is
  <2>5. v \in Saves(current, t)
    BY <2>2, <2>4 DEF Saves
  <2> QED
    BY <1>1, <2>5 DEF OrderedInv, CurrentSince, Since
<1>7. StorePhase[t] # "gone"
  BY <1>4, PhaseReads DEF Reads
<1> QED
  BY <1>2, <1>3, <1>5, <1>6, <1>7 DEF Store!Write

\* Only the file of a torrent that is to be removed is deleted.
LEMMA DeleteReleases ==
    ASSUME Accounting, AskedFirst, Accounting', AskedFirst', TypeOK, Next,
           PersistDelete, NEW t \in Torrents, t = current[1].t,
           Mentions(current, {"delete"}, t), disk' = [disk EXCEPT ![t] = NoFile]
    PROVE  Store!Delete(t)
<1>1. TasksInv /\ disk \in [Torrents -> Int]
  BY DEF AskedFirst, Accounting, TypeOK, SharedTypeOK
<1>2. disk'[t] = NoFile /\ \A u \in Torrents \ {t} : disk'[u] = disk[u]
  BY <1>1
<1>3. Store!Replaces(t)
  BY <1>1, <1>2, OneReplaced
<1>4. Asked(t) /\ ~Vanished(t)
  BY DEF AskedFirst, AskedInv, Leaving, OpPending, Vanished, Busy
<1>5. Asked(t)'
  BY <1>4, AskedStays
<1>6. StorePhase[t] = "released" /\ StorePhase'[t] \in {"released", "gone"}
  BY <1>4, <1>5, PhaseReads DEF Reads
<1> QED
  BY <1>2, <1>3, <1>6 DEF Store!Delete

LEMMA StoreStep ==
    ASSUME Accounting, AskedFirst, StoreInv, Accounting', AskedFirst', [Next]_vars
    PROVE  [Store!StoreNext]_(Store!storeVars)
<1>1. CASE UNCHANGED vars
  <2>1. UNCHANGED <<life, posted, rmPosted, alerts, batch, ops, queue, current,
                    apc, rpc, disk>>
    BY <1>1 DEF vars, ltVars, shared, pumpVars, calls
  <2>2. StorePhase' = StorePhase
    BY <2>1 DEF StorePhase, Vanished, Asked, Busy, AddRunning, Outstanding,
       AlertPending, OpPending
  <2> QED
    BY <2>1, <2>2 DEF Store!storeVars
<1>2. CASE Next
  <2>1. TypeOK /\ TasksInv /\ StoredInv'
    BY DEF Accounting, AskedFirst
  <2>2. CASE UNCHANGED disk
    BY <1>2, <2>1, <2>2, PhasesAdvance DEF Store!StoreNext
  <2>3. CASE /\ PersistWrite /\ current # <<>> /\ current[1].kind = "write"
             /\ current[1].t \in Torrents /\ current[1].v \in Nat
             /\ Mentions(current, {"write"}, current[1].t)
             /\ disk' = [disk EXCEPT ![current[1].t] = current[1].v]
    <3>1. PICK t \in Torrents : t = current[1].t
      BY <2>3
    <3>2. PICK v \in Nat : v = current[1].v
      BY <2>3
    <3>3. Store!Write(t)
      BY <2>3, <3>1, <3>2, WriteStores
    <3> QED
      BY <3>3 DEF Store!StoreNext
  <2>4. CASE /\ PersistDelete /\ current # <<>> /\ current[1].t \in Torrents
             /\ Mentions(current, {"delete"}, current[1].t)
             /\ disk' = [disk EXCEPT ![current[1].t] = NoFile]
    <3>1. PICK t \in Torrents : t = current[1].t
      BY <2>4
    <3>2. Store!Delete(t)
      BY <1>2, <2>1, <2>4, <3>1, DeleteReleases
    <3> QED
      BY <3>2 DEF Store!StoreNext
  <2> QED
    BY <1>2, <2>2, <2>3, <2>4, DiskStep
<1> QED
  BY <1>1, <1>2

\* The resume files keep the promise of ResumeStore, whatever races, fails or
\* is abandoned: an acknowledged torrent has a file until its removal is asked
\* for, its file never goes back to older resume data, only the file of a
\* torrent that is to be removed is deleted, and none comes back after that.
THEOREM StoreImplemented == Spec => ImplementsStore
  BY StoreInvariant, StoreInitial, StoreStep, PTL
  DEF Spec, ImplementsStore, Store!StoreSpec
================================================================================
