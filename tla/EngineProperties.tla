--------------------------- MODULE EngineProperties ---------------------------
(***************************************************************************)
(* What makes the engine of module Engine correct.                         *)
(***************************************************************************)
EXTENDS Engine

(***************************************************************************)
(* Where work on a torrent can still be under way.                         *)
(***************************************************************************)
Mentions(seq, kinds, t) ==
    \E i \in 1 .. Len(seq) :
        seq[i].kind \in kinds /\ seq[i].kind # "state" /\ seq[i].t = t

OpPending(kinds, t) ==
    \/ Mentions(ops, kinds, t)
    \/ Mentions(queue, kinds, t)
    \/ Mentions(current, kinds, t)

AlertPending(kinds, t) == Mentions(alerts, kinds, t) \/ Mentions(batch, kinds, t)

Outstanding(t) ==
    \/ \E p \in posted : p.t = t
    \/ AlertPending({"saved", "saveFailed"}, t)
    \/ OpPending({"write"}, t)

Busy(t) ==
    \/ AddRunning(t)
    \/ t \in rmPosted
    \/ Outstanding(t)
    \/ AlertPending(AlertKinds, t)
    \/ OpPending({"delete"}, t)

(***************************************************************************)
(* The resume files as module ResumeStore sees them.                       *)
(***************************************************************************)
\* Somebody asked for the removal of t: a client, or an add that was unwound.
Asked(t) == apc[t] = "err" \/ rpc[t] # "idle"

\* The removal of t is complete, and nothing is under way for it.
Vanished(t) ==
    Asked(t) /\ life[t] \in {"removed", "gone"} /\ ~Busy(t) /\ disk[t] = NoFile

StorePhase == [t \in Torrents |->
    IF Vanished(t) THEN "gone"
    ELSE IF Asked(t) THEN "released"
    ELSE IF apc[t] \in {"ok", "restored"} THEN "kept"
    ELSE "new"]

Store == INSTANCE ResumeStore WITH stored <- disk, phase <- StorePhase

(***************************************************************************)
(* Who holds the in-flight tokens.  An entry of the sequence s of a kind   *)
(* in kinds carries a token, which is then at the given stage, and no two  *)
(* entries carry the same one; tk is the function token.  The same for the *)
(* posted save requests ps, and for the add calls that wait for a place in *)
(* the persist queue, with states ac and tokens ids.                       *)
(***************************************************************************)
SaveKinds == {"saved", "saveFailed"}
WriteKinds == {"write"}

Carry(s, kinds, stage, tk) ==
    /\ \A i \in 1 .. Len(s) : s[i].kind \in kinds =>
            s[i].id \in Tokens /\ tk[s[i].id] = stage
    /\ \A i, j \in 1 .. Len(s) :
            s[i].kind \in kinds /\ s[j].kind \in kinds /\ s[i].id = s[j].id
                => i = j

CarryPosted(ps, tk) ==
    /\ \A p \in ps : tk[p.id] = "posted"
    /\ \A p, q \in ps : p.id = q.id => p = q

CarryAdds(ac, ids, tk) ==
    /\ \A t \in Torrents : ac[t] = "sending" =>
            ids[t] \in Tokens /\ tk[ids[t]] = "sending"
    /\ \A t, u \in Torrents :
            ac[t] = "sending" /\ ac[u] = "sending" /\ ids[t] = ids[u]
                => t = u

\* Every holder of a token holds it alone and at the stage it is at.
TokensCarried ==
    /\ CarryPosted(posted, token)
    /\ Carry(alerts, SaveKinds, "alert", token)
    /\ Carry(batch, SaveKinds, "batch", token)
    /\ Carry(ops, WriteKinds, "op", token)
    /\ Carry(queue, WriteKinds, "queue", token)
    /\ Carry(current, WriteKinds, "writing", token)
    /\ CarryAdds(apc, addId, token)

InUse(tk) == {id \in Tokens : tk[id] # "free"}

(***************************************************************************)
(* Properties.                                                             *)
(***************************************************************************)
\* Inflight::dec never finds the counter at zero, which would abort the
\* process ("in-flight resume-save counter underflow"), in any interleaving
\* of the pump, the persister, the calls, the sweep and the shutdown.
NeverFatal == process = "up"

\* Inflight counts exactly the tokens taken and not released: every path that
\* takes a token hands it on to one answer, one queued write or one release.
InflightExact == inflight = Cardinality(InUse(token))

\* The inductive invariant behind the two: a token that is released is in
\* use, because its holder was its only one.
Accounting ==
    /\ TypeOK
    /\ TokensCarried
    /\ InflightExact
    /\ NeverFatal
    /\ pc = "save" => batch # <<>>

\* What wait_zero waits for: once the counter is zero no save is under way in
\* libtorrent, the pump, the persist queue, the persister or an add call.
ZeroMeansQuiet ==
    inflight = 0 => \A t \in Torrents : ~Outstanding(t) /\ apc[t] # "sending"

\* No token is left behind: a counter that never returns to zero would make
\* the final flush wait for its whole grace period, at every later shutdown.
NoTokenLeak == \A id \in Tokens : token[id] # "leaked"

\* An add that was acknowledged is durable: from then on, until somebody asks
\* for the removal of the torrent, its resume file exists, in every state and
\* so after a crash in any state.
AckedAddIsDurable ==
    \A t \in Torrents :
        apc[t] \in {"ok", "restored"} /\ rpc[t] = "idle" => disk[t] # NoFile

\* No change is forgotten while the engine runs: a registered torrent whose
\* file is older than the torrent is flagged by libtorrent, marked dirty, or
\* has a save, or an alert that triggers one, on its way.
NoChangeForgotten ==
    \A t \in registry \cap handles :
        sd \in {"run", "quiesced"} /\ life[t] = "live" /\ disk[t] < ver[t]
            => \/ t \in need
               \/ t \in dirty
               \/ AddRunning(t) \/ apc[t] = "dropped"
               \/ t \in rmPosted
               \/ Outstanding(t)
               \/ AlertPending({"finished", "moved"}, t)

\* A flush that ended because the counter reached zero has put on disk every
\* version the flush saw, and left nothing marked dirty, except torrents with
\* a write that failed after the flush saw them and torrents whose add call
\* has not succeeded.
CleanFlushIsComplete ==
    flushed = "clean" => \A t \in registry \cap handles :
                \/ life[t] # "live" \/ AddRunning(t)
                \/ apc[t] \in {"err", "dropped"}
                \/ t \in flushFailed
                \/ disk[t] >= flushVer[t] /\ t \notin dirty

\* A removed torrent whose add had completed stays removed: once nothing is
\* under way for it, it is neither registered nor on disk, so that the next
\* start does not bring it back.  Exempt are deletes that failed or were lost.
RemovedStaysRemoved ==
    \A t \in Torrents :
        /\ apc[t] \in {"ok", "restored"}
        /\ life[t] \in {"removed", "gone"}
        /\ ~Busy(t)
        => t \notin registry /\ (disk[t] = NoFile \/ t \in undeleted)

\* The same of a torrent whose add reported an error: it was unwound.
FailedAddIsForgotten ==
    \A t \in Torrents :
        apc[t] = "err" /\ life[t] # "live" /\ ~Busy(t)
            => t \notin registry /\ (disk[t] = NoFile \/ t \in undeleted)

\* The files behave as ResumeStore promises: whatever saves, retries, writes
\* and deletes of a torrent are under way at the same time, a newer file is not
\* replaced by an older record, and a removed torrent's is not written again.
ImplementsStore == Store!StoreSpec

\* Every token comes back: whatever the save it stands for meets (a removal,
\* a full queue, the shutdown), its answer is handled and it is released.
TokensReturn ==
    \A id \in Tokens : token[id] # "free" ~> token[id] = "free"

\* A shutdown completes without any help of its deadline: the flush drains,
\* the pump and the persister end, and no two of them wait for each other.
ShutdownCompletes == sd = "quiesced" ~> sd = "done"

\* A removal is carried out: the resume file of a torrent the session has
\* dropped disappears, even when the shutdown starts in between, as long as
\* the pump still runs when libtorrent announces it.
RemovalReachesDisk ==
    \A t \in Torrents :
        rpc[t] = "ok" ~> disk[t] = NoFile
===============================================================================
