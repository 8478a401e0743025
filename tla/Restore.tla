-------------------------------- MODULE Restore --------------------------------
(***************************************************************************)
(* Restoring the torrents of rsbtd at start: Engine::restore in            *)
(* rsbtd/src/engine/mod.rs, with the client data of client_data.rs, the    *)
(* registry of registry.rs and the removal that later deletes what restore *)
(* left in the directory.                                                  *)
(*                                                                         *)
(* The directory maps file names to records.  A file name is the uuid it   *)
(* has as its stem, or a legacy name (older releases used the info-hash).  *)
(* A record is the torrent it describes and the uuid in its client data,   *)
(* NoUuid in a legacy record.  Files that do not end in .resume (temporary *)
(* files, quarantined records) are never read and are left out.            *)
(*                                                                         *)
(* Every await of restore is a step, the process may crash between any     *)
(* two, and every operation on a file may fail.                            *)
(***************************************************************************)
EXTENDS Integers, Sequences, FiniteSets

CONSTANTS
    Torrents,   \* torrents, told apart by their info-hashes
    Uuids,      \* uuids; minting takes one that was never used
    NoUuid,     \* the uuid of a legacy record
    OldNames,   \* file names of legacy records
    None,       \* no file, no torrent, no record
    MaxFaults   \* bound: failing operations and crashes

Names == Uuids \cup OldNames

ASSUME NamesAssumption ==
    /\ Uuids \cap OldNames = {} /\ NoUuid \notin Uuids
    /\ None \notin Torrents /\ None \notin Names
ASSUME FaultsAssumption == MaxFaults \in Nat

VARIABLES
    dir,        \* the .resume files
    pc,         \* where the engine is
    todo,       \* directory entries still to be visited
    cur,        \* the entry in hand: its name, torrent and uuid
    adds,       \* the adds posted, in order: uuid and torrent
    registry,   \* the uuid each torrent is registered under
    deletes,    \* uuids whose files the persister is to delete
    faults,
    \* history, which no action of the code reads
    used,       \* uuids that were ever minted
    owned,      \* torrents a client added and has not removed
    shown,      \* the uuid clients know a torrent by
    marred      \* torrents with a file that an operation failed on

disk == <<dir, used>>
tasks == <<pc, todo, cur, adds>>
clients == <<owned, shown>>
vars == <<disk, tasks, registry, deletes, faults, clients, marred>>

Record == [t : Torrents, u : Uuids \cup {NoUuid}]
Corrupt == [t |-> None, u |-> NoUuid]
Free == [t |-> None, u |-> None]
Files == Record \cup {Corrupt, Free}

Idle == [name |-> None, t |-> None, u |-> NoUuid]
Entry == [name : Names \cup {None}, t : Torrents \cup {None}, u : Uuids \cup {NoUuid}]
Add == [u : Uuids, t : Torrents]

TypeOK ==
    /\ dir \in [Names -> Files]
    /\ pc \in {"off", "scan", "splice", "rename", "add", "drain", "up"}
    /\ todo \subseteq Names
    /\ cur \in Entry
    /\ adds \in Seq(Add)
    /\ registry \in [Torrents -> Uuids \cup {None}]
    /\ deletes \subseteq Uuids
    /\ faults \in 0..MaxFaults
    /\ used \subseteq Uuids
    /\ owned \subseteq Torrents
    /\ shown \in [Torrents -> Uuids \cup {None}]
    /\ marred \subseteq Torrents

HasRecord(t) == \E n \in Names : dir[n].t = t

(***************************************************************************)
(* A state directory of an older release: legacy records under their own   *)
(* names, records under their uuids, corrupt files; two records of one     *)
(* torrent when a removal failed to delete the first.                      *)
(***************************************************************************)
InitFiles(n) ==
    {Free, Corrupt} \cup
    {[t |-> t, u |-> IF n \in Uuids THEN n ELSE NoUuid] : t \in Torrents}

Init ==
    /\ dir \in {d \in [Names -> Files] : \A n \in Names : d[n] \in InitFiles(n)}
    /\ Cardinality({n \in Uuids : dir[n] # Free}) <= 2
    /\ pc = "off" /\ todo = {} /\ cur = Idle /\ adds = <<>>
    /\ registry = [t \in Torrents |-> None]
    /\ deletes = {}
    /\ faults = 0
    /\ used = {n \in Uuids : dir[n] # Free}
    /\ owned = {t \in Torrents : HasRecord(t)}
    /\ shown = [t \in Torrents |-> None]
    /\ marred = {}

Fault == faults < MaxFaults /\ faults' = faults + 1
Mar(t) == marred' = IF t \in Torrents THEN marred \cup {t} ELSE marred

MintedAgain(u) == u \in Uuids
Minted(u) == u \in Uuids \ used
-------------------------------------------------------------------------------
\* read_dir over the directory.
Boot ==
    /\ pc = "off"
    /\ pc' = "scan"
    /\ todo' = {n \in Names : dir[n] # Free}
    /\ UNCHANGED <<disk, cur, adds, registry, deletes, faults, clients, marred>>

\* `continue`: on to the next entry.
Skip == pc' = "scan" /\ cur' = Idle

\* The entry is gone by now, or cannot be read.
Unreadable(n) ==
    /\ pc = "scan" /\ n \in todo
    /\ todo' = todo \ {n}
    /\ \/ dir[n] = Free /\ UNCHANGED <<faults, marred>>
       \/ dir[n] # Free /\ Fault /\ Mar(dir[n].t)
    /\ UNCHANGED <<disk, pc, cur, adds, registry, deletes, clients>>

\* The record, or the client data in it, does not parse: quarantine it.
Quarantine(n) ==
    /\ pc = "scan" /\ n \in todo /\ dir[n] = Corrupt
    /\ todo' = todo \ {n}
    /\ \/ dir' = [dir EXCEPT ![n] = Free] /\ UNCHANGED faults
       \/ Fault /\ UNCHANGED dir
    /\ UNCHANGED <<used, pc, cur, adds, registry, deletes, clients, marred>>

\* A record with client data has its uuid; a legacy record gets one.
Parse(n) ==
    /\ pc = "scan" /\ n \in todo /\ dir[n] \in Record
    /\ todo' = todo \ {n}
    /\ IF dir[n].u = NoUuid
       THEN \E u \in Uuids :
              /\ Minted(u)
              /\ cur' = [name |-> n, t |-> dir[n].t, u |-> u]
              /\ used' = used \cup {u}
              /\ pc' = "splice"
       ELSE /\ cur' = [name |-> n, t |-> dir[n].t, u |-> dir[n].u]
            /\ pc' = "rename"
            /\ UNCHANGED used
    /\ UNCHANGED <<dir, adds, registry, deletes, faults, clients, marred>>

\* The minted uuid is made durable under the old name first.
Spliced == [dir EXCEPT ![cur.name] = [t |-> cur.t, u |-> cur.u]]

Splice ==
    /\ pc = "splice"
    /\ \/ dir' = Spliced /\ pc' = "rename" /\ UNCHANGED <<cur, faults, marred>>
       \/ Skip /\ Fault /\ Mar(cur.t) /\ UNCHANGED dir
    /\ UNCHANGED <<used, todo, adds, registry, deletes, clients>>

(***************************************************************************)
(* Then the file gets its canonical name.  A directory that is being read  *)
(* may or may not list the new name later.                                 *)
(***************************************************************************)
RenamedNot == dir
Renamed == [dir EXCEPT ![cur.name] = Free, ![cur.u] = dir[cur.name]]

Rename ==
    /\ pc = "rename"
    /\ \/ cur.name = cur.u /\ pc' = "add" /\ UNCHANGED <<dir, todo, cur, faults, marred>>
       \/ /\ cur.name # cur.u
          /\ dir' = Renamed
          /\ todo' \in {todo, todo \cup {cur.u}}
          /\ pc' = "add"
          /\ UNCHANGED <<cur, faults, marred>>
       \/ /\ cur.name # cur.u
          /\ Skip /\ Fault /\ Mar(cur.t)
          /\ UNCHANGED <<dir, todo>>
    /\ UNCHANGED <<used, adds, registry, deletes, clients>>

\* add_torrent is posted; its future is awaited after the loop.
PostAdd ==
    /\ pc = "add"
    /\ adds' = Append(adds, [u |-> cur.u, t |-> cur.t])
    /\ Skip
    /\ UNCHANGED <<disk, todo, registry, deletes, faults, clients, marred>>

EndScan ==
    /\ pc = "scan" /\ todo = {}
    /\ pc' = "drain"
    /\ UNCHANGED <<disk, todo, cur, adds, registry, deletes, faults, clients, marred>>

-------------------------------------------------------------------------------
(***************************************************************************)
(* The adds, in order.  libtorrent gives a second add of a torrent the     *)
(* handle of the first, and upsert keeps the first entry: the file of the  *)
(* second is deleted.                                                      *)
(***************************************************************************)
Upsert(a) == IF registry[a.t] = None THEN [registry EXCEPT ![a.t] = a.u] ELSE registry

LoserKept(a) == None
Loser(a) == IF Upsert(a)[a.t] # a.u THEN a.u ELSE None

Resolve ==
    /\ pc = "drain" /\ adds # <<>>
    /\ adds' = Tail(adds)
    /\ LET a == Head(adds)
       IN \/ /\ registry' = Upsert(a)
             /\ \/ Loser(a) = None /\ UNCHANGED <<dir, faults, marred>>
                \/ /\ Loser(a) # None
                   /\ dir' = [dir EXCEPT ![Loser(a)] = Free]
                   /\ UNCHANGED <<faults, marred>>
                \/ Loser(a) # None /\ Fault /\ Mar(a.t) /\ UNCHANGED dir
          \/ Fault /\ Mar(a.t) /\ UNCHANGED <<dir, registry>>     \* the add fails
    /\ UNCHANGED <<used, pc, todo, cur, deletes, clients>>

\* The daemon serves: from now on clients see the uuids.
Serve ==
    /\ pc = "drain" /\ adds = <<>>
    /\ pc' = "up"
    /\ shown' = [t \in Torrents |-> IF shown[t] = None THEN registry[t] ELSE shown[t]]
    /\ UNCHANGED <<disk, todo, cur, adds, registry, deletes, faults, owned, marred>>

(***************************************************************************)
(* A client adds a torrent: a fresh uuid, and its first record (Engine).   *)
(* The persister deletes the file of an earlier removal before it writes   *)
(* the record, as the queue has them in this order.                        *)
(***************************************************************************)
AddTorrent(t, u) ==
    /\ pc = "up" /\ registry[t] = None /\ Minted(u)
    /\ \A v \in deletes : dir[v].t # t
    /\ registry' = [registry EXCEPT ![t] = u]
    /\ dir' = [dir EXCEPT ![u] = [t |-> t, u |-> u]]
    /\ used' = used \cup {u}
    /\ owned' = owned \cup {t}
    /\ shown' = [shown EXCEPT ![t] = u]
    /\ UNCHANGED <<tasks, deletes, faults, marred>>

\* A client removes a torrent: its entry goes, and its file is queued.
Remove(t) ==
    /\ pc = "up" /\ registry[t] # None
    /\ registry' = [registry EXCEPT ![t] = None]
    /\ deletes' = deletes \cup {registry[t]}
    /\ owned' = owned \ {t}
    /\ shown' = [shown EXCEPT ![t] = None]
    /\ UNCHANGED <<disk, tasks, faults, marred>>

DeleteResume(u) ==
    /\ pc = "up" /\ u \in deletes
    /\ deletes' = deletes \ {u}
    /\ \/ dir' = [dir EXCEPT ![u] = Free] /\ UNCHANGED <<faults, marred>>
       \/ Fault /\ Mar(dir[u].t) /\ UNCHANGED dir
    /\ UNCHANGED <<used, tasks, registry, clients>>

(***************************************************************************)
(* The end of a run: a shutdown, which drains the persister, or a crash.   *)
(* A removal whose file a crash kept was not durable, the torrent is back. *)
(***************************************************************************)
Down ==
    /\ pc' = "off" /\ todo' = {} /\ cur' = Idle /\ adds' = <<>>
    /\ registry' = [t \in Torrents |-> None]
    /\ deletes' = {}

Shutdown ==
    /\ pc = "up" /\ deletes = {}
    /\ Down
    /\ UNCHANGED <<disk, faults, clients, marred>>

Crash ==
    /\ pc # "off"
    /\ Down
    /\ Fault
    /\ owned' = owned \cup {dir[u].t : u \in {v \in deletes : dir[v].t \in Torrents}}
    /\ UNCHANGED <<disk, shown, marred>>

Next ==
    \/ Boot \/ Splice \/ Rename \/ PostAdd \/ EndScan \/ Resolve \/ Serve
    \/ \E n \in Names : Unreadable(n) \/ Quarantine(n) \/ Parse(n)
    \/ \E t \in Torrents, u \in Uuids : AddTorrent(t, u)
    \/ \E t \in Torrents : Remove(t)
    \/ \E u \in Uuids : DeleteResume(u)
    \/ Shutdown \/ Crash

Spec == Init /\ [][Next]_vars

-------------------------------------------------------------------------------
(***************************************************************************)
(* A torrent with a record keeps one, whatever step of a migration fails   *)
(* or is cut short by a crash: only a client's removal takes it away.      *)
(***************************************************************************)
RecordKept == \A t \in owned : HasRecord(t)

(***************************************************************************)
(* The uuid is the durable identity: a torrent clients have seen comes     *)
(* back under the uuid they know.  The doc comment of restore: "the next   *)
(* restore either reads the uuid back from the old-named file or re-mints  *)
(* one nobody has ever observed".  A torrent with a file that an operation *)
(* failed on is excepted: two records of it may outlive a start, and       *)
(* either can win the next one.                                            *)
(***************************************************************************)
SameUuid ==
    pc = "up" => \A t \in Torrents \ marred :
        registry[t] # None /\ shown[t] # None => registry[t] = shown[t]

(***************************************************************************)
(* Once the daemon serves, the file a removal deletes is the only record   *)
(* of the torrent: no stale file is left to bring it back.  The doc        *)
(* comment of restore: "removal cannot miss a stale file, which would      *)
(* resurrect the torrent on the next restart".                             *)
(***************************************************************************)
NoStaleFile ==
    pc = "up" => \A t \in Torrents \ marred : registry[t] # None =>
        \A n \in Names : dir[n].t = t => n = registry[t]

(***************************************************************************)
(* A torrent a client removed stays removed once its file is deleted, also *)
(* over the restarts that follow.                                          *)
(***************************************************************************)
RemovedStaysRemoved ==
    \A t \in Torrents \ (owned \cup marred) : registry[t] = None

(***************************************************************************)
(* A registered torrent has its record under its uuid, from before it is   *)
(* first shown to anyone: a crash at any time loses neither.               *)
(***************************************************************************)
RegisteredIsStored ==
    \A t \in Torrents : registry[t] # None => dir[registry[t]] = [t |-> t, u |-> registry[t]]
===============================================================================
