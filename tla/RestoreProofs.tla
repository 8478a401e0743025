----------------------------- MODULE RestoreProofs -----------------------------
(***************************************************************************)
(* Restoring the torrents, for any number of torrents, files, failures and *)
(* restarts: no step loses a record, a torrent comes back under the uuid   *)
(* its clients know, and a removed one does not come back.                 *)
(*                                                                         *)
(* The argument follows the files.  A file of a torrent is either still to *)
(* be visited, in hand, posted as an add, registered, or queued to be      *)
(* deleted, unless an operation on it failed; and no two files ever claim  *)
(* one uuid, so that neither a rename nor a delete hits a foreign record.  *)
(***************************************************************************)
EXTENDS Restore, SequenceTheorems, TLAPS

Rec(t, u) == [t |-> t, u |-> u]
Scanning == {"scan", "splice", "rename", "add"}

(***************************************************************************)
(* The inductive invariant.                                                *)
(***************************************************************************)
\* A record under a uuid has that uuid.  A record under a legacy name may
\* have one already; then nothing else claims it.
NameInv ==
    /\ \A u \in Uuids : dir[u] \in Record => dir[u].u = u
    /\ \A n \in OldNames : dir[n].u \in Uuids =>
         /\ dir[dir[n].u] = Free
         /\ \A m \in OldNames : dir[m].u = dir[n].u => m = n

\* Minting finds a uuid that no file knows.
UsedInv ==
    /\ \A u \in Uuids : dir[u] # Free => u \in used
    /\ \A n \in OldNames : dir[n].u \in Uuids => dir[n].u \in used

\* The entry in hand is what its file says.
CurInv ==
    /\ pc \in {"splice", "rename", "add"} =>
         cur.name \in Names /\ cur.t \in Torrents /\ cur.u \in Uuids
    /\ pc = "splice" =>
         /\ dir[cur.name] = Rec(cur.t, NoUuid)
         /\ dir[cur.u] = Free /\ cur.u \in used
         /\ \A n \in OldNames : dir[n].u # cur.u
    /\ pc = "rename" => dir[cur.name] = Rec(cur.t, cur.u)
    /\ pc = "add" => dir[cur.u] = Rec(cur.t, cur.u)

\* What is empty in which phase of a start.
PhaseInv ==
    /\ pc \notin {"drain", "up"} => \A t \in Torrents : registry[t] = None
    /\ pc # "up" => deletes = {}
    /\ pc \in {"off", "up"} => adds = <<>>

\* A posted add has its file, unless it has lost to another one already.
AddsInv ==
    \A i \in 1..Len(adds) :
        \/ dir[adds[i].u] = Rec(adds[i].t, adds[i].u)
        \/ /\ dir[adds[i].u] = Free
           /\ registry[adds[i].t] # None /\ registry[adds[i].t] # adds[i].u

\* A queued delete hits nothing that is owned or registered.
DeletesInv ==
    \A u \in deletes :
        u \in used /\ dir[u].t \notin owned /\ \A t \in Torrents : registry[t] # u

\* No file is overlooked: where the file of a torrent is in the course of a
\* start, unless an operation on it failed.
Posted(n, t) == \E i \in 1..Len(adds) : adds[i] = [u |-> n, t |-> t]
FoundInv ==
    \A n \in Names, t \in Torrents \ marred : dir[n].t = t =>
        \/ pc = "off"
        \/ pc \in Scanning /\ n \in todo
        \/ pc \in {"splice", "rename"} /\ n = cur.name
        \/ pc = "add" /\ n = cur.u
        \/ pc \in Scanning \cup {"drain"} /\ Posted(n, t)
        \/ pc \in {"drain", "up"} /\ n = registry[t]
        \/ pc = "up" /\ n \in deletes

\* A torrent that clients have seen has no file but the one of its uuid.
ShownInv ==
    \A t \in Torrents \ marred : shown[t] # None =>
        /\ \A n \in Names : dir[n].t = t => n = shown[t]
        /\ \A i \in 1..Len(adds) : adds[i].t = t => adds[i].u = shown[t]
        /\ registry[t] \in {None, shown[t]}

\* A torrent that was removed has no file but those about to be deleted.
RemovedInv ==
    \A t \in Torrents \ (owned \cup marred) :
        /\ \A n \in Names : dir[n].t = t => pc = "up" /\ n \in deletes
        /\ \A i \in 1..Len(adds) : adds[i].t # t
        /\ registry[t] = None

FilesInv == NameInv /\ UsedInv /\ CurInv
RunInv == PhaseInv /\ AddsInv /\ RegisteredIsStored /\ DeletesInv
RestoreInv ==
    /\ TypeOK /\ FilesInv /\ RunInv
    /\ RecordKept /\ FoundInv /\ ShownInv /\ RemovedInv

(***************************************************************************)
(* Files and records.                                                      *)
(***************************************************************************)
LEMMA FileFacts ==
    /\ Free \in Files /\ Free.t = None /\ Free.u = None
    /\ Corrupt \in Files /\ Corrupt.t = None /\ Corrupt.u = NoUuid
    /\ \A t \in Torrents, u \in Uuids \cup {NoUuid} :
         /\ Rec(t, u) \in Record /\ Rec(t, u) \in Files /\ Rec(t, u) # Free
         /\ Rec(t, u).t = t /\ Rec(t, u).u = u
    /\ None \notin Torrents /\ None \notin Uuids /\ NoUuid \notin Uuids
  BY NamesAssumption DEF Free, Corrupt, Files, Record, Rec, Names

LEMMA RecordFacts ==
    ASSUME TypeOK, NEW n \in Names
    PROVE  /\ dir[n] \in Files
           /\ dir[n].t \in Torrents => dir[n] \in Record
           /\ dir[n].u \in Uuids => dir[n] \in Record
           /\ dir[n] \in Record => /\ dir[n] = Rec(dir[n].t, dir[n].u)
                                   /\ dir[n].t \in Torrents
                                   /\ dir[n].u \in Uuids \cup {NoUuid}
                                   /\ dir[n] # Free
<1>1. dir[n] \in Record \cup {Corrupt, Free}
  BY DEF TypeOK, Files
<1>2. CASE dir[n] \in Record
  BY <1>2, NamesAssumption DEF Record, Rec, Files, Free
<1>3. CASE dir[n] \in {Corrupt, Free}
  BY <1>3, FileFacts DEF Record
<1> QED
  BY <1>1, <1>2, <1>3

LEMMA AddFacts ==
    ASSUME TypeOK, NEW i \in 1..Len(adds)
    PROVE  /\ adds[i] \in Add /\ adds[i].t \in Torrents /\ adds[i].u \in Uuids
           /\ adds[i] = [u |-> adds[i].u, t |-> adds[i].t]
<1>1. adds[i] \in Add
  BY ElementOfSeq DEF TypeOK
<1> QED
  BY <1>1 DEF Add

\* One file is written or deleted.
LEMMA Written ==
    ASSUME TypeOK, NEW x \in Names, NEW f \in Files, dir' = [dir EXCEPT ![x] = f]
    PROVE  /\ dir' \in [Names -> Files]
           /\ \A n \in Names : dir'[n] = IF n = x THEN f ELSE dir[n]
  BY DEF TypeOK

\* What depends on nothing but the files, the registry and the adds holds on
\* when they stay; the exceptions of failed operations only grow.
LEMMA Kept ==
    ASSUME RestoreInv, marred \subseteq marred', pc' = "up" <=> pc = "up",
           UNCHANGED <<dir, used, adds, registry, deletes, owned, shown>>
    PROVE  /\ NameInv' /\ UsedInv' /\ AddsInv' /\ RegisteredIsStored'
           /\ DeletesInv' /\ RecordKept' /\ ShownInv' /\ RemovedInv'
<1> USE DEF RestoreInv, FilesInv, RunInv
<1>1. NameInv' /\ UsedInv'
  BY DEF NameInv, UsedInv
<1>2. AddsInv' /\ RegisteredIsStored'
  BY DEF AddsInv, RegisteredIsStored
<1>3. DeletesInv'
  BY DEF DeletesInv
<1>4. RecordKept'
  BY DEF RecordKept, HasRecord
<1>5. ShownInv'
  BY DEF ShownInv
<1>6. RemovedInv'
  BY DEF RemovedInv
<1> QED
  BY <1>1, <1>2, <1>3, <1>4, <1>5, <1>6

(***************************************************************************)
(* The scan of the directory.                                              *)
(***************************************************************************)
LEMMA BootStep ==
    ASSUME RestoreInv, Boot
    PROVE  RestoreInv'
<1> USE DEF RestoreInv, FilesInv, RunInv
<1>1. UNCHANGED <<dir, used, cur, adds, registry, deletes, faults, owned, shown, marred>>
  BY DEF Boot, disk, clients
<1>2. pc = "off" /\ pc' = "scan" /\ todo' = {n \in Names : dir[n] # Free}
  BY DEF Boot
<1>3. TypeOK'
  BY <1>1, <1>2 DEF TypeOK
<1>4. CurInv' /\ PhaseInv'
  BY <1>1, <1>2 DEF CurInv, PhaseInv
<1>5. FoundInv'
  <2>1. \A n \in Names : dir[n].t \in Torrents => n \in todo'
    BY <1>2, RecordFacts
  <2> QED
    BY <1>1, <1>2, <2>1 DEF FoundInv, Scanning
<1> QED
  BY <1>1, <1>2, <1>3, <1>4, <1>5, Kept

LEMMA UnreadableStep ==
    ASSUME RestoreInv, NEW n \in Names, Unreadable(n)
    PROVE  RestoreInv'
<1> USE DEF RestoreInv, FilesInv, RunInv
<1>1. /\ UNCHANGED <<dir, used, pc, cur, adds, registry, deletes, owned, shown>>
      /\ pc = "scan" /\ todo' = todo \ {n}
  BY DEF Unreadable, disk, clients
<1>2. /\ marred \subseteq marred' /\ marred' \subseteq Torrents
      /\ dir[n].t \in Torrents => dir[n].t \in marred'
  BY FileFacts DEF Unreadable, Mar, TypeOK
<1>3. faults' \in 0..MaxFaults
  BY FaultsAssumption DEF Unreadable, Fault, TypeOK
<1>4. TypeOK'
  BY <1>1, <1>2, <1>3 DEF TypeOK
<1>5. CurInv' /\ PhaseInv'
  BY <1>1 DEF CurInv, PhaseInv
<1>6. FoundInv'
  BY <1>1, <1>2 DEF FoundInv, Scanning, Posted
<1> QED
  BY <1>1, <1>2, <1>4, <1>5, <1>6, Kept

LEMMA QuarantineStep ==
    ASSUME RestoreInv, NEW n \in Names, Quarantine(n)
    PROVE  RestoreInv'
<1> USE DEF RestoreInv, FilesInv, RunInv
<1>1. /\ UNCHANGED <<used, pc, cur, adds, registry, deletes, owned, shown, marred>>
      /\ pc = "scan" /\ dir[n] = Corrupt /\ todo' = todo \ {n}
  BY DEF Quarantine, clients
<1>2. faults' \in 0..MaxFaults
  BY FaultsAssumption DEF Quarantine, Fault, TypeOK
<1>3. /\ dir' \in [Names -> Files]
      /\ \A m \in Names : dir'[m] = dir[m] \/ (m = n /\ dir'[m] = Free)
  BY FileFacts DEF Quarantine, TypeOK
<1>4. \A m \in Names : /\ dir'[m].t \in Torrents \/ dir'[m].u \in Uuids \/ dir[m].t \in Torrents
                            => dir'[m] = dir[m]
                       /\ dir[m] = Free => dir'[m] = Free
  BY <1>1, <1>3, FileFacts
<1>5. TypeOK'
  BY <1>1, <1>2, <1>3 DEF TypeOK
<1>6. NameInv'
  BY <1>1, <1>4, RecordFacts, FileFacts DEF NameInv, Names, Record
<1>7. UsedInv'
  BY <1>1, <1>4, <1>3 DEF UsedInv, Names
<1>8. CurInv' /\ PhaseInv'
  BY <1>1 DEF CurInv, PhaseInv
<1>9. AddsInv'
  <2> SUFFICES ASSUME NEW i \in 1..Len(adds), pc = "scan"
               PROVE  dir'[adds[i].u] = Rec(adds[i].t, adds[i].u)
    BY <1>1 DEF AddsInv
  <2>1. adds[i] \in Add /\ adds[i].t \in Torrents /\ adds[i].u \in Uuids
    BY AddFacts
  <2>2. dir[adds[i].u] = Rec(adds[i].t, adds[i].u)
    BY <2>1 DEF AddsInv, PhaseInv
  <2> QED
    BY <2>1, <2>2, <1>4, FileFacts DEF Names
<1>10. RegisteredIsStored' /\ DeletesInv'
  BY <1>1 DEF RegisteredIsStored, DeletesInv, PhaseInv
<1>11. RecordKept'
  BY <1>1, <1>4 DEF RecordKept, HasRecord, TypeOK
<1>12. FoundInv'
  <2> SUFFICES ASSUME NEW m \in Names, NEW t \in Torrents \ marred', dir'[m].t = t
               PROVE  m \in todo' \/ Posted(m, t)'
    BY <1>1 DEF FoundInv, Scanning
  <2>1. dir[m].t = t
    BY <1>4
  <2>2. m # n
    BY <1>1, <2>1, FileFacts
  <2> QED
    BY <1>1, <2>1, <2>2 DEF FoundInv, Posted
<1>13. ShownInv'
  BY <1>1, <1>4 DEF ShownInv
<1>14. RemovedInv'
  BY <1>1, <1>4 DEF RemovedInv
<1> QED
  BY <1>5, <1>6, <1>7, <1>8, <1>9, <1>10, <1>11, <1>12, <1>13, <1>14

LEMMA ParseStep ==
    ASSUME RestoreInv, NEW n \in Names, Parse(n)
    PROVE  RestoreInv'
<1> USE DEF RestoreInv, FilesInv, RunInv
<1>1. /\ UNCHANGED <<dir, adds, registry, deletes, faults, owned, shown, marred>>
      /\ pc = "scan" /\ dir[n] \in Record /\ todo' = todo \ {n}
  BY DEF Parse, clients
<1>2. /\ dir[n] = Rec(dir[n].t, dir[n].u) /\ dir[n].t \in Torrents
      /\ dir[n].u \in Uuids \cup {NoUuid}
  BY <1>1, RecordFacts
<1>3. PICK u \in Uuids :
        /\ cur' = [name |-> n, t |-> dir[n].t, u |-> u]
        /\ \/ /\ dir[n].u = NoUuid /\ u \notin used
              /\ used' = used \cup {u} /\ pc' = "splice"
           \/ dir[n].u = u /\ used' = used /\ pc' = "rename"
  BY <1>2 DEF Parse, Minted
<1>4. TypeOK'
  BY <1>1, <1>2, <1>3 DEF TypeOK, Entry
<1>5. NameInv'
  BY <1>1 DEF NameInv
<1>6. UsedInv'
  BY <1>1, <1>3 DEF UsedInv
<1>7. CurInv'
  <2>1. cur'.name = n /\ cur'.t = dir[n].t /\ cur'.u = u
    BY <1>3
  <2>2. CASE dir[n].u = NoUuid /\ u \notin used /\ used' = used \cup {u} /\ pc' = "splice"
    <3>1. dir[u] = Free /\ \A m \in OldNames : dir[m].u # u
      BY <2>2 DEF UsedInv
    <3> QED
      BY <1>1, <1>2, <2>1, <2>2, <3>1 DEF CurInv
  <2>3. CASE dir[n].u = u /\ used' = used /\ pc' = "rename"
    BY <1>1, <1>2, <2>1, <2>3 DEF CurInv
  <2> QED
    BY <1>3, <2>2, <2>3
<1>8. pc' \in {"splice", "rename"}
  BY <1>3
<1>9. PhaseInv' /\ AddsInv' /\ RegisteredIsStored'
  BY <1>1, <1>8 DEF PhaseInv, AddsInv, RegisteredIsStored
<1>10. DeletesInv'
  BY <1>1, <1>3 DEF DeletesInv
<1>11. RecordKept'
  BY <1>1 DEF RecordKept, HasRecord
<1>12. FoundInv'
  <2>1. cur'.name = n
    BY <1>3
  <2> QED
    BY <1>1, <1>8, <2>1 DEF FoundInv, Scanning, Posted
<1>13. ShownInv'
  BY <1>1 DEF ShownInv
<1>14. RemovedInv'
  BY <1>1, <1>8 DEF RemovedInv
<1> QED
  BY <1>4, <1>5, <1>6, <1>7, <1>9, <1>10, <1>11, <1>12, <1>13, <1>14

\* An operation on the entry in hand fails: on to the next entry.
LEMMA SkipStep ==
    ASSUME RestoreInv, pc \in {"splice", "rename"}, Skip, Fault, Mar(cur.t),
           UNCHANGED <<dir, used, todo, adds, registry, deletes, owned, shown>>
    PROVE  RestoreInv'
<1> USE DEF RestoreInv, FilesInv, RunInv
<1>1. marred' = marred \cup {cur.t} /\ cur.t \in Torrents /\ dir[cur.name].t = cur.t
  BY FileFacts DEF Mar, CurInv
<1>2. pc' = "scan" /\ cur' = Idle
  BY DEF Skip
<1>3. faults' \in 0..MaxFaults
  BY FaultsAssumption DEF Fault, TypeOK
<1>4. TypeOK'
  BY <1>1, <1>2, <1>3 DEF TypeOK, Idle, Entry
<1>5. CurInv' /\ PhaseInv'
  BY <1>2 DEF CurInv, PhaseInv
<1>6. FoundInv'
  BY <1>1, <1>2 DEF FoundInv, Scanning, Posted
<1> QED
  BY <1>1, <1>2, <1>4, <1>5, <1>6, Kept

\* The record gets its uuid: no other file has it, and its name is a legacy one.
LEMMA SpliceStep ==
    ASSUME RestoreInv, Splice
    PROVE  RestoreInv'
<1> USE DEF RestoreInv, FilesInv, RunInv
<1>1. /\ UNCHANGED <<used, todo, adds, registry, deletes, owned, shown>>
      /\ pc = "splice"
  BY DEF Splice, clients
<1>2. CASE dir' = Spliced /\ pc' = "rename" /\ UNCHANGED <<cur, faults, marred>>
  <2>1. /\ cur.name \in Names /\ cur.t \in Torrents /\ cur.u \in Uuids
        /\ dir[cur.name] = Rec(cur.t, NoUuid) /\ dir[cur.u] = Free
        /\ cur.u \in used /\ \A m \in OldNames : dir[m].u # cur.u
    BY <1>1 DEF CurInv
  <2>2. cur.name \in OldNames
    BY <2>1, FileFacts DEF NameInv, Names
  <2>3. /\ dir' \in [Names -> Files]
        /\ \A n \in Names : dir'[n] = IF n = cur.name THEN Rec(cur.t, cur.u) ELSE dir[n]
    BY <1>2, <2>1, FileFacts, Written DEF Spliced, Rec
  <2>4. \A n \in Names : dir'[n].t = dir[n].t
    BY <2>1, <2>3, FileFacts
  <2>5. \A u \in Uuids : dir'[u] = dir[u]
    BY <2>2, <2>3, NamesAssumption DEF Names
  <2>6. TypeOK'
    BY <1>1, <1>2, <2>3 DEF TypeOK
  <2>7. NameInv'
    <3>1. \A u \in Uuids : dir'[u] \in Record => dir'[u].u = u
      BY <2>5 DEF NameInv
    <3>2. \A n \in OldNames : dir'[n].u = IF n = cur.name THEN cur.u ELSE dir[n].u
      BY <2>1, <2>3, FileFacts DEF Names
    <3> QED
      BY <2>1, <2>2, <2>5, <3>1, <3>2 DEF NameInv
  <2>8. UsedInv'
    <3>1. \A n \in OldNames : dir'[n].u = IF n = cur.name THEN cur.u ELSE dir[n].u
      BY <2>1, <2>3, FileFacts DEF Names
    <3> QED
      BY <1>1, <2>1, <2>5, <3>1 DEF UsedInv
  <2>9. CurInv' /\ PhaseInv'
    BY <1>1, <1>2, <2>1, <2>3 DEF CurInv, PhaseInv
  <2>10. AddsInv'
    <3>1. \A i \in 1..Len(adds) : adds[i].u \in Uuids
      BY AddFacts
    <3> QED
      BY <1>1, <2>5, <3>1 DEF AddsInv
  <2>11. RegisteredIsStored' /\ DeletesInv'
    BY <1>1 DEF RegisteredIsStored, DeletesInv, PhaseInv
  <2>12. RecordKept'
    BY <1>1, <2>4 DEF RecordKept, HasRecord
  <2>13. FoundInv'
    BY <1>1, <1>2, <2>4 DEF FoundInv, Scanning, Posted
  <2>14. ShownInv'
    BY <1>1, <1>2, <2>4 DEF ShownInv
  <2>15. RemovedInv'
    BY <1>1, <1>2, <2>4 DEF RemovedInv
  <2> QED
    BY <2>6, <2>7, <2>8, <2>9, <2>10, <2>11, <2>12, <2>13, <2>14, <2>15
<1>3. CASE Skip /\ Fault /\ Mar(cur.t) /\ UNCHANGED dir
  BY <1>1, <1>3, SkipStep
<1> QED
  BY <1>2, <1>3 DEF Splice

\* The file gets its canonical name: nothing is there to be overwritten.
LEMMA RenameStep ==
    ASSUME RestoreInv, Rename
    PROVE  RestoreInv'
<1> USE DEF RestoreInv, FilesInv, RunInv
<1>1. /\ UNCHANGED <<used, adds, registry, deletes, owned, shown>>
      /\ pc = "rename"
  BY DEF Rename, clients
<1>2. /\ cur.name \in Names /\ cur.t \in Torrents /\ cur.u \in Uuids
      /\ dir[cur.name] = Rec(cur.t, cur.u)
  BY <1>1 DEF CurInv
<1>3. CASE /\ cur.name = cur.u /\ pc' = "add"
           /\ UNCHANGED <<dir, todo, cur, faults, marred>>
  <2>1. TypeOK'
    BY <1>1, <1>3 DEF TypeOK
  <2>2. CurInv' /\ PhaseInv'
    BY <1>1, <1>2, <1>3 DEF CurInv, PhaseInv
  <2>3. FoundInv'
    BY <1>1, <1>3 DEF FoundInv, Scanning, Posted
  <2> QED
    BY <1>1, <1>3, <2>1, <2>2, <2>3, Kept
<1>4. CASE /\ cur.name # cur.u /\ dir' = Renamed /\ pc' = "add"
           /\ todo' \in {todo, todo \cup {cur.u}} /\ UNCHANGED <<cur, faults, marred>>
  <2>1. cur.name \in OldNames
    BY <1>2, <1>4, FileFacts DEF NameInv, Names
  <2>2. dir[cur.u] = Free /\ \A m \in OldNames : dir[m].u = cur.u => m = cur.name
    BY <1>2, <2>1, FileFacts DEF NameInv
  <2>3. /\ dir' \in [Names -> Files]
        /\ \A n \in Names : dir'[n] = IF n = cur.u THEN Rec(cur.t, cur.u)
                                      ELSE IF n = cur.name THEN Free ELSE dir[n]
    BY <1>2, <1>4, FileFacts DEF Renamed, TypeOK, Names
  <2>4. cur.u \in used
    BY <1>2, <2>1, FileFacts DEF UsedInv
  <2>5. todo' \subseteq Names /\ todo \subseteq todo'
    BY <1>2, <1>4 DEF TypeOK, Names
  <2>6. TypeOK'
    BY <1>1, <1>4, <2>3, <2>5 DEF TypeOK
  <2>7. \A n \in OldNames : dir'[n] = IF n = cur.name THEN Free ELSE dir[n]
    BY <1>2, <2>3, NamesAssumption DEF Names
  <2>8. \A u \in Uuids : dir'[u] = IF u = cur.u THEN Rec(cur.t, cur.u) ELSE dir[u]
    BY <2>1, <2>3, NamesAssumption DEF Names
  <2>9. NameInv'
    <3>1. \A u \in Uuids : dir'[u] \in Record => dir'[u].u = u
      BY <1>2, <2>8, FileFacts DEF NameInv
    <3>2. ASSUME NEW n \in OldNames, dir'[n].u \in Uuids
          PROVE  /\ n # cur.name /\ dir'[n] = dir[n] /\ dir[n].u # cur.u
      BY <2>2, <2>7, <3>2, FileFacts
    <3> QED
      BY <2>7, <2>8, <3>1, <3>2 DEF NameInv
  <2>10. UsedInv'
    BY <1>1, <2>4, <2>7, <2>8, FileFacts DEF UsedInv
  <2>11. CurInv' /\ PhaseInv'
    BY <1>1, <1>2, <1>4, <2>8 DEF CurInv, PhaseInv
  <2>12. AddsInv'
    <3> SUFFICES ASSUME NEW i \in 1..Len(adds)
                 PROVE  dir'[adds[i].u] = Rec(adds[i].t, adds[i].u)
      BY <1>1 DEF AddsInv
    <3>1. adds[i].t \in Torrents /\ adds[i].u \in Uuids
      BY AddFacts
    <3>2. dir[adds[i].u] = Rec(adds[i].t, adds[i].u)
      BY <1>1, <3>1 DEF AddsInv, PhaseInv
    <3> QED
      BY <2>2, <2>8, <3>1, <3>2, FileFacts
  <2>13. RegisteredIsStored' /\ DeletesInv'
    BY <1>1 DEF RegisteredIsStored, DeletesInv, PhaseInv
  <2>14. RecordKept'
    <3> SUFFICES ASSUME NEW t \in owned PROVE HasRecord(t)'
      BY <1>1 DEF RecordKept
    <3>1. PICK n \in Names : dir[n].t = t
      BY DEF RecordKept, HasRecord
    <3>2. t \in Torrents
      BY DEF TypeOK
    <3>3. CASE n = cur.name
      BY <1>2, <2>3, <3>1, <3>3, FileFacts DEF HasRecord, Names
    <3>4. CASE n # cur.name
      BY <2>2, <2>3, <3>1, <3>2, <3>4, FileFacts DEF HasRecord
    <3> QED
      BY <3>3, <3>4
  <2>15. \A n \in Names : dir'[n].t \in Torrents =>
            \/ n = cur.u /\ dir'[n].t = dir[cur.name].t
            \/ n # cur.name /\ dir'[n].t = dir[n].t
    BY <1>2, <2>3, FileFacts
  <2>16. FoundInv'
    <3> SUFFICES ASSUME NEW n \in Names, NEW t \in Torrents \ marred', dir'[n].t = t
                 PROVE  n = cur.u \/ n \in todo' \/ Posted(n, t)'
      BY <1>1, <1>4 DEF FoundInv, Scanning
    <3>1. CASE n # cur.u
      BY <1>1, <1>4, <2>5, <2>15, <3>1 DEF FoundInv, Posted
    <3> QED
      BY <3>1
  <2>17. ShownInv'
    <3> SUFFICES ASSUME NEW t \in Torrents \ marred, shown[t] # None,
                        NEW n \in Names, dir'[n].t = t
                 PROVE  n = shown[t]
      BY <1>1, <1>4 DEF ShownInv
    <3>1. CASE n = cur.u
      <4>1. cur.name = shown[t]
        BY <1>2, <2>3, <3>1, FileFacts DEF ShownInv
      <4>2. shown[t] \in Uuids
        BY DEF TypeOK
      <4> QED
        BY <2>1, <4>1, <4>2, NamesAssumption
    <3>2. CASE n # cur.u
      BY <2>15, <3>2 DEF ShownInv
    <3> QED
      BY <3>1, <3>2
  <2>18. RemovedInv'
    <3> SUFFICES ASSUME NEW t \in Torrents \ (owned \cup marred)
                 PROVE  \A n \in Names : dir'[n].t # t
      BY <1>1, <1>4 DEF RemovedInv
    <3>1. \A n \in Names : dir[n].t # t
      BY <1>1 DEF RemovedInv
    <3> QED
      BY <1>2, <2>15, <3>1
  <2> QED
    BY <2>6, <2>9, <2>10, <2>11, <2>12, <2>13, <2>14, <2>16, <2>17, <2>18
<1>5. CASE Skip /\ Fault /\ Mar(cur.t) /\ UNCHANGED <<dir, todo>>
  BY <1>1, <1>5, SkipStep DEF Rename, clients
<1> QED
  BY <1>3, <1>4, <1>5 DEF Rename

LEMMA PostAddStep ==
    ASSUME RestoreInv, PostAdd
    PROVE  RestoreInv'
<1> USE DEF RestoreInv, FilesInv, RunInv
<1> DEFINE a == [u |-> cur.u, t |-> cur.t]
<1>1. /\ UNCHANGED <<dir, used, todo, registry, deletes, faults, owned, shown, marred>>
      /\ pc = "add" /\ pc' = "scan" /\ cur' = Idle /\ adds' = Append(adds, a)
  BY DEF PostAdd, Skip, disk, clients
<1>2. /\ cur.t \in Torrents /\ cur.u \in Uuids
      /\ dir[cur.u] = Rec(cur.t, cur.u) /\ dir[cur.u].t = cur.t
  BY <1>1, FileFacts DEF CurInv
<1>3. a \in Add
  BY <1>2 DEF Add
<1>4. /\ adds' \in Seq(Add) /\ Len(adds') = Len(adds) + 1 /\ Len(adds) \in Nat
      /\ \A i \in 1..Len(adds') : adds'[i] = IF i = Len(adds) + 1 THEN a ELSE adds[i]
  BY <1>1, <1>3, AppendProperties, LenProperties DEF TypeOK
<1>5. \A i \in 1..Len(adds') : (i \in 1..Len(adds) /\ adds'[i] = adds[i]) \/ adds'[i] = a
  BY <1>4
<1>6. TypeOK'
  BY <1>1, <1>4 DEF TypeOK, Idle, Entry
<1>7. NameInv' /\ UsedInv' /\ CurInv' /\ PhaseInv'
  BY <1>1 DEF NameInv, UsedInv, CurInv, PhaseInv
<1>8. AddsInv'
  BY <1>1, <1>2, <1>5 DEF AddsInv
<1>9. RegisteredIsStored' /\ DeletesInv' /\ RecordKept'
  BY <1>1 DEF RegisteredIsStored, DeletesInv, RecordKept, HasRecord
<1>10. FoundInv'
  <2>1. \A n, t : Posted(n, t) => Posted(n, t)'
    BY <1>4 DEF Posted
  <2> SUFFICES ASSUME NEW n \in Names, NEW t \in Torrents \ marred, dir[n].t = t
               PROVE  n \in todo \/ Posted(n, t)'
    BY <1>1 DEF FoundInv, Scanning
  <2>2. CASE n = cur.u
    <3>1. Len(adds) + 1 \in 1..Len(adds') /\ adds'[Len(adds) + 1] = a
      BY <1>4
    <3>2. a = [u |-> n, t |-> t]
      BY <1>2, <2>2
    <3> QED
      BY <3>1, <3>2 DEF Posted
  <2>3. n \in todo \/ n = cur.u \/ Posted(n, t)
    BY <1>1 DEF FoundInv
  <2> QED
    BY <2>1, <2>2, <2>3
<1>11. ShownInv'
  <2>1. ASSUME NEW t \in Torrents \ marred, shown[t] # None, cur.t = t
        PROVE  cur.u = shown[t]
    BY <1>2, <2>1 DEF ShownInv, Names
  <2> QED
    BY <1>1, <1>5, <2>1 DEF ShownInv
<1>12. RemovedInv'
  <2>1. cur.t \in owned \cup marred
    BY <1>1, <1>2 DEF RemovedInv, Names
  <2> QED
    BY <1>1, <1>5, <2>1 DEF RemovedInv
<1> QED
  BY <1>6, <1>7, <1>8, <1>9, <1>10, <1>11, <1>12

LEMMA EndScanStep ==
    ASSUME RestoreInv, EndScan
    PROVE  RestoreInv'
<1> USE DEF RestoreInv, FilesInv, RunInv
<1>1. /\ UNCHANGED <<dir, used, todo, cur, adds, registry, deletes, faults, owned,
                     shown, marred>>
      /\ pc = "scan" /\ pc' = "drain" /\ todo = {}
  BY DEF EndScan, disk, clients
<1>2. TypeOK' /\ CurInv' /\ PhaseInv'
  BY <1>1 DEF TypeOK, CurInv, PhaseInv
<1>3. FoundInv'
  BY <1>1 DEF FoundInv, Scanning, Posted
<1> QED
  BY <1>1, <1>2, <1>3, Kept

(***************************************************************************)
(* The adds.                                                               *)
(***************************************************************************)
\* What is left after the first add.
LEMMA RestOfAdds ==
    ASSUME TypeOK, adds # <<>>, adds' = Tail(adds)
    PROVE  /\ adds' \in Seq(Add)
           /\ \A i \in 1..Len(adds') : i + 1 \in 1..Len(adds) /\ adds'[i] = adds[i + 1]
           /\ \A i \in 1..Len(adds) :
                i # 1 => i - 1 \in 1..Len(adds') /\ adds'[i - 1] = adds[i]
<1>1. Len(adds) \in Nat /\ Len(adds) # 0
  BY EmptySeq, LenProperties DEF TypeOK
<1>2. /\ Tail(adds) \in Seq(Add) /\ Len(Tail(adds)) = Len(adds) - 1
      /\ \A i \in 1..Len(Tail(adds)) : Tail(adds)[i] = adds[i + 1]
  BY HeadTailProperties DEF TypeOK
<1> QED
  BY <1>1, <1>2

LEMMA FirstAdd ==
    ASSUME TypeOK, adds # <<>>
    PROVE  /\ 1 \in 1..Len(adds) /\ Head(adds) = adds[1] /\ Head(adds) \in Add
           /\ Head(adds).t \in Torrents /\ Head(adds).u \in Uuids
           /\ Head(adds).u # None
           /\ Head(adds) = [u |-> Head(adds).u, t |-> Head(adds).t]
<1>1. 1 \in 1..Len(adds)
  BY EmptySeq, LenProperties DEF TypeOK
<1>2. Head(adds) = adds[1]
  BY HeadTailProperties DEF TypeOK
<1>3. /\ adds[1] \in Add /\ adds[1].t \in Torrents /\ adds[1].u \in Uuids
      /\ adds[1] = [u |-> adds[1].u, t |-> adds[1].t]
  BY <1>1, AddFacts
<1>4. adds[1].u # None
  BY <1>3, FileFacts
<1> QED
  BY <1>1, <1>2, <1>3, <1>4

\* An add fails, or the file of a loser cannot be deleted: the torrent is
\* excepted, everything else stays.
LEMMA FailedAddStep ==
    ASSUME RestoreInv, pc = "drain", adds # <<>>, adds' = Tail(adds), Fault,
           Mar(Head(adds).t),
           UNCHANGED <<dir, used, pc, todo, cur, registry, deletes, owned, shown>>
    PROVE  RestoreInv'
<1> USE DEF RestoreInv, FilesInv, RunInv
<1> DEFINE a == Head(adds)
<1>1. a = adds[1] /\ a.t \in Torrents /\ a.u \in Uuids
  BY FirstAdd
<1>2. marred' = marred \cup {a.t}
  BY <1>1 DEF Mar
<1>3. faults' \in 0..MaxFaults
  BY FaultsAssumption DEF Fault, TypeOK
<1>4. TypeOK'
  BY <1>1, <1>2, <1>3, RestOfAdds DEF TypeOK
<1>5. NameInv' /\ UsedInv' /\ CurInv' /\ PhaseInv'
  BY DEF NameInv, UsedInv, CurInv, PhaseInv
<1>6. AddsInv'
  BY RestOfAdds DEF AddsInv
<1>7. RegisteredIsStored' /\ DeletesInv' /\ RecordKept'
  BY DEF RegisteredIsStored, DeletesInv, RecordKept, HasRecord
<1>8. FoundInv'
  <2> SUFFICES ASSUME NEW n \in Names, NEW t \in Torrents \ marred', dir[n].t = t
               PROVE  Posted(n, t)' \/ n = registry[t]
    BY DEF FoundInv, Scanning
  <2>1. t \notin marred /\ t # a.t
    BY <1>2
  <2>2. Posted(n, t) \/ n = registry[t]
    BY <2>1 DEF FoundInv, Scanning
  <2>3. ASSUME NEW i \in 1..Len(adds), adds[i] = [u |-> n, t |-> t] PROVE Posted(n, t)'
    BY <1>1, <2>1, <2>3, RestOfAdds DEF Posted
  <2> QED
    BY <2>2, <2>3 DEF Posted
<1>9. ShownInv'
  BY <1>2, RestOfAdds DEF ShownInv
<1>10. RemovedInv'
  BY <1>2, RestOfAdds DEF RemovedInv
<1> QED
  BY <1>4, <1>5, <1>6, <1>7, <1>8, <1>9, <1>10

\* The first add of a torrent registers it, a further one of the same file
\* changes nothing.
LEMMA WinnerStep ==
    ASSUME RestoreInv, pc = "drain", adds # <<>>, adds' = Tail(adds),
           Loser(Head(adds)) = None, registry' = Upsert(Head(adds)),
           UNCHANGED <<dir, used, pc, todo, cur, deletes, owned, shown, faults, marred>>
    PROVE  RestoreInv'
<1> USE DEF RestoreInv, FilesInv, RunInv
<1> DEFINE a == Head(adds)
<1>1. a = adds[1] /\ a \in Add /\ a.t \in Torrents /\ a.u \in Uuids
      /\ a = [u |-> a.u, t |-> a.t] /\ a.u # None
  BY FirstAdd
<1>2. registry[a.t] \in {None, a.u}
  BY <1>1 DEF Loser, Upsert
<1>3. registry' \in [Torrents -> Uuids \cup {None}] /\ registry' = [registry EXCEPT ![a.t] = a.u]
  BY <1>1, <1>2 DEF Upsert, TypeOK
<1>4. \A t \in Torrents : registry'[t] = IF t = a.t THEN a.u ELSE registry[t]
  BY <1>1, <1>3 DEF TypeOK
<1>5. dir[a.u] = Rec(a.t, a.u)
  BY <1>1, <1>2, FirstAdd DEF AddsInv
<1>6. TypeOK'
  BY <1>3, RestOfAdds DEF TypeOK
<1>7. NameInv' /\ UsedInv' /\ CurInv' /\ PhaseInv'
  BY DEF NameInv, UsedInv, CurInv, PhaseInv
<1>8. AddsInv'
  <2> SUFFICES ASSUME NEW i \in 1..Len(adds)
               PROVE  \/ dir[adds[i].u] = Rec(adds[i].t, adds[i].u)
                      \/ /\ dir[adds[i].u] = Free
                         /\ registry'[adds[i].t] # None /\ registry'[adds[i].t] # adds[i].u
    BY RestOfAdds DEF AddsInv
  <2>1. adds[i].t \in Torrents /\ adds[i].u \in Uuids
    BY AddFacts
  <2>2. CASE dir[adds[i].u] = Free
    <3>1. registry[adds[i].t] # None /\ adds[i].u # a.u
      BY <1>1, <1>5, <2>1, <2>2, FileFacts DEF AddsInv
    <3> QED
      BY <1>1, <1>4, <2>1, <2>2, <3>1, FileFacts DEF AddsInv
  <2>3. CASE dir[adds[i].u] = Rec(adds[i].t, adds[i].u)
    BY <2>3
  <2> QED
    BY <2>2, <2>3 DEF AddsInv
<1>9. RegisteredIsStored'
  BY <1>4, <1>5 DEF RegisteredIsStored, Rec
<1>10. DeletesInv' /\ RecordKept'
  BY DEF DeletesInv, PhaseInv, RecordKept, HasRecord
<1>11. FoundInv'
  <2> SUFFICES ASSUME NEW n \in Names, NEW t \in Torrents \ marred, dir[n].t = t
               PROVE  Posted(n, t)' \/ n = registry'[t]
    BY DEF FoundInv, Scanning
  <2>1. CASE n = registry[t]
    BY <1>1, <1>2, <1>4, <2>1, NamesAssumption
  <2>2. ASSUME NEW i \in 1..Len(adds), adds[i] = [u |-> n, t |-> t]
        PROVE  Posted(n, t)' \/ n = registry'[t]
    <3>1. CASE i = 1
      BY <1>1, <1>4, <2>2, <3>1
    <3>2. ASSUME i # 1 PROVE Posted(n, t)'
      BY <2>2, <3>2, RestOfAdds DEF Posted
    <3> QED
      BY <3>1, <3>2
  <2> QED
    BY <2>1, <2>2 DEF FoundInv, Scanning, Posted
<1>12. ShownInv'
  <2>1. ASSUME a.t \notin marred, shown[a.t] # None PROVE a.u = shown[a.t]
    BY <1>1, <2>1, FirstAdd DEF ShownInv
  <2> QED
    BY <1>4, <2>1, RestOfAdds DEF ShownInv
<1>13. RemovedInv'
  <2>1. a.t \in owned \cup marred
    BY <1>1, FirstAdd DEF RemovedInv
  <2> QED
    BY <1>4, <2>1, RestOfAdds DEF RemovedInv
<1> QED
  BY <1>6, <1>7, <1>8, <1>9, <1>10, <1>11, <1>12, <1>13

\* The torrent is registered under another uuid: the file of this add, which
\* nobody else has, is deleted.
LEMMA LoserStep ==
    ASSUME RestoreInv, pc = "drain", adds # <<>>, adds' = Tail(adds),
           Loser(Head(adds)) # None, registry' = Upsert(Head(adds)),
           dir' = [dir EXCEPT ![Loser(Head(adds))] = Free],
           UNCHANGED <<used, pc, todo, cur, deletes, owned, shown, faults, marred>>
    PROVE  RestoreInv'
<1> USE DEF RestoreInv, FilesInv, RunInv
<1> DEFINE a == Head(adds)
<1>1. a = adds[1] /\ a \in Add /\ a.t \in Torrents /\ a.u \in Uuids
      /\ a = [u |-> a.u, t |-> a.t] /\ a.u # None
  BY FirstAdd
<1>2. registry[a.t] # None /\ registry[a.t] # a.u /\ registry' = registry
      /\ Loser(a) = a.u
  BY <1>1 DEF Loser, Upsert, TypeOK
<1>3. dir[a.u] = Rec(a.t, a.u) \/ dir[a.u] = Free
  BY <1>1, FirstAdd DEF AddsInv
<1>4. /\ dir' \in [Names -> Files]
      /\ \A n \in Names : dir'[n] = IF n = a.u THEN Free ELSE dir[n]
  BY <1>1, <1>2, FileFacts, Written DEF Names
<1>5. \A n \in Names : dir'[n].t \in Torrents => n # a.u /\ dir'[n] = dir[n]
  BY <1>4, FileFacts
<1>6. \A t \in Torrents : registry[t] # a.u
  <2> SUFFICES ASSUME NEW t \in Torrents, registry[t] = a.u PROVE FALSE
    OBVIOUS
  <2>1. dir[a.u] = Rec(t, a.u)
    BY <1>1 DEF RegisteredIsStored, Rec
  <2>2. dir[a.u] # Free /\ dir[a.u].t = t
    BY <1>1, <2>1, FileFacts
  <2>3. t = a.t
    BY <1>1, <1>3, <2>2, FileFacts
  <2> QED
    BY <1>2, <2>3
<1>7. TypeOK'
  BY <1>2, <1>4, RestOfAdds DEF TypeOK
<1>8. NameInv'
  BY <1>1, <1>4, FileFacts, NamesAssumption DEF NameInv, Names, Record
<1>9. UsedInv'
  BY <1>1, <1>4, FileFacts DEF UsedInv, Names
<1>10. CurInv' /\ PhaseInv'
  BY DEF CurInv, PhaseInv
<1>11. AddsInv'
  <2> SUFFICES ASSUME NEW i \in 1..Len(adds)
               PROVE  \/ dir'[adds[i].u] = Rec(adds[i].t, adds[i].u)
                      \/ /\ dir'[adds[i].u] = Free
                         /\ registry[adds[i].t] # None /\ registry[adds[i].t] # adds[i].u
    BY <1>2, RestOfAdds DEF AddsInv
  <2>1. adds[i].t \in Torrents /\ adds[i].u \in Uuids /\ adds[i].u \in Names
    BY AddFacts DEF Names
  <2>2. CASE adds[i].u # a.u
    BY <1>4, <2>1, <2>2 DEF AddsInv
  <2>3. CASE adds[i].u = a.u
    <3>1. dir'[adds[i].u] = Free
      BY <1>4, <2>1, <2>3
    <3>2. CASE dir[a.u] = Free
      BY <2>1, <2>3, <3>1, <3>2, FileFacts DEF AddsInv
    <3>3. CASE dir[a.u] = Rec(a.t, a.u)
      <4>1. adds[i].t = a.t
        BY <1>1, <2>1, <2>3, <3>3, FileFacts DEF AddsInv
      <4> QED
        BY <1>2, <2>3, <3>1, <4>1
    <3> QED
      BY <1>3, <3>2, <3>3
  <2> QED
    BY <2>2, <2>3
<1>12. RegisteredIsStored'
  BY <1>2, <1>4, <1>6 DEF RegisteredIsStored, TypeOK, Names
<1>13. DeletesInv'
  BY DEF DeletesInv, PhaseInv
<1>14. RecordKept'
  <2> SUFFICES ASSUME NEW t \in owned PROVE HasRecord(t)'
    BY DEF RecordKept
  <2>1. t \in Torrents
    BY DEF TypeOK
  <2>2. CASE t = a.t
    <3>1. registry[t] \in Names /\ registry[t] # a.u
      BY <1>2, <2>1, <2>2 DEF TypeOK, Names
    <3>2. dir[registry[t]] = Rec(t, registry[t])
      BY <1>2, <2>1, <2>2 DEF RegisteredIsStored, Rec
    <3>3. dir[registry[t]].t = t
      BY <3>2 DEF Rec
    <3> QED
      BY <1>4, <3>1, <3>3 DEF HasRecord
  <2>3. CASE t # a.t
    <3>1. PICK n \in Names : dir[n].t = t
      BY DEF RecordKept, HasRecord
    <3>2. n # a.u
      BY <1>1, <1>3, <2>1, <2>3, <3>1, FileFacts
    <3> QED
      BY <1>4, <3>1, <3>2 DEF HasRecord
  <2> QED
    BY <2>2, <2>3
<1>15. FoundInv'
  <2> SUFFICES ASSUME NEW n \in Names, NEW t \in Torrents \ marred, dir'[n].t = t
               PROVE  Posted(n, t)' \/ n = registry[t]
    BY <1>2 DEF FoundInv, Scanning
  <2>1. n # a.u /\ dir[n].t = t
    BY <1>5
  <2>2. ASSUME NEW i \in 1..Len(adds), adds[i] = [u |-> n, t |-> t] PROVE Posted(n, t)'
    <3>1. i # 1
      BY <1>1, <2>1, <2>2
    <3> QED
      BY <2>2, <3>1, RestOfAdds DEF Posted
  <2> QED
    BY <2>1, <2>2 DEF FoundInv, Scanning, Posted
<1>16. ShownInv'
  BY <1>2, <1>5, RestOfAdds DEF ShownInv
<1>17. RemovedInv'
  BY <1>2, <1>5, RestOfAdds DEF RemovedInv
<1> QED
  BY <1>7, <1>8, <1>9, <1>10, <1>11, <1>12, <1>13, <1>14, <1>15, <1>16, <1>17

LEMMA ResolveStep ==
    ASSUME RestoreInv, Resolve
    PROVE  RestoreInv'
<1> DEFINE a == Head(adds)
<1>1. /\ pc = "drain" /\ adds # <<>> /\ adds' = Tail(adds)
      /\ UNCHANGED <<used, pc, todo, cur, deletes, owned, shown>>
  BY DEF Resolve, clients
<1>2. CASE registry' = Upsert(a) /\ Loser(a) = None /\ UNCHANGED <<dir, faults, marred>>
  BY <1>1, <1>2, WinnerStep
<1>3. CASE /\ registry' = Upsert(a) /\ Loser(a) # None
           /\ dir' = [dir EXCEPT ![Loser(a)] = Free] /\ UNCHANGED <<faults, marred>>
  BY <1>1, <1>3, LoserStep
<1>4. CASE /\ registry' = Upsert(a) /\ Loser(a) # None
           /\ Fault /\ Mar(a.t) /\ UNCHANGED dir
  <2>1. a.t \in Torrents /\ a.u # None
    BY <1>1, FirstAdd DEF RestoreInv
  <2>2. registry' = registry
    BY <1>4, <2>1 DEF Loser, Upsert, RestoreInv, TypeOK
  <2> QED
    BY <1>1, <1>4, <2>2, FailedAddStep
<1>5. CASE Fault /\ Mar(a.t) /\ UNCHANGED <<dir, registry>>
  BY <1>1, <1>5, FailedAddStep
<1> QED
  BY <1>2, <1>3, <1>4, <1>5 DEF Resolve

LEMMA ServeStep ==
    ASSUME RestoreInv, Serve
    PROVE  RestoreInv'
<1> USE DEF RestoreInv, FilesInv, RunInv
<1>1. /\ UNCHANGED <<dir, used, todo, cur, adds, registry, deletes, faults, owned, marred>>
      /\ pc = "drain" /\ pc' = "up" /\ adds = <<>> /\ deletes = {}
  BY DEF Serve, disk, PhaseInv
<1>2. \A t \in Torrents :
        shown'[t] = IF shown[t] = None THEN registry[t] ELSE shown[t]
  BY DEF Serve
<1>3. shown' \in [Torrents -> Uuids \cup {None}]
  BY DEF Serve, TypeOK
<1>4. 1..Len(adds) = {}
  BY <1>1
<1>5. TypeOK'
  BY <1>1, <1>3 DEF TypeOK
<1>6. NameInv' /\ UsedInv' /\ CurInv' /\ PhaseInv'
  BY <1>1 DEF NameInv, UsedInv, CurInv, PhaseInv
<1>7. AddsInv' /\ RegisteredIsStored' /\ DeletesInv' /\ RecordKept'
  BY <1>1 DEF AddsInv, RegisteredIsStored, DeletesInv, RecordKept, HasRecord
<1>8. \A n \in Names, t \in Torrents \ marred : dir[n].t = t => n = registry[t]
  BY <1>1, <1>4 DEF FoundInv, Scanning, Posted
<1>9. FoundInv'
  BY <1>1, <1>8 DEF FoundInv
<1>10. ShownInv'
  BY <1>1, <1>2, <1>4, <1>8 DEF ShownInv
<1>11. RemovedInv'
  BY <1>1 DEF RemovedInv
<1> QED
  BY <1>5, <1>6, <1>7, <1>9, <1>10, <1>11

(***************************************************************************)
(* The clients, the persister, and the end of a run.                       *)
(***************************************************************************)
\* A minted uuid is in no file, and no file of the torrent is left.
LEMMA AddTorrentStep ==
    ASSUME RestoreInv, NEW t \in Torrents, NEW u \in Uuids, AddTorrent(t, u)
    PROVE  RestoreInv'
<1> USE DEF RestoreInv, FilesInv, RunInv
<1>1. /\ UNCHANGED <<pc, todo, cur, adds, deletes, faults, marred>>
      /\ pc = "up" /\ registry[t] = None /\ u \notin used
      /\ \A v \in deletes : dir[v].t # t
      /\ registry' = [registry EXCEPT ![t] = u] /\ shown' = [shown EXCEPT ![t] = u]
      /\ used' = used \cup {u} /\ owned' = owned \cup {t}
  BY DEF AddTorrent, Minted, tasks
<1>2. dir[u] = Free /\ \A n \in OldNames : dir[n].u # u
  BY <1>1 DEF UsedInv
<1>3. /\ dir' \in [Names -> Files] /\ u \in Names
      /\ \A n \in Names : dir'[n] = IF n = u THEN Rec(t, u) ELSE dir[n]
  <2>1. dir' = [dir EXCEPT ![u] = Rec(t, u)]
    BY DEF AddTorrent, Rec
  <2> QED
    BY <2>1, FileFacts, Written DEF Names
<1>4. /\ \A s \in Torrents : registry'[s] = IF s = t THEN u ELSE registry[s]
      /\ \A s \in Torrents : shown'[s] = IF s = t THEN u ELSE shown[s]
  BY <1>1 DEF TypeOK
<1>5. u \notin deletes /\ \A s \in Torrents : registry[s] # u
  <2>1. \A s \in Torrents : registry[s] = u => dir[u] = Rec(s, u)
    BY FileFacts DEF RegisteredIsStored, Rec
  <2> QED
    BY <1>1, <1>2, <2>1, FileFacts DEF DeletesInv
<1>6. adds = <<>> /\ 1..Len(adds) = {}
  BY <1>1 DEF PhaseInv
<1>7. TypeOK'
  BY <1>1, <1>3 DEF TypeOK
<1>8. NameInv'
  <2>1. \A v \in Uuids : dir'[v] \in Record => dir'[v].u = v
    BY <1>3, FileFacts DEF NameInv, Names
  <2>2. \A n \in OldNames : dir'[n] = dir[n]
    BY <1>3, NamesAssumption DEF Names
  <2>3. \A n \in OldNames : dir[n].u \in Uuids => dir'[dir[n].u] = dir[dir[n].u]
    BY <1>2, <1>3 DEF Names
  <2> QED
    BY <2>1, <2>2, <2>3 DEF NameInv
<1>9. UsedInv'
  <2>1. \A n \in OldNames : dir'[n] = dir[n]
    BY <1>3, NamesAssumption DEF Names
  <2> QED
    BY <1>1, <1>3, <2>1 DEF UsedInv, Names
<1>10. CurInv' /\ PhaseInv'
  BY <1>1, <1>6 DEF CurInv, PhaseInv
<1>11. AddsInv'
  BY <1>1, <1>6 DEF AddsInv
<1>12. RegisteredIsStored'
  <2> SUFFICES ASSUME NEW s \in Torrents, registry'[s] # None
               PROVE  dir'[registry'[s]] = [t |-> s, u |-> registry'[s]]
    BY DEF RegisteredIsStored
  <2>1. CASE s = t
    BY <1>3, <1>4, <2>1 DEF Rec
  <2>2. CASE s # t
    <3>1. registry'[s] = registry[s] /\ registry[s] \in Names /\ registry[s] # u
      BY <1>4, <1>5, <2>2 DEF TypeOK, Names
    <3> QED
      BY <1>3, <3>1 DEF RegisteredIsStored
  <2> QED
    BY <2>1, <2>2
<1>13. DeletesInv'
  <2> SUFFICES ASSUME NEW v \in deletes
               PROVE  v \in used' /\ dir'[v].t \notin owned'
                        /\ \A s \in Torrents : registry'[s] # v
    BY <1>1 DEF DeletesInv
  <2>1. v \in Names /\ v # u
    BY <1>5 DEF TypeOK, Names
  <2> QED
    BY <1>1, <1>3, <1>4, <2>1 DEF DeletesInv
<1>14. RecordKept'
  <2> SUFFICES ASSUME NEW s \in owned' PROVE HasRecord(s)'
    BY DEF RecordKept
  <2>1. CASE s = t
    BY <1>3, <2>1, FileFacts DEF HasRecord
  <2>2. CASE s # t
    <3>1. PICK n \in Names : dir[n].t = s
      BY <1>1, <2>2 DEF RecordKept, HasRecord
    <3>2. s # None
      BY <1>1, <2>2, FileFacts DEF TypeOK
    <3>3. n # u
      BY <1>2, <3>1, <3>2, FileFacts
    <3> QED
      BY <1>3, <3>1, <3>3 DEF HasRecord
  <2> QED
    BY <2>1, <2>2
<1>15. \A n \in Names, s \in Torrents :
         dir'[n].t = s => (n = u /\ s = t) \/ (n # u /\ dir[n].t = s)
  BY <1>3, FileFacts
<1>16. t \notin marred => \A n \in Names : dir[n].t # t
  BY <1>1, NamesAssumption DEF FoundInv, Scanning
<1>17. FoundInv'
  <2> SUFFICES ASSUME NEW n \in Names, NEW s \in Torrents \ marred, dir'[n].t = s
               PROVE  n = registry'[s] \/ n \in deletes
    BY <1>1 DEF FoundInv
  <2> QED
    BY <1>1, <1>4, <1>15, <1>16 DEF FoundInv, Scanning
<1>18. ShownInv'
  <2> SUFFICES ASSUME NEW s \in Torrents \ marred, shown'[s] # None
               PROVE  /\ \A n \in Names : dir'[n].t = s => n = shown'[s]
                      /\ registry'[s] \in {None, shown'[s]}
    BY <1>1, <1>6 DEF ShownInv
  <2>1. CASE s = t
    BY <1>4, <1>15, <1>16, <2>1
  <2>2. CASE s # t
    BY <1>4, <1>15, <2>2 DEF ShownInv
  <2> QED
    BY <2>1, <2>2
<1>19. RemovedInv'
  <2> SUFFICES ASSUME NEW s \in Torrents \ (owned \cup marred), s # t
               PROVE  /\ \A n \in Names : dir'[n].t = s => n \in deletes
                      /\ registry'[s] = None
    BY <1>1, <1>6 DEF RemovedInv
  <2> QED
    BY <1>4, <1>15 DEF RemovedInv
<1> QED
  BY <1>7, <1>8, <1>9, <1>10, <1>11, <1>12, <1>13, <1>14, <1>17, <1>18, <1>19

LEMMA RemoveStep ==
    ASSUME RestoreInv, NEW t \in Torrents, Remove(t)
    PROVE  RestoreInv'
<1> USE DEF RestoreInv, FilesInv, RunInv
<1> DEFINE u == registry[t]
<1>1. /\ UNCHANGED <<dir, used, pc, todo, cur, adds, faults, marred>>
      /\ pc = "up" /\ u # None
      /\ registry' = [registry EXCEPT ![t] = None] /\ shown' = [shown EXCEPT ![t] = None]
      /\ deletes' = deletes \cup {u} /\ owned' = owned \ {t}
  BY DEF Remove, disk, tasks
<1>2. /\ \A s \in Torrents : registry'[s] = IF s = t THEN None ELSE registry[s]
      /\ \A s \in Torrents : shown'[s] = IF s = t THEN None ELSE shown[s]
  BY <1>1 DEF TypeOK
<1>3. u \in Uuids /\ dir[u] = Rec(t, u)
  BY <1>1 DEF TypeOK, RegisteredIsStored, Rec
<1>4. dir[u] # Free /\ dir[u].t = t
  BY <1>3, FileFacts
<1>5. \A s \in Torrents : s # t => registry[s] # u
  <2> SUFFICES ASSUME NEW s \in Torrents, registry[s] = u PROVE s = t
    OBVIOUS
  <2>1. dir[u] = Rec(s, u)
    BY <1>1 DEF RegisteredIsStored, Rec
  <2> QED
    BY <1>3, <1>4, <2>1, FileFacts
<1>6. adds = <<>> /\ 1..Len(adds) = {}
  BY <1>1 DEF PhaseInv
<1>7. TypeOK'
  BY <1>1, <1>3 DEF TypeOK
<1>8. NameInv' /\ UsedInv' /\ CurInv' /\ PhaseInv'
  BY <1>1 DEF NameInv, UsedInv, CurInv, PhaseInv
<1>9. AddsInv' /\ RegisteredIsStored'
  BY <1>1, <1>2, <1>6 DEF AddsInv, RegisteredIsStored
<1>10. DeletesInv'
  <2>1. u \in used
    BY <1>3, <1>4 DEF UsedInv
  <2> SUFFICES ASSUME NEW v \in deletes \cup {u}
               PROVE  v \in used /\ dir[v].t \notin owned'
                        /\ \A s \in Torrents : registry'[s] # v
    BY <1>1 DEF DeletesInv
  <2>2. CASE v = u
    BY <1>1, <1>2, <1>3, <1>4, <1>5, <2>1, <2>2, FileFacts
  <2>3. CASE v \in deletes
    <3>1. v # None
      BY <2>3, FileFacts DEF TypeOK
    <3> QED
      BY <1>1, <1>2, <2>3, <3>1 DEF DeletesInv
  <2> QED
    BY <2>2, <2>3
<1>11. RecordKept'
  BY <1>1 DEF RecordKept, HasRecord
<1>12. FoundInv'
  BY <1>1, <1>2 DEF FoundInv, Scanning
<1>13. ShownInv'
  BY <1>1, <1>2, <1>6 DEF ShownInv
<1>14. RemovedInv'
  <2>1. t \notin marred => \A n \in Names : dir[n].t = t => n \in deletes'
    BY <1>1 DEF FoundInv, Scanning
  <2> QED
    BY <1>1, <1>2, <1>6, <2>1 DEF RemovedInv
<1> QED
  BY <1>7, <1>8, <1>9, <1>10, <1>11, <1>12, <1>13, <1>14

LEMMA DeleteResumeStep ==
    ASSUME RestoreInv, NEW u \in Uuids, DeleteResume(u)
    PROVE  RestoreInv'
<1> USE DEF RestoreInv, FilesInv, RunInv
<1>1. /\ UNCHANGED <<used, pc, todo, cur, adds, registry, owned, shown>>
      /\ pc = "up" /\ u \in deletes /\ deletes' = deletes \ {u}
  BY DEF DeleteResume, tasks, clients
<1>2. /\ marred \subseteq marred' /\ marred' \subseteq Torrents /\ faults' \in 0..MaxFaults
      /\ dir' \in [Names -> Files]
      /\ \A n \in Names : dir'[n] = dir[n] \/ (n = u /\ dir'[n] = Free)
      /\ dir'[u].t \in Torrents => dir'[u].t \in marred'
  <2>1. CASE dir' = [dir EXCEPT ![u] = Free] /\ UNCHANGED <<faults, marred>>
    BY <2>1, FileFacts, Written DEF TypeOK, Names
  <2>2. CASE Fault /\ Mar(dir[u].t) /\ UNCHANGED dir
    BY <2>2, FaultsAssumption DEF Fault, Mar, TypeOK
  <2> QED
    BY <2>1, <2>2 DEF DeleteResume
<1>3. \A n \in Names : dir'[n] # Free => dir'[n] = dir[n]
  BY <1>2
<1>4. u \in Names /\ dir[u].t \notin owned /\ \A t \in Torrents : registry[t] # u
  BY <1>1 DEF DeletesInv, Names
<1>5. adds = <<>> /\ 1..Len(adds) = {}
  BY <1>1 DEF PhaseInv
<1>6. TypeOK'
  BY <1>1, <1>2 DEF TypeOK
<1>7. NameInv'
  BY <1>2, <1>3, FileFacts DEF NameInv, Names, Record, Free
<1>8. UsedInv'
  BY <1>1, <1>2, <1>3, FileFacts DEF UsedInv, Names
<1>9. CurInv' /\ PhaseInv' /\ AddsInv'
  BY <1>1, <1>5 DEF CurInv, PhaseInv, AddsInv
<1>10. RegisteredIsStored'
  BY <1>1, <1>2, <1>4 DEF RegisteredIsStored, TypeOK, Names
<1>11. DeletesInv'
  <2> SUFFICES ASSUME NEW v \in deletes \ {u}
               PROVE  v \in used /\ dir'[v].t \notin owned
                        /\ \A t \in Torrents : registry[t] # v
    BY <1>1 DEF DeletesInv
  <2>1. v \in Names
    BY DEF TypeOK, Names
  <2> QED
    BY <1>2, <2>1 DEF DeletesInv
<1>12. RecordKept'
  <2> SUFFICES ASSUME NEW t \in owned PROVE HasRecord(t)'
    BY <1>1 DEF RecordKept
  <2>1. PICK n \in Names : dir[n].t = t
    BY DEF RecordKept, HasRecord
  <2>2. n # u
    BY <1>4, <2>1
  <2> QED
    BY <1>2, <2>1, <2>2 DEF HasRecord
<1>13. \A n \in Names, t \in Torrents \ marred' :
         dir'[n].t = t => n # u /\ dir[n].t = t
  BY <1>2, FileFacts
<1>14. FoundInv'
  BY <1>1, <1>2, <1>13 DEF FoundInv, Scanning
<1>15. ShownInv'
  BY <1>1, <1>2, <1>5, <1>13 DEF ShownInv
<1>16. RemovedInv'
  BY <1>1, <1>2, <1>5, <1>13 DEF RemovedInv
<1> QED
  BY <1>6, <1>7, <1>8, <1>9, <1>10, <1>11, <1>12, <1>14, <1>15, <1>16

\* A shutdown with nothing left to delete, or a crash, which brings back what
\* was: a removal that had not reached the disk never happened.
LEMMA DownStep ==
    ASSUME RestoreInv, Shutdown \/ Crash
    PROVE  RestoreInv'
<1> USE DEF RestoreInv, FilesInv, RunInv
<1>1. /\ UNCHANGED <<dir, used, shown, marred>>
      /\ pc' = "off" /\ todo' = {} /\ cur' = Idle /\ adds' = <<>> /\ deletes' = {}
      /\ registry' = [t \in Torrents |-> None]
  BY DEF Shutdown, Crash, Down, disk, clients
<1>2. /\ faults' \in 0..MaxFaults
      /\ owned' = owned \cup {dir[u].t : u \in {v \in deletes : dir[v].t \in Torrents}}
  BY FaultsAssumption DEF Shutdown, Crash, Fault, TypeOK, clients
<1>3. \A n : n \in deletes => n \in Names
  BY DEF TypeOK, Names
<1>4. owned' \subseteq Torrents
  BY <1>2 DEF TypeOK
<1>5. 1..Len(adds') = {} /\ adds' \in Seq(Add)
  BY <1>1
<1>6. TypeOK'
  BY <1>1, <1>2, <1>4, <1>5 DEF TypeOK, Idle, Entry
<1>7. NameInv' /\ UsedInv' /\ CurInv' /\ PhaseInv'
  BY <1>1 DEF NameInv, UsedInv, CurInv, PhaseInv
<1>8. AddsInv' /\ RegisteredIsStored' /\ DeletesInv'
  BY <1>1, <1>5 DEF AddsInv, RegisteredIsStored, DeletesInv
<1>9. RecordKept'
  BY <1>1, <1>2, <1>3 DEF RecordKept, HasRecord
<1>10. FoundInv'
  BY <1>1 DEF FoundInv
<1>11. ShownInv'
  BY <1>1, <1>5 DEF ShownInv
<1>12. RemovedInv'
  <2> SUFFICES ASSUME NEW t \in Torrents \ (owned' \cup marred), NEW n \in Names, dir[n].t = t
               PROVE  FALSE
    BY <1>1, <1>5 DEF RemovedInv
  <2>1. n \in deletes
    BY <1>2 DEF RemovedInv
  <2> QED
    BY <1>2, <2>1
<1> QED
  BY <1>6, <1>7, <1>8, <1>9, <1>10, <1>11, <1>12

(***************************************************************************)
(* The theorems.                                                           *)
(***************************************************************************)
LEMMA RestoreInit == Init => RestoreInv
<1> SUFFICES ASSUME Init PROVE RestoreInv
  OBVIOUS
<1> USE DEF RestoreInv, FilesInv, RunInv
<1>1. /\ dir \in [Names -> Files] /\ \A n \in Names : dir[n] \in InitFiles(n)
      /\ pc = "off" /\ todo = {} /\ cur = Idle /\ adds = <<>> /\ deletes = {}
      /\ faults = 0 /\ marred = {}
      /\ registry = [t \in Torrents |-> None] /\ shown = [t \in Torrents |-> None]
      /\ used = {n \in Uuids : dir[n] # Free}
      /\ owned = {t \in Torrents : HasRecord(t)}
  BY DEF Init
<1>2. /\ \A u \in Uuids : dir[u] \in Record => dir[u].u = u
      /\ \A n \in OldNames : dir[n].u \notin Uuids
  BY <1>1, FileFacts, NamesAssumption DEF InitFiles, Names, Record, Free, Corrupt
<1>3. TypeOK
  BY <1>1, FaultsAssumption DEF TypeOK, Idle, Entry
<1>4. NameInv /\ UsedInv /\ CurInv /\ PhaseInv
  BY <1>1, <1>2 DEF NameInv, UsedInv, CurInv, PhaseInv
<1>5. AddsInv /\ RegisteredIsStored /\ DeletesInv
  BY <1>1 DEF AddsInv, RegisteredIsStored, DeletesInv
<1>6. RecordKept /\ FoundInv /\ ShownInv
  BY <1>1 DEF RecordKept, FoundInv, ShownInv
<1>7. RemovedInv
  BY <1>1 DEF RemovedInv, HasRecord
<1> QED
  BY <1>3, <1>4, <1>5, <1>6, <1>7

\* The inductive invariant: whatever fails and wherever a crash comes, each
\* file of the directory is accounted for.
THEOREM FilesAccounted == Spec => []RestoreInv
<1>1. RestoreInv /\ [Next]_vars => RestoreInv'
  <2> SUFFICES ASSUME RestoreInv, [Next]_vars PROVE RestoreInv'
    OBVIOUS
  <2>1. CASE Boot \/ Splice \/ Rename \/ PostAdd \/ EndScan
    BY <2>1, BootStep, SpliceStep, RenameStep, PostAddStep, EndScanStep
  <2>2. CASE \E n \in Names : Unreadable(n) \/ Quarantine(n) \/ Parse(n)
    BY <2>2, UnreadableStep, QuarantineStep, ParseStep
  <2>3. CASE Resolve \/ Serve
    BY <2>3, ResolveStep, ServeStep
  <2>4. CASE \E t \in Torrents, u \in Uuids : AddTorrent(t, u)
    BY <2>4, AddTorrentStep
  <2>5. CASE \E t \in Torrents : Remove(t)
    BY <2>5, RemoveStep
  <2>6. CASE \E u \in Uuids : DeleteResume(u)
    BY <2>6, DeleteResumeStep
  <2>7. CASE Shutdown \/ Crash
    BY <2>7, DownStep
  <2>8. CASE UNCHANGED vars
    <3>1. UNCHANGED <<dir, used, pc, todo, cur, adds, registry, deletes, faults,
                      owned, shown, marred>>
      BY <2>8 DEF vars, disk, tasks, clients
    <3>2. TypeOK' /\ CurInv' /\ PhaseInv' /\ FoundInv'
      BY <3>1 DEF RestoreInv, FilesInv, RunInv, TypeOK, CurInv, PhaseInv, FoundInv,
                  Posted
    <3> QED
      BY <3>1, <3>2, Kept DEF RestoreInv, FilesInv, RunInv
  <2> QED
    BY <2>1, <2>2, <2>3, <2>4, <2>5, <2>6, <2>7, <2>8 DEF Next
<1> QED
  BY <1>1, RestoreInit, PTL DEF Spec

\* Types: in particular every file is a record, corrupt or absent.
THEOREM TypeCorrect == Spec => []TypeOK
<1>1. RestoreInv => TypeOK
  BY DEF RestoreInv
<1> QED
  BY <1>1, FilesAccounted, PTL

\* No step of a migration, failed or cut short, loses the record of a torrent
\* that no client removed.
THEOREM NoRecordLost == Spec => []RecordKept
<1>1. RestoreInv => RecordKept
  BY DEF RestoreInv
<1> QED
  BY <1>1, FilesAccounted, PTL

\* A registered torrent is on disk under its uuid, from before anyone sees it.
THEOREM RegisteredAreStored == Spec => []RegisteredIsStored
<1>1. RestoreInv => RegisteredIsStored
  BY DEF RestoreInv, RunInv
<1> QED
  BY <1>1, FilesAccounted, PTL

\* A torrent comes back under the uuid its clients know.
THEOREM UuidKept == Spec => []SameUuid
<1>1. RestoreInv => SameUuid
  BY DEF RestoreInv, ShownInv, SameUuid
<1> QED
  BY <1>1, FilesAccounted, PTL

\* The file a removal deletes is the only one of its torrent.
THEOREM OneFile == Spec => []NoStaleFile
<1>1. RestoreInv => NoStaleFile
  <2> SUFFICES ASSUME RestoreInv, pc = "up", NEW t \in Torrents \ marred,
                      registry[t] # None, NEW n \in Names, dir[n].t = t
               PROVE  n = registry[t]
    BY DEF NoStaleFile
  <2>1. n = registry[t] \/ n \in deletes
    BY DEF RestoreInv, FoundInv, Scanning
  <2>2. CASE n \in deletes
    <3>1. t \notin owned
      BY <2>2 DEF RestoreInv, RunInv, DeletesInv
    <3> QED
      BY <3>1 DEF RestoreInv, RemovedInv
  <2> QED
    BY <2>1, <2>2
<1> QED
  BY <1>1, FilesAccounted, PTL

\* A removed torrent whose file was deleted does not come back.
THEOREM RemovedNeverReturns == Spec => []RemovedStaysRemoved
<1>1. RestoreInv => RemovedStaysRemoved
  BY DEF RestoreInv, RemovedInv, RemovedStaysRemoved
<1> QED
  BY <1>1, FilesAccounted, PTL
===============================================================================
