------------------------------ MODULE ResumeStore ------------------------------
(***************************************************************************)
(* What the daemon promises about the resume files, seen from the files    *)
(* alone: "an acknowledged torrent is never silently volatile" (comment in *)
(* Engine::add_torrent, rsbtd/src/engine/mod.rs), and a removed torrent    *)
(* does not come back.                                                     *)
(*                                                                         *)
(* A torrent is "new" until its add is acknowledged, and "kept" from then  *)
(* on.  It is "released" when somebody asks for its removal, or its add    *)
(* has failed, and "gone" when the removal is complete.  A kept torrent    *)
(* has a file, and never an older one than it had; only the file of a      *)
(* released torrent is deleted; a gone one gets no file again.  Several    *)
(* torrents advance in one step because several calls return in one.       *)
(***************************************************************************)
EXTENDS Integers

CONSTANTS
    Torrents,
    NoFile          \* what is stored where there is no file

VARIABLES
    stored,         \* the version in the file of each torrent, or NoFile
    phase

storeVars == <<stored, phase>>

Phases == {"new", "kept", "released", "gone"}

StoreInit ==
    /\ stored \in [Torrents -> {NoFile, 0}]
    /\ phase = [t \in Torrents |-> IF stored[t] = NoFile THEN "new" ELSE "kept"]

\* The file of t, and no other, is replaced or removed.
Replaces(t) ==
    /\ stored' \in [Torrents -> Nat \cup {NoFile}]
    /\ \A u \in Torrents \ {t} : stored'[u] = stored[u] /\ phase'[u] = phase[u]
    /\ phase' \in [Torrents -> Phases]

Write(t) ==
    /\ phase[t] # "gone"
    /\ Replaces(t)
    /\ stored'[t] # NoFile /\ phase'[t] = phase[t]
    /\ phase[t] = "kept" => stored[t] <= stored'[t]

Delete(t) ==
    /\ phase[t] = "released"
    /\ Replaces(t)
    /\ stored'[t] = NoFile /\ phase'[t] \in {"released", "gone"}

Advances(t) ==
    \/ phase'[t] = phase[t]
    \/ phase[t] = "new" /\ phase'[t] = "kept" /\ stored[t] # NoFile
    \/ phase[t] \in {"new", "kept"} /\ phase'[t] = "released"
    \/ phase[t] # "gone" /\ phase'[t] = "gone" /\ stored[t] = NoFile

Advance ==
    /\ phase' \in [Torrents -> Phases]
    /\ \A t \in Torrents : Advances(t)
    /\ UNCHANGED stored

StoreNext == Advance \/ \E t \in Torrents : Write(t) \/ Delete(t)

StoreSpec == StoreInit /\ [][StoreNext]_storeVars
===============================================================================
