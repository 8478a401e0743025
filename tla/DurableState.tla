----------------------------- MODULE DurableState -----------------------------
(***************************************************************************)
(* What the daemon promises about the state it keeps in session.state: an  *)
(* acknowledged change survives a crash (the doc comment of apply_settings *)
(* in rsbtd/src/engine/mod.rs, and set_ip_filter like it).                 *)
(*                                                                         *)
(* Each part of the state carries the stamp of the change that produced    *)
(* it.  What is stored only ever moves forward, and a change is            *)
(* acknowledged only once it, or a later change of the same part, is       *)
(* stored.  Crashes and restarts do not appear: they change neither.       *)
(***************************************************************************)
EXTENDS Integers

CONSTANT Parts      \* the independent parts of the state

VARIABLES
    stored,         \* the stamp of each part in the file
    acked           \* the newest acknowledged stamp of each part

durableVars == <<stored, acked>>

DurableInit ==
    /\ stored = [p \in Parts |-> 0]
    /\ acked = [p \in Parts |-> 0]

Store ==
    /\ stored' \in [Parts -> Nat]
    /\ \A p \in Parts : stored[p] <= stored'[p]
    /\ UNCHANGED acked

Acknowledge(p) ==
    /\ acked' \in [Parts -> Nat]
    /\ acked[p] <= acked'[p]
    /\ acked'[p] <= stored[p]
    /\ \A q \in Parts \ {p} : acked'[q] = acked[q]
    /\ UNCHANGED stored

DurableNext == Store \/ \E p \in Parts : Acknowledge(p)

DurableSpec == DurableInit /\ [][DurableNext]_durableVars

\* Nothing acknowledged is missing from the file.
AckedIsStored == \A p \in Parts : acked[p] <= stored[p]
===============================================================================
