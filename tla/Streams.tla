-------------------------------- MODULE Streams --------------------------------
(***************************************************************************)
(* The torrent subscriptions: torrentEvents and torrentChanged of          *)
(* rsbtd/src/api/subscription.rs over the event bus of the engine, the     *)
(* conversion of events (api/events.rs), the ticker that asks libtorrent   *)
(* for state updates while somebody is interested, and the part of the     *)
(* pump that registers and forgets torrents (engine/mod.rs, pump.rs).      *)
(*                                                                         *)
(* libtorrent reports changes as deltas: an update names the torrents that *)
(* changed since the update before it.  The bus drops the oldest events of *)
(* a slow reader.  A client subscribes, asks for a snapshot and then       *)
(* applies what the stream sends; known and seen are what it believes.     *)
(***************************************************************************)
EXTENDS Integers, Sequences, FiniteSets

CONSTANTS
    Torrents,   \* torrents, by uuid: each is added at most once
    NoTorrent,  \* no filter; an event that names no torrent
    Subs,       \* the subscriptions a client holds at the same time
    BusCap,     \* EVENT_BUS_CAPACITY
    MaxVer,     \* bound: changes of the status of a torrent
    MaxNoise,   \* bound: events of other kinds
    Env         \* which failures are explored: "unwind"

ASSUME CapAssumption == BusCap \in Nat \ {0} /\ MaxVer \in Nat /\ MaxNoise \in Nat
ASSUME SubsAssumption == IsFiniteSet(Subs)
ASSUME NoTorrentAssumption == NoTorrent \notin Torrents

VARIABLES
    \* libtorrent (external)
    life,       \* of a torrent: not yet added, in the session, or out of it
    ver,        \* the status of a torrent, as a version
    updated,    \* torrents changed since the last update was posted
    alerts,     \* the alert queue
    noise,
    \* the engine
    registry,   \* registered torrents
    hand,       \* the event the pump is about to publish, or none
    interest,   \* state_interest
    \* the streams
    spc, kind, target, rx, lagged,
    \* the clients
    known,      \* the torrents a client believes to exist
    seen,       \* the version of each torrent a client has seen last
    unwound     \* history: torrents whose add was unwound

ltVars == <<life, ver, updated, alerts, noise>>
engineVars == <<registry, hand, interest>>
streamVars == <<spc, kind, target, rx, lagged>>
clientVars == <<known, seen>>
vars == <<ltVars, engineVars, streamVars, clientVars, unwound>>

Event == [kind : {"added", "removed", "other"}, t : Torrents \cup {NoTorrent}]
            \cup [kind : {"update"}, ts : SUBSET Torrents]
Added(t) == [kind |-> "added", t |-> t]
Removed(t) == [kind |-> "removed", t |-> t]
Update(ts) == [kind |-> "update", ts |-> ts]
Other == [kind |-> "other", t |-> NoTorrent]

TypeOK ==
    /\ life \in [Torrents -> {"new", "in", "out"}]
    /\ ver \in [Torrents -> 0 .. MaxVer]
    /\ updated \subseteq Torrents
    /\ alerts \in Seq(Event)
    /\ noise \in 0 .. MaxNoise
    /\ registry \subseteq Torrents
    /\ hand \in Seq(Event) /\ Len(hand) <= 1
    /\ interest \in 0 .. Cardinality(Subs)
    /\ spc \in [Subs -> {"idle", "checked", "subscribed", "open"}]
    /\ kind \in [Subs -> {"events", "changed"}]
    /\ target \in [Subs -> Torrents \cup {NoTorrent}]
    /\ rx \in [Subs -> Seq(Event)]
    /\ lagged \subseteq Subs
    /\ known \in [Subs -> SUBSET Torrents]
    /\ seen \in [Subs -> [Torrents -> 0 .. MaxVer]]
    /\ unwound \subseteq Torrents

Init ==
    /\ life = [t \in Torrents |-> "new"]
    /\ ver = [t \in Torrents |-> 0]
    /\ updated = {} /\ alerts = <<>> /\ noise = 0
    /\ registry = {} /\ hand = <<>> /\ interest = 0
    /\ spc = [s \in Subs |-> "idle"]
    /\ kind = [s \in Subs |-> "events"]
    /\ target = [s \in Subs |-> NoTorrent]
    /\ rx = [s \in Subs |-> <<>>]
    /\ lagged = {}
    /\ known = [s \in Subs |-> {}]
    /\ seen = [s \in Subs |-> [t \in Torrents |-> 0]]
    /\ unwound = {}

(***************************************************************************)
(* libtorrent, and the calls that change the session.                      *)
(***************************************************************************)
AddTorrent(t) ==
    /\ life[t] = "new"
    /\ life' = [life EXCEPT ![t] = "in"]
    /\ updated' = updated \cup {t}
    /\ alerts' = Append(alerts, Added(t))
    /\ UNCHANGED <<ver, noise, engineVars, streamVars, clientVars, unwound>>

\* The continuation of add_torrent may register the torrent before the pump.
Register(t) ==
    /\ \E i \in DOMAIN alerts : alerts[i] = Added(t)
    /\ life[t] = "in" /\ t \notin registry
    /\ registry' = registry \cup {t}
    /\ UNCHANGED <<ltVars, hand, interest, streamVars, clientVars, unwound>>

Leave(t) ==
    /\ life' = [life EXCEPT ![t] = "out"]
    /\ updated' = updated \ {t}
    /\ alerts' = Append(alerts, Removed(t))

RemoveTorrent(t) ==
    /\ life[t] = "in" /\ t \in registry
    /\ Leave(t)
    /\ UNCHANGED <<ver, noise, engineVars, streamVars, clientVars, unwound>>

\* The initial record of the torrent could not be written.
unwind_failed_add(t) ==
    /\ "unwind" \in Env /\ life[t] = "in" /\ t \in registry
    /\ registry' = registry \ {t}
    /\ Leave(t)
    /\ unwound' = unwound \cup {t}
    /\ UNCHANGED <<ver, noise, hand, interest, streamVars, clientVars>>

StatusChanges(t) ==
    /\ life[t] = "in" /\ ver[t] < MaxVer
    /\ ver' = [ver EXCEPT ![t] = @ + 1]
    /\ updated' = updated \cup {t}
    /\ UNCHANGED <<life, alerts, noise, engineVars, streamVars, clientVars, unwound>>

OtherAlert ==
    /\ noise < MaxNoise
    /\ noise' = noise + 1
    /\ alerts' = Append(alerts, Other)
    /\ UNCHANGED <<life, ver, updated, engineVars, streamVars, clientVars, unwound>>

\* run_state_ticker: a tick with interest posts the changes.  An update
\* that would name nothing is left out.
PostUpdates ==
    /\ interest > 0 /\ updated # {}
    /\ updated' = {}
    /\ alerts' = Append(alerts, Update(updated))
    /\ UNCHANGED <<life, ver, noise, engineVars, streamVars, clientVars, unwound>>

(***************************************************************************)
(* The pump: first the registry, then the event.                           *)
(***************************************************************************)
Receiving(s) == spc[s] \in {"subscribed", "open"}
Full(s) == Len(rx[s]) = BusCap

PumpAdded(t) ==
    /\ Head(alerts) = Added(t)
    /\ \/ registry' = registry \cup {t} /\ hand' = <<Added(t)>>
       \/ life[t] = "out" /\ UNCHANGED <<registry, hand>>     \* it vanished

PumpRemoved(t) ==
    /\ Head(alerts) = Removed(t)
    /\ registry' = registry \ {t}
    /\ hand' = <<Removed(IF t \in registry THEN t ELSE NoTorrent)>>

PumpOther ==
    /\ Head(alerts).kind \in {"update", "other"}
    /\ hand' = <<Head(alerts)>>
    /\ UNCHANGED registry

handle_alert ==
    /\ hand = <<>> /\ alerts # <<>>
    /\ PumpOther \/ \E t \in Torrents : PumpAdded(t) \/ PumpRemoved(t)
    /\ alerts' = Tail(alerts)
    /\ UNCHANGED <<life, ver, updated, noise, interest, streamVars, clientVars, unwound>>

publish ==
    /\ hand # <<>>
    /\ rx' = [s \in Subs |->
                IF ~Receiving(s) THEN rx[s]
                ELSE (IF Full(s) THEN Tail(rx[s]) ELSE rx[s]) \o hand]
    /\ lagged' = lagged \cup {s \in Subs : Receiving(s) /\ Full(s)}
    /\ hand' = <<>>
    /\ UNCHANGED <<ltVars, registry, interest, spc, kind, target, clientVars, unwound>>

(***************************************************************************)
(* Subscribing: the torrent of the filter must be known, then interest and *)
(* receiver are taken; the pump runs between the two.                      *)
(***************************************************************************)
Scope(s) == IF target[s] = NoTorrent THEN Torrents ELSE {target[s]}

InterestUnfiltered(s) == target[s] = NoTorrent
TakesInterest(s) == kind[s] = "changed" \/ target[s] = NoTorrent

CheckFilter(s, k, x) ==
    /\ spc[s] = "idle"
    /\ x # NoTorrent => x \in registry
    /\ spc' = [spc EXCEPT ![s] = "checked"]
    /\ kind' = [kind EXCEPT ![s] = k]
    /\ target' = [target EXCEPT ![s] = x]
    /\ UNCHANGED <<ltVars, engineVars, rx, lagged, clientVars, unwound>>

Subscribe(s) ==
    /\ spc[s] = "checked"
    /\ spc' = [spc EXCEPT ![s] = "subscribed"]
    /\ interest' = IF TakesInterest(s) THEN interest + 1 ELSE interest
    /\ UNCHANGED <<ltVars, registry, hand, kind, target, rx, lagged, clientVars, unwound>>

\* Torrent::load of the registered torrents among ts, as s gets it.
Loaded(s, ts) ==
    [seen EXCEPT ![s] = [t \in Torrents |-> IF t \in ts \cap registry \cap Scope(s)
                                            THEN ver[t] ELSE @[t]]]

\* The client asks for the torrents (query.rs).
Snapshot(s) ==
    /\ spc[s] = "subscribed"
    /\ spc' = [spc EXCEPT ![s] = "open"]
    /\ known' = [known EXCEPT ![s] = registry \cap Scope(s)]
    /\ seen' = Loaded(s, Torrents)
    /\ UNCHANGED <<ltVars, engineVars, kind, target, rx, lagged, unwound>>

\* The stream ends, and with it its receiver and its interest.
End(s) ==
    /\ spc' = [spc EXCEPT ![s] = "idle"]
    /\ kind' = [kind EXCEPT ![s] = "events"]
    /\ target' = [target EXCEPT ![s] = NoTorrent]
    /\ rx' = [rx EXCEPT ![s] = <<>>]
    /\ lagged' = lagged \ {s}
    /\ interest' = IF TakesInterest(s) THEN interest - 1 ELSE interest
    /\ known' = [known EXCEPT ![s] = {}]
    /\ seen' = [seen EXCEPT ![s] = [t \in Torrents |-> 0]]

\* The client disconnects.
Unsubscribe(s) ==
    /\ Receiving(s)
    /\ End(s)
    /\ UNCHANGED <<ltVars, registry, hand, unwound>>

(***************************************************************************)
(* Reading.  What the client believes after an event of its stream: events *)
(* of other torrents are skipped by a filter, events without a torrent are *)
(* not converted, only updates reach torrentChanged.                       *)
(***************************************************************************)
from_engine_event(s, e) ==
    CASE kind[s] = "changed" -> known[s]
      [] e.kind = "added" -> known[s] \cup ({e.t} \cap Scope(s))
      [] e.kind = "removed" -> known[s] \ {e.t}
      [] OTHER -> known[s]

Statuses(s, e) ==
    IF e.kind = "update" /\ (kind[s] = "changed" \/ target[s] = NoTorrent)
    THEN e.ts ELSE {}

Recv(s) ==
    /\ spc[s] = "open" /\ s \notin lagged /\ rx[s] # <<>>
    /\ rx' = [rx EXCEPT ![s] = Tail(@)]
    /\ known' = [known EXCEPT ![s] = from_engine_event(s, Head(rx[s]))]
    /\ seen' = Loaded(s, Statuses(s, Head(rx[s])))
    /\ UNCHANGED <<ltVars, engineVars, spc, kind, target, lagged, unwound>>

\* A lagged torrentEvents ends: what it missed may be a removal.
EventsGoOn(s) ==
    /\ spc[s] = "open" /\ s \in lagged /\ kind[s] = "events"
    /\ lagged' = lagged \ {s}
    /\ UNCHANGED <<ltVars, engineVars, spc, kind, target, rx, clientVars, unwound>>

EventsLagged(s) ==
    /\ spc[s] = "open" /\ s \in lagged /\ kind[s] = "events"
    /\ End(s)
    /\ UNCHANGED <<ltVars, registry, hand, unwound>>

\* A lagged torrentChanged sends a full snapshot: what it missed were deltas.
ChangedGoesOn(s) ==
    /\ spc[s] = "open" /\ s \in lagged /\ kind[s] = "changed"
    /\ lagged' = lagged \ {s}
    /\ UNCHANGED <<ltVars, engineVars, spc, kind, target, rx, clientVars, unwound>>

ChangedLagged(s) ==
    /\ spc[s] = "open" /\ s \in lagged /\ kind[s] = "changed"
    /\ lagged' = lagged \ {s}
    /\ seen' = Loaded(s, Torrents)
    /\ UNCHANGED <<ltVars, engineVars, spc, kind, target, rx, known, unwound>>

Server(s) == Subscribe(s) \/ Recv(s) \/ EventsLagged(s) \/ ChangedLagged(s)

Next ==
    \/ \E t \in Torrents : \/ AddTorrent(t) \/ Register(t) \/ RemoveTorrent(t)
                           \/ unwind_failed_add(t) \/ StatusChanges(t)
    \/ OtherAlert \/ PostUpdates \/ handle_alert \/ publish
    \/ \E s \in Subs : \/ Server(s) \/ Snapshot(s) \/ Unsubscribe(s)
                       \/ \E k \in {"events", "changed"},
                             x \in Torrents \cup {NoTorrent} : CheckFilter(s, k, x)

Spec == Init /\ [][Next]_vars

\* The ticker ticks, the pump and the streams are polled, and a client that
\* reads its stream gets its snapshot.
FairSpec ==
    /\ Spec
    /\ WF_vars(PostUpdates) /\ WF_vars(handle_alert) /\ WF_vars(publish)
    /\ \A s \in Subs : WF_vars(Server(s)) /\ WF_vars(Snapshot(s))

(***************************************************************************)
(* Properties.                                                             *)
(***************************************************************************)
\* What the client will believe once it has read what is on its way.
OnItsWay(s) == rx[s] \o hand
About(s, t) == {i \in DOMAIN OnItsWay(s) : OnItsWay(s)[i] \in {Added(t), Removed(t)}}
Told(s) ==
    {t \in Scope(s) :
        IF About(s, t) = {} THEN t \in known[s]
        ELSE LET last == CHOOSE i \in About(s, t) : \A j \in About(s, t) : j <= i
             IN OnItsWay(s)[last] = Added(t)}
Announced == {t \in Torrents : \E i \in DOMAIN alerts : alerts[i] = Added(t)}
Following(s) == spc[s] = "open" /\ kind[s] = "events" /\ s \notin lagged

\* A client of torrentEvents keeps no ghost torrent and misses none: what it
\* believes, with the events on their way to it, is what is registered,
\* whenever it subscribed and however slow it reads (subscription.rs:79-87).
\* A torrent whose add was unwound is excepted: nobody announces its end.
NoGhosts ==
    \A s \in Subs : Following(s) =>
        /\ Told(s) \subseteq registry \cup unwound
        /\ \A t \in registry \cap Scope(s) :
             life[t] = "in" => t \in Told(s) \cup Announced

\* The same without the exception, as the comment in subscription.rs has it
\* ("instead of keeping ghost torrents forever"): unwinding an add breaks it.
NoGhostsEver == \A s \in Subs : Following(s) => Told(s) \subseteq registry

\* A change is never lost between the deltas: a client that is sent updates
\* has seen the status of a torrent, or an update with it is still to come
\* (subscription.rs:135-139).
Coming(s, t) ==
    \/ t \in updated \/ s \in lagged
    \/ \E i \in DOMAIN alerts : alerts[i].kind = "update" /\ t \in alerts[i].ts
    \/ \E i \in DOMAIN OnItsWay(s) :
         OnItsWay(s)[i].kind = "update" /\ t \in OnItsWay(s)[i].ts

SentUpdates(s) == kind[s] = "changed" \/ target[s] = NoTorrent

NothingStale ==
    \A s \in Subs, t \in Torrents :
        /\ spc[s] = "open" /\ SentUpdates(s)
        /\ life[t] = "in" /\ t \in registry \cap Scope(s)
        => seen[s][t] = ver[t] \/ Coming(s, t)

\* A client that stays sees every change in the end, also when all other
\* subscribers left: the ticker runs as long as somebody is interested.
CaughtUp ==
    \A s \in Subs, t \in Torrents :
        spc[s] = "open" /\ SentUpdates(s) /\ life[t] = "in" /\ t \in Scope(s)
        ~> seen[s][t] = ver[t] \/ spc[s] # "open" \/ life[t] # "in"
================================================================================
