----------------------------- MODULE StreamsProofs -----------------------------
(***************************************************************************)
(* Subscriptions, for any torrents, subscriptions and sizes of the event   *)
(* bus: state_interest counts those who want updates, a client of          *)
(* torrentEvents keeps no ghost torrent and misses none, and no change is  *)
(* lost between the deltas.                                                *)
(***************************************************************************)
EXTENDS Streams, FiniteSetTheorems, WellFoundedInduction, TLAPS

(***************************************************************************)
(* The inductive invariant.                                                *)
(***************************************************************************)
\* The entries of a sequence, and what is on its way to a stream.
Elems(q) == {q[i] : i \in 1 .. Len(q)}
Way(s) == Elems(rx[s]) \cup Elems(hand)

\* Among these is an update with t.
InUpdate(E, t) == \E e \in E : e.kind = "update" /\ t \in e.ts

\* A uuid is never announced again after its end was.
Ordered(q) ==
    \A t \in Torrents : \A i, j \in 1 .. Len(q) :
        q[i] = Removed(t) /\ q[j] = Added(t) => j < i

\* What the alert queue says of the session.
AlertsInv ==
    /\ Ordered(alerts)
    /\ \A t \in Torrents :
        /\ Removed(t) \in Elems(alerts) => life[t] = "out"
        /\ Added(t) \in Elems(alerts) => life[t] # "new"

\* The announcement of t is queued, and its first update behind that.
Fresh(q, u, t) ==
    \E i \in 1 .. Len(q) :
        /\ q[i] = Added(t)
        /\ t \in u \/ \E j \in 1 .. Len(q) : i < j /\ q[j].kind = "update" /\ t \in q[j].ts

\* It is, of a torrent that is not yet registered.
FreshInv ==
    \A t \in Torrents : life[t] = "in" /\ t \notin registry => Fresh(alerts, updated, t)

\* What the bus says agrees with the registry.
BusInv ==
    /\ \A s \in Subs : ~Receiving(s) => rx[s] = <<>>
    /\ \A s \in Subs : Ordered(rx[s])
    /\ \A t \in Torrents :
        /\ Added(t) \in Elems(hand) => t \in registry \cup unwound
        /\ (\E s \in Subs : Removed(t) \in Elems(rx[s])) \/ Removed(t) \in Elems(hand) =>
             t \notin registry /\ life[t] = "out" /\ Added(t) \notin Elems(alerts)
        /\ \A s \in Subs :
             /\ Added(t) \in Elems(hand) => Removed(t) \notin Elems(rx[s])
             /\ Added(t) \in Elems(rx[s]) /\ t \notin registry \cup unwound =>
                  Removed(t) \in Way(s)

\* What a client believes agrees with the registry and what it will be told.
KnownInv ==
    \A s \in Subs : \A t \in Torrents :
        Following(s) =>
            /\ t \in known[s] /\ t \notin registry \cup unwound => Removed(t) \in Way(s)
            /\ t \in registry \cap Scope(s) /\ life[t] = "in" =>
                 t \in known[s] \/ Added(t) \in Way(s) \cup Elems(alerts)

\* A change that a client has not seen is on its way to it.
ComesTo(s, t) ==
    t \in updated \/ s \in lagged \/ InUpdate(Elems(alerts), t) \/ InUpdate(Way(s), t)

StaleInv ==
    \A s \in Subs, t \in Torrents :
        /\ spc[s] = "open" /\ SentUpdates(s)
        /\ life[t] = "in" /\ t \in registry \cap Scope(s)
        => seen[s][t] = ver[t] \/ ComesTo(s, t)

\* state_interest counts the streams that want updates.
Interested == {s \in Subs : Receiving(s) /\ TakesInterest(s)}
InterestExact == interest = Cardinality(Interested)

StreamsInv ==
    /\ TypeOK /\ InterestExact /\ AlertsInv /\ FreshInv /\ BusInv /\ KnownInv
    /\ StaleInv

(***************************************************************************)
(* Sequences, and the smallest member of a set of numbers.                 *)
(***************************************************************************)
LEMMA SeqFacts ==
    ASSUME NEW S, NEW s \in Seq(S)
    PROVE  /\ Len(s) \in Nat
           /\ \A i \in 1 .. Len(s) : s[i] \in S
           /\ \A e \in S : /\ Append(s, e) \in Seq(S)
                           /\ Len(Append(s, e)) = Len(s) + 1
                           /\ Append(s, e)[Len(s) + 1] = e
                           /\ \A i \in 1 .. Len(s) : Append(s, e)[i] = s[i]
           /\ s # <<>> => /\ Len(s) >= 1 /\ Len(Tail(s)) = Len(s) - 1
                          /\ Tail(s) \in Seq(S) /\ Head(s) \in S /\ Head(s) = s[1]
                          /\ \A i \in 1 .. Len(Tail(s)) : Tail(s)[i] = s[i + 1]
  OBVIOUS

LEMMA ElemsFacts ==
    ASSUME NEW S, NEW s \in Seq(S)
    PROVE  /\ Elems(s) \subseteq S
           /\ \A e \in S : Elems(Append(s, e)) = Elems(s) \cup {e}
           /\ s # <<>> => /\ Head(s) \in Elems(s)
                          /\ Elems(Tail(s)) \subseteq Elems(s)
                          /\ \A e \in Elems(s) : e = Head(s) \/ e \in Elems(Tail(s))
<1>1. Elems(s) \subseteq S
  BY SeqFacts DEF Elems
<1>2. ASSUME NEW e \in S PROVE Elems(Append(s, e)) = Elems(s) \cup {e}
  <2> DEFINE x == Append(s, e)
  <2>1. /\ Len(s) \in Nat /\ Len(x) = Len(s) + 1 /\ x[Len(s) + 1] = e
        /\ \A i \in 1 .. Len(s) : x[i] = s[i]
    BY SeqFacts
  <2>2. \A i \in 1 .. Len(x) : i \in 1 .. Len(s) \/ i = Len(s) + 1
    BY <2>1
  <2>3. Len(s) + 1 \in 1 .. Len(x) /\ \A i \in 1 .. Len(s) : i \in 1 .. Len(x)
    BY <2>1
  <2> HIDE DEF x
  <2> QED
    BY <2>1, <2>2, <2>3 DEF Elems, x
<1>3. ASSUME s # <<>>
      PROVE  /\ Head(s) \in Elems(s)
             /\ Elems(Tail(s)) \subseteq Elems(s)
             /\ \A e \in Elems(s) : e = Head(s) \/ e \in Elems(Tail(s))
  <2> DEFINE x == Tail(s)
  <2>1. /\ Len(s) \in Nat /\ Len(s) >= 1 /\ Len(x) = Len(s) - 1 /\ Head(s) = s[1]
        /\ \A i \in 1 .. Len(x) : x[i] = s[i + 1]
    BY <1>3, SeqFacts
  <2>2. 1 \in 1 .. Len(s) /\ \A i \in 1 .. Len(x) : i + 1 \in 1 .. Len(s)
    BY <2>1
  <2>3. \A i \in 1 .. Len(s) : i = 1 \/ (i - 1 \in 1 .. Len(x) /\ x[i - 1] = s[i])
    BY <2>1
  <2>4. Head(s) \in Elems(s)
    BY <2>1, <2>2 DEF Elems
  <2>5. Elems(x) \subseteq Elems(s)
    BY <2>1, <2>2 DEF Elems
  <2>6. ASSUME NEW i \in 1 .. Len(s) PROVE s[i] = Head(s) \/ s[i] \in Elems(x)
    BY <2>1, <2>3 DEF Elems
  <2>7. \A e \in Elems(s) : \E i \in 1 .. Len(s) : e = s[i]
    BY DEF Elems
  <2> QED
    BY <2>4, <2>5, <2>6, <2>7
<1> QED
  BY <1>1, <1>2, <1>3

LEMMA ElemsEmpty == Elems(<<>>) = {}
  BY DEF Elems

\* The subsets of S below its members are well-founded.
LEMMA MinExists ==
    ASSUME NEW S \in SUBSET Nat, S # {}
    PROVE  \E m \in S : \A n \in S : m <= n
<1> DEFINE Below(i) == S \cap 0 .. i
           T == {Below(i) : i \in S}
           R == StrictSubsetOrdering(Nat)
<1>1. T \subseteq FiniteSubsetsOf(Nat) /\ T # {}
  <2>1. \A i \in S : Below(i) \subseteq Nat /\ IsFiniteSet(Below(i))
    <3> TAKE i \in S
    <3>1. IsFiniteSet(0 .. i)
      BY FS_Interval
    <3>2. Below(i) \subseteq 0 .. i /\ Below(i) \subseteq Nat
      OBVIOUS
    <3> QED
      BY <3>1, <3>2, FS_Subset
  <2> QED
    BY <2>1 DEF FiniteSubsetsOf
<1> HIDE DEF T, R
<1>2. PICK x \in T : \A y \in T : ~(<<y, x>> \in R)
  BY <1>1, FS_StrictSubsetOrderingWellFounded, WFMin DEF R
<1>3. PICK m \in S : x = Below(m)
  BY DEF T
<1>4. ASSUME NEW n \in S, n < m PROVE FALSE
  <2>1. Below(n) \subseteq Below(m)
    BY <1>4
  <2>2. m \in Below(m) /\ m \notin Below(n)
    BY <1>4
  <2>3. Below(n) \in T
    BY DEF T
  <2>4. <<Below(n), Below(m)>> \in R
    BY <2>1, <2>2 DEF R, StrictSubsetOrdering
  <2> QED
    BY <1>2, <1>3, <2>3, <2>4
<1>5. \A n \in S : ~(n < m)
  BY <1>4
<1> QED
  BY <1>3, <1>5

\* The largest one of those up to a bound.
LEMMA MaxExists ==
    ASSUME NEW n \in Nat, NEW S \in SUBSET (1 .. n), S # {}
    PROVE  \E m \in S : \A i \in S : i <= m
<1> DEFINE D == {n - i : i \in S}
<1>0. \A i \in S : n - i \in Nat
  OBVIOUS
<1>1. D \in SUBSET Nat /\ D # {}
  BY <1>0
<1>2. PICK d \in D : \A e \in D : d <= e
  BY <1>1, MinExists
<1>3. PICK m \in S : d = n - m
  OBVIOUS
<1>4. \A i \in S : n - i \in D
  OBVIOUS
<1>5. \A i \in S : i <= m
  BY <1>2, <1>3, <1>4
<1> QED
  BY <1>5

\* A published event is appended.
LEMMA OneMore ==
    ASSUME NEW S, NEW q \in Seq(S), NEW h \in Seq(S), h # <<>>, Len(h) <= 1
    PROVE  h[1] \in S /\ h = <<h[1]>> /\ q \o h = Append(q, h[1]) /\ Elems(h) = {h[1]}
<1>0. Len(h) = 1
  <2> DEFINE n == Len(h)
  <2>1. n \in Nat /\ n >= 1 /\ n <= 1
    BY SeqFacts
  <2> HIDE DEF n
  <2>2. n = 1
    BY <2>1
  <2> QED
    BY <2>2 DEF n
<1>1. Len(h) = 1 /\ h[1] \in S
  <2>1. \A i \in 1 .. Len(h) : h[i] \in S
    BY SeqFacts
  <2> QED
    BY <1>0, <2>1
<1>2. h = <<h[1]>>
  BY <1>1
<1>3. q \o <<h[1]>> = Append(q, h[1])
  BY <1>1
<1>4. Elems(h) = {h[1]}
  BY <1>1 DEF Elems
<1> QED
  BY <1>1, <1>2, <1>3, <1>4

(***************************************************************************)
(* Events.                                                                 *)
(***************************************************************************)
LEMMA EventFacts ==
    /\ \A t \in Torrents \cup {NoTorrent} : Added(t) \in Event /\ Removed(t) \in Event
    /\ Other \in Event
    /\ \A ts \in SUBSET Torrents : Update(ts) \in Event
    /\ \A t, u : Added(t) # Removed(u)
    /\ \A t, u : Added(t) = Added(u) => t = u
    /\ \A t, u : Removed(t) = Removed(u) => t = u
    /\ \A t : /\ Added(t).kind = "added" /\ Added(t).t = t
             /\ Removed(t).kind = "removed" /\ Removed(t).t = t
    /\ \A ts : Update(ts).kind = "update" /\ Update(ts).ts = ts
    /\ Other.kind = "other"
    /\ \A e \in Event : e.kind = "update" => e.ts \in SUBSET Torrents
  BY DEF Event, Added, Removed, Other, Update

\* The order of announcements survives reading and what is appended to it.
LEMMA OrderedFacts ==
    ASSUME NEW q \in Seq(Event), Ordered(q)
    PROVE  /\ q # <<>> => /\ Ordered(Tail(q))
                          /\ \A t \in Torrents :
                               Head(q) = Removed(t) => Added(t) \notin Elems(q)
           /\ \A e \in Event :
                (\A t \in Torrents : e = Added(t) => Removed(t) \notin Elems(q))
                  => Ordered(Append(q, e))
<1>1. ASSUME q # <<>>
      PROVE  Ordered(Tail(q)) /\ \A t \in Torrents :
               Head(q) = Removed(t) => Added(t) \notin Elems(q)
  <2> DEFINE x == Tail(q)
  <2>1. /\ Len(q) \in Nat /\ Len(q) >= 1 /\ Len(x) = Len(q) - 1 /\ Head(q) = q[1]
        /\ \A i \in 1 .. Len(x) : x[i] = q[i + 1]
    BY <1>1, SeqFacts
  <2>2. 1 \in 1 .. Len(q) /\ \A i \in 1 .. Len(x) : i + 1 \in 1 .. Len(q)
    BY <2>1
  <2> HIDE DEF x
  <2>3. ASSUME NEW t \in Torrents, NEW i \in 1 .. Len(x), NEW j \in 1 .. Len(x),
               x[i] = Removed(t), x[j] = Added(t)
        PROVE  j < i
    <3>1. q[i + 1] = Removed(t) /\ q[j + 1] = Added(t)
      BY <2>1, <2>3
    <3>2. j + 1 < i + 1
      BY <2>2, <3>1 DEF Ordered
    <3> QED
      BY <3>2
  <2>4. ASSUME NEW t \in Torrents, Head(q) = Removed(t), NEW j \in 1 .. Len(q),
               q[j] = Added(t)
        PROVE  FALSE
    <3>1. j < 1
      BY <2>1, <2>2, <2>4 DEF Ordered
    <3> QED
      BY <3>1
  <2>5. Ordered(x)
    BY <2>3 DEF Ordered
  <2> QED
    BY <2>4, <2>5 DEF Elems, x
<1>2. ASSUME NEW e \in Event, \A t \in Torrents : e = Added(t) => Removed(t) \notin Elems(q)
      PROVE  Ordered(Append(q, e))
  <2> DEFINE x == Append(q, e)
  <2>1. /\ Len(q) \in Nat /\ Len(x) = Len(q) + 1 /\ x[Len(q) + 1] = e
        /\ \A i \in 1 .. Len(q) : x[i] = q[i]
    BY SeqFacts
  <2>2. \A i \in 1 .. Len(x) : i \in 1 .. Len(q) \/ i = Len(q) + 1
    BY <2>1
  <2> HIDE DEF x
  <2>3. ASSUME NEW t \in Torrents, NEW i \in 1 .. Len(x), NEW j \in 1 .. Len(x),
               x[i] = Removed(t), x[j] = Added(t)
        PROVE  j < i
    <3>1. CASE i \in 1 .. Len(q) /\ j \in 1 .. Len(q)
      BY <2>1, <2>3, <3>1 DEF Ordered
    <3>2. CASE i \in 1 .. Len(q) /\ j = Len(q) + 1
      <4>1. e = Added(t) /\ Removed(t) \in Elems(q)
        BY <2>1, <2>3, <3>2 DEF Elems
      <4> QED
        BY <1>2, <4>1
    <3>3. CASE i = Len(q) + 1 /\ j \in 1 .. Len(q)
      BY <2>1, <3>3
    <3>4. CASE i = Len(q) + 1 /\ j = Len(q) + 1
      BY <2>3, <3>4, EventFacts
    <3> QED
      BY <2>2, <3>1, <3>2, <3>3, <3>4
  <2> QED
    BY <2>3 DEF Ordered, x
<1> QED
  BY <1>1, <1>2

LEMMA OrderedEmpty == Ordered(<<>>)
  BY DEF Ordered

\* The announcement and the first update of a torrent, as the queue moves.
LEMMA FreshFacts ==
    ASSUME NEW q \in Seq(Event), NEW u \in SUBSET Torrents, NEW t \in Torrents
    PROVE  /\ \A e \in Event : Fresh(q, u, t) => Fresh(Append(q, e), u, t)
           /\ Fresh(q, u, t) => Fresh(Append(q, Update(u)), {}, t)
           /\ t \in u => Fresh(Append(q, Added(t)), u, t)
           /\ Fresh(q, u, t) => /\ q # <<>>
                                /\ Added(t) \in Elems(q)
                                /\ t \in u \/ InUpdate(Elems(Tail(q)), t)
           /\ Fresh(q, u, t) /\ Head(q) # Added(t) => Fresh(Tail(q), u, t)
<1>0. Len(q) \in Nat
  BY SeqFacts
<1>1. ASSUME NEW e \in Event
      PROVE  /\ Fresh(q, u, t) => Fresh(Append(q, e), u, t)
             /\ Fresh(q, u, t) /\ e = Update(u) => Fresh(Append(q, e), {}, t)
             /\ t \in u /\ e = Added(t) => Fresh(Append(q, e), u, t)
  <2> DEFINE x == Append(q, e)
  <2>1. /\ Len(x) = Len(q) + 1 /\ x[Len(q) + 1] = e
        /\ \A i \in 1 .. Len(q) : x[i] = q[i]
    BY SeqFacts
  <2>2. /\ \A i \in 1 .. Len(q) : i \in 1 .. Len(x) /\ i < Len(q) + 1
        /\ Len(q) + 1 \in 1 .. Len(x)
    BY <1>0, <2>1
  <2> HIDE DEF x
  <2>3. Fresh(q, u, t) => Fresh(x, u, t)
    BY <2>1, <2>2 DEF Fresh
  <2>4. ASSUME Fresh(q, u, t), e = Update(u) PROVE Fresh(x, {}, t)
    <3>1. PICK i \in 1 .. Len(q) :
            /\ q[i] = Added(t)
            /\ t \in u \/ \E j \in 1 .. Len(q) : i < j /\ q[j].kind = "update" /\ t \in q[j].ts
      BY <2>4 DEF Fresh
    <3>2. x[i] = Added(t) /\ i \in 1 .. Len(x)
      BY <2>1, <2>2, <3>1
    <3>3. CASE t \in u
      <4>1. x[Len(q) + 1].kind = "update" /\ t \in x[Len(q) + 1].ts
        BY <2>1, <2>4, <3>3, EventFacts
      <4> QED
        BY <2>2, <3>2, <4>1 DEF Fresh
    <3>4. CASE \E j \in 1 .. Len(q) : i < j /\ q[j].kind = "update" /\ t \in q[j].ts
      BY <2>1, <2>2, <3>2, <3>4 DEF Fresh
    <3> QED
      BY <3>1, <3>3, <3>4
  <2>5. t \in u /\ e = Added(t) => Fresh(x, u, t)
    BY <2>1, <2>2 DEF Fresh
  <2> QED
    BY <2>3, <2>4, <2>5 DEF x
<1>2. ASSUME Fresh(q, u, t)
      PROVE  /\ q # <<>> /\ Added(t) \in Elems(q)
             /\ t \in u \/ InUpdate(Elems(Tail(q)), t)
             /\ Head(q) # Added(t) => Fresh(Tail(q), u, t)
  <2> DEFINE x == Tail(q)
  <2>1. PICK i \in 1 .. Len(q) :
          /\ q[i] = Added(t)
          /\ t \in u \/ \E j \in 1 .. Len(q) : i < j /\ q[j].kind = "update" /\ t \in q[j].ts
    BY <1>2 DEF Fresh
  <2>2. q # <<>> /\ Added(t) \in Elems(q)
    BY <1>0, <2>1 DEF Elems
  <2>3. /\ Len(q) >= 1 /\ Len(x) = Len(q) - 1 /\ Head(q) = q[1]
        /\ \A k \in 1 .. Len(x) : x[k] = q[k + 1]
    BY <2>2, SeqFacts
  <2>4. \A k \in 1 .. Len(q) : k > 1 => k - 1 \in 1 .. Len(x) /\ x[k - 1] = q[k]
    BY <1>0, <2>3
  <2> HIDE DEF x
  <2>5. CASE t \in u
    <3>1. ASSUME Head(q) # Added(t) PROVE Fresh(x, u, t)
      <4>1. i > 1
        BY <2>1, <2>3, <3>1
      <4> QED
        BY <2>1, <2>4, <2>5, <4>1 DEF Fresh
    <3> QED
      BY <2>2, <2>5, <3>1 DEF x
  <2>6. CASE \E j \in 1 .. Len(q) : i < j /\ q[j].kind = "update" /\ t \in q[j].ts
    <3>1. PICK j \in 1 .. Len(q) : i < j /\ q[j].kind = "update" /\ t \in q[j].ts
      BY <2>6
    <3>2. j > 1 /\ j - 1 \in 1 .. Len(x) /\ x[j - 1] = q[j]
      BY <2>4, <3>1
    <3>3. InUpdate(Elems(x), t)
      BY <3>1, <3>2 DEF InUpdate, Elems
    <3>4. ASSUME Head(q) # Added(t) PROVE Fresh(x, u, t)
      <4>1. i > 1
        BY <2>1, <2>3, <3>4
      <4>2. i - 1 \in 1 .. Len(x) /\ x[i - 1] = Added(t) /\ i - 1 < j - 1
        BY <2>1, <2>4, <3>1, <4>1
      <4> QED
        BY <3>1, <3>2, <4>2 DEF Fresh
    <3> QED
      BY <2>2, <3>3, <3>4 DEF x
  <2> QED
    BY <2>1, <2>5, <2>6
<1>3. Added(t) \in Event /\ Update(u) \in Event
  BY EventFacts
<1> QED
  BY <1>1, <1>2, <1>3

(***************************************************************************)
(* The calls that change the session: the streams and the event in the     *)
(* hand of the pump stay.                                                  *)
(***************************************************************************)
\* What such a step does, of a torrent.
Session(t) ==
    /\ life[t] = "out" => life'[t] = "out"
    /\ life[t] # "in" /\ life'[t] = "in" =>
         life[t] = "new" /\ t \in updated' /\ Added(t) \in Elems(alerts')
    /\ life[t] = "in" => ver'[t] = ver[t] \/ t \in updated'
    /\ life[t] = "in" /\ life'[t] = "in" /\ t \in updated =>
         t \in updated' \/ InUpdate(Elems(alerts'), t)
    /\ t \in registry \cup unwound => t \in registry' \cup unwound'
    /\ t \in registry' \ registry => life[t] = "in" /\ Added(t) \in Elems(alerts)
    /\ Added(t) \in Elems(alerts') \ Elems(alerts) => life[t] = "new"

SessionSteps ==
    /\ UNCHANGED <<hand, interest, streamVars, clientVars>>
    /\ Elems(alerts) \subseteq Elems(alerts')
    /\ \A t \in Torrents : Session(t)

LEMMA SessionKeeps ==
    ASSUME StreamsInv, SessionSteps, TypeOK', AlertsInv', FreshInv'
    PROVE  StreamsInv'
<1> USE DEF SessionSteps, streamVars, clientVars
<1>1. InterestExact'
  <2>1. Interested' = Interested
    BY DEF Interested, Receiving, TakesInterest
  <2> QED
    BY <2>1 DEF StreamsInv, InterestExact
<1>2. BusInv'
  <2>1. \A s \in Subs : (~Receiving(s) => rx[s] = <<>>)' /\ Ordered(rx[s])'
    BY DEF StreamsInv, BusInv, Receiving, Ordered
  <2>2. ASSUME NEW t \in Torrents,
               (\E s \in Subs : Removed(t) \in Elems(rx[s])) \/ Removed(t) \in Elems(hand)
        PROVE  t \notin registry' /\ life'[t] = "out" /\ Added(t) \notin Elems(alerts')
    <3>1. t \notin registry /\ life[t] = "out" /\ Added(t) \notin Elems(alerts)
      BY <2>2 DEF StreamsInv, BusInv
    <3> QED
      BY <3>1 DEF Session
  <2>3. \A s \in Subs : Way(s)' = Way(s) /\ Elems(rx[s])' = Elems(rx[s])
    BY DEF Way
  <2>4. \A t \in Torrents : t \in registry \cup unwound => t \in registry' \cup unwound'
    BY DEF Session
  <2>5. Elems(hand)' = Elems(hand)
    OBVIOUS
  <2>6. \A t \in Torrents :
          /\ (Added(t) \in Elems(hand) => t \in registry \cup unwound)'
          /\ \A s \in Subs :
               /\ (Added(t) \in Elems(hand) => Removed(t) \notin Elems(rx[s]))'
               /\ (Added(t) \in Elems(rx[s]) /\ t \notin registry \cup unwound =>
                     Removed(t) \in Way(s))'
    BY <2>3, <2>4, <2>5 DEF StreamsInv, BusInv
  <2>7. \A t \in Torrents :
          ((\E s \in Subs : Removed(t) \in Elems(rx[s])) \/ Removed(t) \in Elems(hand) =>
             t \notin registry /\ life[t] = "out" /\ Added(t) \notin Elems(alerts))'
    BY <2>2
  <2> QED
    BY <2>1, <2>6, <2>7 DEF BusInv
<1>3. KnownInv'
  <2> SUFFICES ASSUME NEW s \in Subs, NEW t \in Torrents, Following(s)'
               PROVE  /\ (t \in known[s] /\ t \notin registry \cup unwound =>
                            Removed(t) \in Way(s))'
                      /\ (t \in registry \cap Scope(s) /\ life[t] = "in" =>
                            t \in known[s] \/ Added(t) \in Way(s) \cup Elems(alerts))'
    BY DEF KnownInv
  <2>1. Following(s) /\ Way(s)' = Way(s) /\ Scope(s)' = Scope(s) /\ known'[s] = known[s]
    BY DEF Following, Way, Scope
  <2>2. /\ t \in known[s] /\ t \notin registry \cup unwound => Removed(t) \in Way(s)
        /\ t \in registry \cap Scope(s) /\ life[t] = "in" =>
             t \in known[s] \/ Added(t) \in Way(s) \cup Elems(alerts)
    BY <2>1 DEF StreamsInv, KnownInv
  <2>3. Session(t)
    OBVIOUS
  <2> QED
    BY <2>1, <2>2, <2>3 DEF Session
<1>4. StaleInv'
  <2> SUFFICES ASSUME NEW s \in Subs, NEW t \in Torrents,
                      spc'[s] = "open", SentUpdates(s)', life'[t] = "in",
                      t \in registry', t \in Scope(s)'
               PROVE  seen'[s][t] = ver'[t] \/ ComesTo(s, t)'
    BY DEF StaleInv
  <2>1. /\ spc[s] = "open" /\ SentUpdates(s) /\ t \in Scope(s) /\ seen'[s][t] = seen[s][t]
        /\ Way(s)' = Way(s) /\ lagged' = lagged
    BY DEF SentUpdates, Scope, Way
  <2>2. Session(t)
    OBVIOUS
  <2>3. InUpdate(Elems(alerts), t) => InUpdate(Elems(alerts'), t)
    BY DEF InUpdate
  <2>4. ComesTo(s, t) /\ life[t] = "in" => ComesTo(s, t)'
    BY <2>1, <2>2, <2>3 DEF ComesTo, Session
  <2>5. CASE life[t] # "in"
    BY <2>2, <2>5 DEF Session, ComesTo
  <2>6. CASE life[t] = "in" /\ t \in registry
    <3>1. seen[s][t] = ver[t] \/ ComesTo(s, t)
      BY <2>1, <2>6 DEF StreamsInv, StaleInv
    <3> QED
      BY <2>1, <2>2, <2>4, <2>6, <3>1 DEF Session, ComesTo
  <2>7. CASE life[t] = "in" /\ t \notin registry
    <3>1. Fresh(alerts, updated, t) /\ alerts \in Seq(Event) /\ updated \in SUBSET Torrents
      BY <2>7 DEF StreamsInv, FreshInv, TypeOK
    <3>2. t \in updated \/ (alerts # <<>> /\ InUpdate(Elems(Tail(alerts)), t))
      BY <3>1, FreshFacts
    <3>3. alerts # <<>> => Elems(Tail(alerts)) \subseteq Elems(alerts)
      BY <3>1, ElemsFacts
    <3>4. ComesTo(s, t)
      BY <3>2, <3>3 DEF ComesTo, InUpdate
    <3> QED
      BY <2>4, <2>7, <3>4
  <2> QED
    BY <2>5, <2>6, <2>7
<1> QED
  BY <1>1, <1>2, <1>3, <1>4 DEF StreamsInv

\* What is read of the queue, and what is appended to it.
LEMMA QueueFacts ==
    ASSUME TypeOK, AlertsInv
    PROVE  /\ alerts \in Seq(Event) /\ updated \in SUBSET Torrents
           /\ \A e \in Event : /\ Append(alerts, e) \in Seq(Event)
                              /\ Elems(Append(alerts, e)) = Elems(alerts) \cup {e}
           /\ \A e \in Event :
                (\A t \in Torrents : e = Added(t) => life[t] # "out") =>
                  Ordered(Append(alerts, e))
<1>1. alerts \in Seq(Event) /\ updated \in SUBSET Torrents /\ Ordered(alerts)
  BY DEF TypeOK, AlertsInv
<1>2. ASSUME NEW e \in Event, \A t \in Torrents : e = Added(t) => life[t] # "out"
      PROVE  Ordered(Append(alerts, e))
  <2>1. \A t \in Torrents : e = Added(t) => Removed(t) \notin Elems(alerts)
    BY <1>2 DEF AlertsInv
  <2> QED
    BY <1>1, <2>1, OrderedFacts
<1>3. \A e \in Event : /\ Append(alerts, e) \in Seq(Event)
                      /\ Elems(Append(alerts, e)) = Elems(alerts) \cup {e}
  BY <1>1, SeqFacts, ElemsFacts
<1> QED
  BY <1>1, <1>2, <1>3

LEMMA AddTorrentKeeps ==
    ASSUME StreamsInv, NEW t \in Torrents, AddTorrent(t)
    PROVE  StreamsInv'
<1> USE DEF AddTorrent, engineVars
<1>0. TypeOK /\ AlertsInv /\ FreshInv
  BY DEF StreamsInv
<1>1. /\ Added(t) \in Event /\ alerts' \in Seq(Event) /\ alerts \in Seq(Event)
      /\ Elems(alerts') = Elems(alerts) \cup {Added(t)}
      /\ Ordered(alerts')
  <2>1. Added(t) \in Event /\ \A u \in Torrents : Added(t) = Added(u) => u = t
    BY EventFacts
  <2> QED
    BY <1>0, <2>1, QueueFacts
<1>2. /\ life' \in [Torrents -> {"new", "in", "out"}] /\ life'[t] = "in"
      /\ \A u \in Torrents : u # t => life'[u] = life[u]
  BY <1>0 DEF TypeOK
<1>3. TypeOK'
  BY <1>0, <1>1, <1>2 DEF TypeOK, streamVars, clientVars
<1>4. AlertsInv'
  BY <1>0, <1>1, <1>2, EventFacts DEF AlertsInv
<1>5. FreshInv'
  <2> SUFFICES ASSUME NEW u \in Torrents, life'[u] = "in", u \notin registry'
               PROVE  Fresh(alerts', updated', u)
    BY DEF FreshInv
  <2>1. /\ updated \in SUBSET Torrents /\ updated' \in SUBSET Torrents
        /\ updated \subseteq updated'
    BY <1>0 DEF TypeOK
  <2>2. CASE u = t
    BY <1>1, <2>1, <2>2, FreshFacts
  <2>3. CASE u # t
    <3>1. Fresh(alerts, updated, u)
      BY <1>0, <1>2, <2>3 DEF FreshInv
    <3>2. Fresh(alerts, updated', u)
      BY <2>1, <3>1 DEF Fresh
    <3> QED
      BY <1>1, <2>1, <3>2, FreshFacts
  <2> QED
    BY <2>2, <2>3
<1>6. SessionSteps
  <2>1. \A u \in Torrents : Session(u)
    BY <1>0, <1>1, <1>2, EventFacts DEF Session
  <2> QED
    BY <1>1, <2>1 DEF SessionSteps
<1> QED
  BY <1>3, <1>4, <1>5, <1>6, SessionKeeps

LEMMA RegisterKeeps ==
    ASSUME StreamsInv, NEW t \in Torrents, Register(t)
    PROVE  StreamsInv'
<1> USE DEF Register, ltVars
<1>0. TypeOK /\ AlertsInv /\ FreshInv
  BY DEF StreamsInv
<1>1. Added(t) \in Elems(alerts)
  BY <1>0, SeqFacts DEF TypeOK, Elems
<1>2. TypeOK'
  BY <1>0 DEF TypeOK, streamVars, clientVars
<1>3. AlertsInv' /\ FreshInv'
  BY <1>0 DEF AlertsInv, FreshInv, Ordered, Fresh
<1>4. SessionSteps
  BY <1>1 DEF SessionSteps, Session
<1> QED
  BY <1>2, <1>3, <1>4, SessionKeeps

\* A torrent leaves the session, registered or not any more.
LEMMA LeaveKeeps ==
    ASSUME StreamsInv, NEW t \in Torrents, life[t] = "in", Leave(t), t \in registry,
           UNCHANGED <<ver, noise, hand, interest, streamVars, clientVars>>,
           \/ UNCHANGED <<registry, unwound>>
           \/ registry' = registry \ {t} /\ unwound' = unwound \cup {t}
    PROVE  StreamsInv'
<1> USE DEF Leave
<1>0. TypeOK /\ AlertsInv /\ FreshInv
  BY DEF StreamsInv
<1>1. /\ Removed(t) \in Event /\ alerts' \in Seq(Event) /\ alerts \in Seq(Event)
      /\ Elems(alerts') = Elems(alerts) \cup {Removed(t)}
      /\ Ordered(alerts')
  <2>1. Removed(t) \in Event /\ \A u \in Torrents : Removed(t) # Added(u)
    BY EventFacts
  <2> QED
    BY <1>0, <2>1, QueueFacts
<1>2. /\ life' \in [Torrents -> {"new", "in", "out"}] /\ life'[t] = "out"
      /\ \A u \in Torrents : u # t => life'[u] = life[u]
  BY <1>0 DEF TypeOK
<1>3. TypeOK'
  BY <1>0, <1>1, <1>2 DEF TypeOK, streamVars, clientVars
<1>4. AlertsInv'
  BY <1>0, <1>1, <1>2, EventFacts DEF AlertsInv
<1>5. FreshInv'
  <2> SUFFICES ASSUME NEW u \in Torrents, life'[u] = "in", u \notin registry'
               PROVE  Fresh(alerts', updated', u)
    BY DEF FreshInv
  <2>1. updated \in SUBSET Torrents /\ updated' \in SUBSET Torrents
    BY <1>0 DEF TypeOK
  <2>2. u # t /\ u \notin registry
    BY <1>2
  <2>3. Fresh(alerts, updated, u)
    BY <1>0, <1>2, <2>2 DEF FreshInv
  <2>4. Fresh(alerts, updated', u)
    BY <2>2, <2>3 DEF Fresh
  <2> QED
    BY <1>1, <2>1, <2>4, FreshFacts
<1>6. SessionSteps
  <2>1. \A u \in Torrents : Session(u)
    BY <1>0, <1>1, <1>2, EventFacts DEF Session
  <2> QED
    BY <1>1, <2>1 DEF SessionSteps
<1> QED
  BY <1>3, <1>4, <1>5, <1>6, SessionKeeps

LEMMA StatusChangesKeeps ==
    ASSUME StreamsInv, NEW t \in Torrents, StatusChanges(t)
    PROVE  StreamsInv'
<1> USE DEF StatusChanges, engineVars
<1>0. TypeOK /\ AlertsInv /\ FreshInv
  BY DEF StreamsInv
<1>1. /\ ver' \in [Torrents -> 0 .. MaxVer]
      /\ \A u \in Torrents : u # t => ver'[u] = ver[u]
  BY <1>0, CapAssumption DEF TypeOK
<1>2. TypeOK'
  BY <1>0, <1>1 DEF TypeOK, streamVars, clientVars
<1>3. AlertsInv' /\ FreshInv'
  BY <1>0 DEF AlertsInv, FreshInv, Ordered, Fresh
<1>4. SessionSteps
  BY <1>0, <1>1 DEF SessionSteps, Session
<1> QED
  BY <1>2, <1>3, <1>4, SessionKeeps

LEMMA OtherAlertKeeps ==
    ASSUME StreamsInv, OtherAlert
    PROVE  StreamsInv'
<1> USE DEF OtherAlert, engineVars
<1>0. TypeOK /\ AlertsInv /\ FreshInv
  BY DEF StreamsInv
<1>1. /\ Other \in Event /\ alerts' \in Seq(Event) /\ alerts \in Seq(Event)
      /\ Elems(alerts') = Elems(alerts) \cup {Other} /\ Ordered(alerts')
      /\ \A u \in Torrents : Other # Added(u) /\ Other # Removed(u)
  <2>1. Other \in Event /\ \A u \in Torrents : Other # Added(u) /\ Other # Removed(u)
    <3>1. Other \in Event /\ Other.kind = "other"
      BY EventFacts
    <3>2. \A u \in Torrents : Added(u).kind = "added" /\ Removed(u).kind = "removed"
      BY EventFacts
    <3> QED
      BY <3>1, <3>2
  <2> QED
    BY <1>0, <2>1, QueueFacts
<1>2. TypeOK'
  BY <1>0, <1>1, CapAssumption DEF TypeOK, streamVars, clientVars
<1>3. AlertsInv'
  BY <1>0, <1>1 DEF AlertsInv
<1>4. FreshInv'
  BY <1>0, <1>1, FreshFacts DEF FreshInv, TypeOK
<1>5. SessionSteps
  BY <1>1 DEF SessionSteps, Session
<1> QED
  BY <1>2, <1>3, <1>4, <1>5, SessionKeeps

LEMMA PostUpdatesKeeps ==
    ASSUME StreamsInv, PostUpdates
    PROVE  StreamsInv'
<1> USE DEF PostUpdates, engineVars
<1>0. TypeOK /\ AlertsInv /\ FreshInv
  BY DEF StreamsInv
<1>1. /\ alerts' \in Seq(Event) /\ alerts \in Seq(Event)
      /\ Elems(alerts') = Elems(alerts) \cup {Update(updated)} /\ Ordered(alerts')
      /\ \A u \in Torrents : Update(updated) # Added(u) /\ Update(updated) # Removed(u)
      /\ Update(updated).kind = "update" /\ Update(updated).ts = updated
  <2>1. /\ Update(updated) \in Event /\ Update(updated).kind = "update"
        /\ Update(updated).ts = updated
    BY <1>0, EventFacts DEF TypeOK
  <2>2. \A u \in Torrents : Added(u).kind = "added" /\ Removed(u).kind = "removed"
    BY EventFacts
  <2>3. \A u \in Torrents : Update(updated) # Added(u) /\ Update(updated) # Removed(u)
    BY <2>1, <2>2
  <2> QED
    BY <1>0, <2>1, <2>3, QueueFacts
<1>2. TypeOK'
  BY <1>0, <1>1 DEF TypeOK, streamVars, clientVars
<1>3. AlertsInv'
  BY <1>0, <1>1 DEF AlertsInv
<1>4. FreshInv'
  BY <1>0, <1>1, FreshFacts DEF FreshInv, TypeOK
<1>5. SessionSteps
  <2>1. \A u \in Torrents : u \in updated => InUpdate(Elems(alerts'), u)
    BY <1>1 DEF InUpdate
  <2> QED
    BY <1>1, <2>1 DEF SessionSteps, Session
<1> QED
  BY <1>2, <1>3, <1>4, <1>5, SessionKeeps

(***************************************************************************)
(* The pump.                                                               *)
(***************************************************************************)
\* The head of the queue leaves it.
LEMMA HeadFacts ==
    ASSUME TypeOK, AlertsInv, alerts # <<>>
    PROVE  /\ alerts \in Seq(Event) /\ Tail(alerts) \in Seq(Event) /\ Head(alerts) \in Event
           /\ Head(alerts) \in Elems(alerts)
           /\ Elems(Tail(alerts)) \subseteq Elems(alerts)
           /\ \A e \in Elems(alerts) : e = Head(alerts) \/ e \in Elems(Tail(alerts))
           /\ Ordered(Tail(alerts))
           /\ \A t \in Torrents : Head(alerts) = Removed(t) => Added(t) \notin Elems(alerts)
<1>1. alerts \in Seq(Event) /\ Ordered(alerts)
  BY DEF TypeOK, AlertsInv
<1>2. Tail(alerts) \in Seq(Event) /\ Head(alerts) \in Event
  BY <1>1, SeqFacts
<1>3. /\ Head(alerts) \in Elems(alerts) /\ Elems(Tail(alerts)) \subseteq Elems(alerts)
      /\ \A e \in Elems(alerts) : e = Head(alerts) \/ e \in Elems(Tail(alerts))
  BY <1>1, ElemsFacts
<1>4. /\ Ordered(Tail(alerts))
      /\ \A t \in Torrents : Head(alerts) = Removed(t) => Added(t) \notin Elems(alerts)
  BY <1>1, OrderedFacts
<1> QED
  BY <1>1, <1>2, <1>3, <1>4

\* What taking the head does, of a torrent.
Pumped(t) ==
    /\ t \in registry' \ registry => Head(alerts) = Added(t)
    /\ t \in registry \ registry' => Head(alerts) = Removed(t) /\ Removed(t) \in Elems(hand')
    /\ Head(alerts) = Added(t) =>
         \/ t \in registry' /\ Elems(hand') = {Added(t)}
         \/ life[t] = "out" /\ UNCHANGED <<registry, hand>>
    /\ Added(t) \in Elems(hand') => Head(alerts) = Added(t) /\ t \in registry'
    /\ Removed(t) \in Elems(hand') => Head(alerts) = Removed(t) /\ t \in registry \ registry'
    /\ Head(alerts).kind = "update" => Head(alerts) \in Elems(hand')

PumpSteps ==
    /\ hand = <<>> /\ alerts # <<>> /\ alerts' = Tail(alerts)
    /\ hand' \in Seq(Event) /\ Len(hand') <= 1 /\ registry' \subseteq Torrents
    /\ \A t \in Torrents : Pumped(t)
    /\ UNCHANGED <<life, ver, updated, noise, interest, streamVars, clientVars, unwound>>

LEMMA SingleFacts ==
    \A e \in Event : /\ <<e>> \in Seq(Event) /\ Len(<<e>>) <= 1 /\ Elems(<<e>>) = {e}
<1> TAKE e \in Event
<1>1. <<e>> \in Seq(Event) /\ Len(<<e>>) = 1 /\ <<e>>[1] = e
  OBVIOUS
<1> QED
  BY <1>1 DEF Elems

LEMMA HandleIsPump ==
    ASSUME StreamsInv, handle_alert
    PROVE  PumpSteps
<1> USE DEF handle_alert
<1>0. TypeOK /\ AlertsInv /\ Head(alerts) \in Event
  BY HeadFacts DEF StreamsInv
<1>1. /\ \A t \in Torrents \cup {NoTorrent} : Added(t) \in Event /\ Removed(t) \in Event
      /\ \A t, u : Added(t) # Removed(u)
      /\ \A t, u : Added(t) = Added(u) => t = u
      /\ \A t, u : Removed(t) = Removed(u) => t = u
      /\ \A t : Added(t).kind = "added" /\ Removed(t).kind = "removed"
  BY EventFacts
<1>2. hand = <<>> /\ Elems(hand) = {} /\ hand \in Seq(Event) /\ Len(hand) <= 1
  BY <1>0, ElemsEmpty DEF TypeOK
<1>3. registry \subseteq Torrents
  BY <1>0 DEF TypeOK
<1>4. CASE PumpOther
  <2>1. /\ hand' \in Seq(Event) /\ Len(hand') <= 1 /\ Elems(hand') = {Head(alerts)}
        /\ registry' = registry
    BY <1>0, <1>4, SingleFacts DEF PumpOther
  <2>2. \A t \in Torrents : Head(alerts) # Added(t) /\ Head(alerts) # Removed(t)
    BY <1>1, <1>4 DEF PumpOther
  <2>3. \A t \in Torrents : Pumped(t)
    BY <2>1, <2>2 DEF Pumped
  <2> QED
    BY <1>3, <2>1, <2>3 DEF PumpSteps
<1>5. ASSUME NEW t \in Torrents, PumpAdded(t)
      PROVE  PumpSteps
  <2>1. /\ Head(alerts) = Added(t) /\ Head(alerts).kind = "added"
        /\ \A u \in Torrents : u # t => Head(alerts) # Added(u)
        /\ \A u \in Torrents : Head(alerts) # Removed(u)
    BY <1>1, <1>5 DEF PumpAdded
  <2>2. CASE registry' = registry \cup {t} /\ hand' = <<Added(t)>>
    <3>1. hand' \in Seq(Event) /\ Len(hand') <= 1 /\ Elems(hand') = {Added(t)}
      BY <1>1, <2>2, SingleFacts
    <3>2. \A u \in Torrents : Pumped(u)
      BY <1>1, <2>1, <2>2, <3>1 DEF Pumped
    <3> QED
      BY <1>3, <2>2, <3>1, <3>2 DEF PumpSteps
  <2>3. CASE life[t] = "out" /\ UNCHANGED <<registry, hand>>
    <3>1. \A u \in Torrents : Pumped(u)
      BY <1>2, <2>1, <2>3 DEF Pumped
    <3> QED
      BY <1>2, <1>3, <2>3, <3>1 DEF PumpSteps
  <2> QED
    BY <1>5, <2>2, <2>3 DEF PumpAdded
<1>6. ASSUME NEW t \in Torrents, PumpRemoved(t)
      PROVE  PumpSteps
  <2> DEFINE x == IF t \in registry THEN t ELSE NoTorrent
  <2>1. /\ Head(alerts) = Removed(t) /\ Head(alerts).kind = "removed"
        /\ \A u \in Torrents : u # t => Head(alerts) # Removed(u)
        /\ \A u \in Torrents : Head(alerts) # Added(u)
    BY <1>1, <1>6 DEF PumpRemoved
  <2>2. /\ hand' \in Seq(Event) /\ Len(hand') <= 1 /\ Elems(hand') = {Removed(x)}
        /\ registry' = registry \ {t}
    BY <1>1, <1>6, SingleFacts DEF PumpRemoved
  <2>3. \A u \in Torrents : Removed(u) \in Elems(hand') => u = x
    BY <1>1, <2>2
  <2>4. \A u \in Torrents : Removed(u) \in Elems(hand') => u = t /\ t \in registry
    BY <2>3, NoTorrentAssumption
  <2>5. \A u \in Torrents : Added(u) \notin Elems(hand')
    BY <1>1, <2>2
  <2>6. t \in registry => Removed(t) \in Elems(hand')
    BY <2>2
  <2> HIDE DEF x
  <2>7. \A u \in Torrents : Pumped(u)
    BY <2>1, <2>2, <2>4, <2>5, <2>6 DEF Pumped
  <2> QED
    BY <1>3, <2>2, <2>7 DEF PumpSteps
<1> QED
  BY <1>4, <1>5, <1>6

LEMMA PumpKeeps ==
    ASSUME StreamsInv, PumpSteps
    PROVE  StreamsInv'
<1> USE DEF PumpSteps, streamVars, clientVars
<1>0. TypeOK /\ AlertsInv /\ FreshInv /\ BusInv /\ KnownInv /\ StaleInv
  BY DEF StreamsInv
<1>1. /\ alerts \in Seq(Event) /\ alerts' \in Seq(Event) /\ Head(alerts) \in Event
      /\ Head(alerts) \in Elems(alerts)
      /\ Elems(alerts') \subseteq Elems(alerts)
      /\ \A e \in Elems(alerts) : e = Head(alerts) \/ e \in Elems(alerts')
      /\ Ordered(alerts')
      /\ \A t \in Torrents : Head(alerts) = Removed(t) => Added(t) \notin Elems(alerts)
  BY <1>0, HeadFacts
<1>2. TypeOK'
  BY <1>0, <1>1 DEF TypeOK
<1>3. AlertsInv'
  BY <1>0, <1>1 DEF AlertsInv
<1>4. FreshInv'
  <2> SUFFICES ASSUME NEW t \in Torrents, life[t] = "in", t \notin registry'
               PROVE  Fresh(alerts', updated, t)
    BY DEF FreshInv
  <2>1. Pumped(t)
    OBVIOUS
  <2>2. t \notin registry
    <3>1. Head(alerts) = Removed(t) => life[t] = "out"
      BY <1>0, <1>1 DEF AlertsInv
    <3> QED
      BY <2>1, <3>1 DEF Pumped
  <2>3. Fresh(alerts, updated, t)
    BY <1>0, <2>2 DEF FreshInv
  <2>4. Head(alerts) # Added(t)
    BY <2>1, <2>2 DEF Pumped
  <2> QED
    BY <1>0, <1>1, <2>3, <2>4, FreshFacts DEF TypeOK
<1>5. InterestExact'
  <2>1. Interested' = Interested
    BY DEF Interested, Receiving, TakesInterest
  <2> QED
    BY <2>1 DEF StreamsInv, InterestExact
<1>6. Elems(hand) = {}
  BY ElemsEmpty
<1>7. \A s \in Subs : Way(s) = Elems(rx[s]) /\ Way(s)' = Elems(rx[s]) \cup Elems(hand')
  BY <1>6 DEF Way
<1>8. BusInv'
  <2>1. \A s \in Subs : (~Receiving(s) => rx[s] = <<>>)' /\ Ordered(rx[s])'
    BY <1>0 DEF BusInv, Receiving, Ordered
  <2>2. ASSUME NEW t \in Torrents,
               (\E s \in Subs : Removed(t) \in Elems(rx[s])) \/ Removed(t) \in Elems(hand')
        PROVE  t \notin registry' /\ life[t] = "out" /\ Added(t) \notin Elems(alerts')
    <3>0. Pumped(t)
      OBVIOUS
    <3>1. CASE Removed(t) \in Elems(hand')
      <4>1. Head(alerts) = Removed(t) /\ t \notin registry'
        BY <3>0, <3>1 DEF Pumped
      <4> QED
        BY <1>0, <1>1, <4>1 DEF AlertsInv
    <3>2. CASE \E s \in Subs : Removed(t) \in Elems(rx[s])
      <4>1. t \notin registry /\ life[t] = "out" /\ Added(t) \notin Elems(alerts)
        BY <1>0, <3>2 DEF BusInv
      <4> QED
        BY <1>1, <3>0, <4>1 DEF Pumped
    <3> QED
      BY <2>2, <3>1, <3>2
  <2>3. ASSUME NEW t \in Torrents, NEW s \in Subs,
               Added(t) \in Elems(hand'), Removed(t) \in Elems(rx[s])
        PROVE  FALSE
    <3>1. Added(t) \notin Elems(alerts)
      BY <1>0, <2>3 DEF BusInv
    <3>2. Pumped(t)
      OBVIOUS
    <3> QED
      BY <1>1, <2>3, <3>1, <3>2 DEF Pumped
  <2>4. ASSUME NEW t \in Torrents, NEW s \in Subs,
               Added(t) \in Elems(rx[s]), t \notin registry' \cup unwound
        PROVE  Removed(t) \in Way(s)'
    <3>1. Pumped(t)
      OBVIOUS
    <3>2. CASE t \in registry
      BY <1>7, <2>4, <3>1, <3>2 DEF Pumped
    <3>3. CASE t \notin registry
      <4>1. Removed(t) \in Way(s)
        BY <1>0, <2>4, <3>3 DEF BusInv
      <4> QED
        BY <1>7, <4>1
    <3> QED
      BY <3>2, <3>3
  <2>5. \A t \in Torrents : Added(t) \in Elems(hand') => t \in registry'
    BY DEF Pumped
  <2>6. \A t \in Torrents :
          /\ (Added(t) \in Elems(hand) => t \in registry \cup unwound)'
          /\ ((\E s \in Subs : Removed(t) \in Elems(rx[s])) \/ Removed(t) \in Elems(hand) =>
                t \notin registry /\ life[t] = "out" /\ Added(t) \notin Elems(alerts))'
          /\ \A s \in Subs :
               /\ (Added(t) \in Elems(hand) => Removed(t) \notin Elems(rx[s]))'
               /\ (Added(t) \in Elems(rx[s]) /\ t \notin registry \cup unwound =>
                     Removed(t) \in Way(s))'
    BY <2>2, <2>3, <2>4, <2>5
  <2> QED
    BY <2>1, <2>6 DEF BusInv
<1>9. KnownInv'
  <2> SUFFICES ASSUME NEW s \in Subs, NEW t \in Torrents, Following(s)'
               PROVE  /\ (t \in known[s] /\ t \notin registry \cup unwound =>
                            Removed(t) \in Way(s))'
                      /\ (t \in registry \cap Scope(s) /\ life[t] = "in" =>
                            t \in known[s] \/ Added(t) \in Way(s) \cup Elems(alerts))'
    BY DEF KnownInv
  <2>1. Following(s) /\ Scope(s)' = Scope(s) /\ Way(s) \subseteq Way(s)'
    BY <1>7 DEF Following, Scope
  <2>2. /\ t \in known[s] /\ t \notin registry \cup unwound => Removed(t) \in Way(s)
        /\ t \in registry \cap Scope(s) /\ life[t] = "in" =>
             t \in known[s] \/ Added(t) \in Way(s) \cup Elems(alerts)
    BY <1>0, <2>1 DEF KnownInv
  <2>3. Pumped(t)
    OBVIOUS
  <2>4. t \in known[s] /\ t \notin registry' \cup unwound => Removed(t) \in Way(s)'
    BY <1>7, <2>1, <2>2, <2>3 DEF Pumped
  <2>5. ASSUME t \in registry', t \in Scope(s), life[t] = "in"
        PROVE  t \in known[s] \/ Added(t) \in Way(s)' \cup Elems(alerts')
    <3>1. CASE Head(alerts) = Added(t)
      BY <1>7, <2>3, <2>5, <3>1 DEF Pumped
    <3>2. CASE Head(alerts) # Added(t)
      <4>1. t \in registry
        BY <2>3, <2>5, <3>2 DEF Pumped
      <4>2. t \in known[s] \/ Added(t) \in Way(s) \cup Elems(alerts)
        BY <2>2, <2>5, <4>1
      <4> QED
        BY <1>1, <2>1, <3>2, <4>2
    <3> QED
      BY <3>1, <3>2
  <2> QED
    BY <2>1, <2>4, <2>5
<1>10. StaleInv'
  <2> SUFFICES ASSUME NEW s \in Subs, NEW t \in Torrents,
                      spc[s] = "open", SentUpdates(s), life[t] = "in",
                      t \in registry', t \in Scope(s)
               PROVE  seen[s][t] = ver[t] \/ ComesTo(s, t)'
    BY DEF StaleInv, SentUpdates, Scope
  <2>1. Pumped(t)
    OBVIOUS
  <2>2. InUpdate(Elems(alerts'), t) \/ InUpdate(Way(s)', t) => ComesTo(s, t)'
    BY DEF ComesTo
  <2>3. InUpdate(Elems(alerts), t) => InUpdate(Elems(alerts'), t) \/ InUpdate(Way(s)', t)
    <3>1. ASSUME NEW e \in Elems(alerts), e.kind = "update", t \in e.ts
          PROVE  InUpdate(Elems(alerts'), t) \/ InUpdate(Way(s)', t)
      <4>1. e = Head(alerts) => e \in Way(s)'
        BY <1>7, <2>1, <3>1 DEF Pumped
      <4> QED
        BY <1>1, <3>1, <4>1 DEF InUpdate
    <3> QED
      BY <3>1 DEF InUpdate
  <2>4. InUpdate(Way(s), t) => InUpdate(Way(s)', t)
    BY <1>7 DEF InUpdate
  <2>5. ComesTo(s, t) => ComesTo(s, t)'
    BY <2>2, <2>3, <2>4 DEF ComesTo
  <2>6. CASE t \in registry
    BY <1>0, <2>5, <2>6 DEF StaleInv
  <2>7. CASE t \notin registry
    <3>1. Fresh(alerts, updated, t) /\ updated \in SUBSET Torrents
      BY <1>0, <2>7 DEF FreshInv, TypeOK
    <3>2. t \in updated \/ InUpdate(Elems(alerts'), t)
      BY <1>1, <3>1, FreshFacts
    <3> QED
      BY <2>2, <3>2 DEF ComesTo
  <2> QED
    BY <2>6, <2>7
<1> QED
  BY <1>2, <1>3, <1>4, <1>5, <1>8, <1>9, <1>10 DEF StreamsInv

(***************************************************************************)
(* Publishing.                                                             *)
(***************************************************************************)
\* What a stream has to read afterwards.
Published(s) ==
    /\ rx'[s] \in Seq(Event) /\ Ordered(rx'[s])
    /\ Receiving(s) =>
         /\ Elems(rx'[s]) \subseteq Way(s)
         /\ s \in lagged' \/ Elems(rx'[s]) = Way(s)
         /\ \A t \in Torrents :
              Removed(t) \in Way(s) /\ Added(t) \in Elems(rx'[s]) => Removed(t) \in Elems(rx'[s])
    /\ ~Receiving(s) => rx'[s] = <<>>

LEMMA PublishFacts ==
    ASSUME StreamsInv, publish, NEW s \in Subs
    PROVE  Published(s)
<1> USE DEF publish
<1>0. TypeOK /\ BusInv
  BY DEF StreamsInv
<1>1. /\ rx[s] \in Seq(Event) /\ hand \in Seq(Event) /\ hand # <<>> /\ Len(hand) <= 1
      /\ Ordered(rx[s])
  BY <1>0 DEF TypeOK, BusInv
<1>2. CASE ~Receiving(s)
  <2>1. rx[s] = <<>> /\ rx'[s] = rx[s]
    BY <1>0, <1>2 DEF BusInv
  <2> QED
    BY <1>1, <1>2, <2>1 DEF Published
<1>3. CASE Receiving(s)
  <2> DEFINE q == IF Full(s) THEN Tail(rx[s]) ELSE rx[s]
             e == hand[1]
  <2>1. Full(s) => rx[s] # <<>>
    BY CapAssumption DEF Full
  <2>2. /\ q \in Seq(Event) /\ Ordered(q) /\ Elems(q) \subseteq Elems(rx[s])
        /\ Full(s) \/ q = rx[s]
        /\ \A x \in Elems(rx[s]) : x = Head(rx[s]) \/ x \in Elems(q)
        /\ \A t \in Torrents :
             Full(s) /\ Head(rx[s]) = Removed(t) => Added(t) \notin Elems(rx[s])
    <3>1. CASE Full(s)
      <4>1. Tail(rx[s]) \in Seq(Event)
        BY <1>1, <2>1, <3>1, SeqFacts
      <4>2. /\ Elems(Tail(rx[s])) \subseteq Elems(rx[s])
            /\ \A x \in Elems(rx[s]) : x = Head(rx[s]) \/ x \in Elems(Tail(rx[s]))
        BY <1>1, <2>1, <3>1, ElemsFacts
      <4>3. /\ Ordered(Tail(rx[s]))
            /\ \A t \in Torrents : Head(rx[s]) = Removed(t) => Added(t) \notin Elems(rx[s])
        BY <1>1, <2>1, <3>1, OrderedFacts
      <4> QED
        BY <3>1, <4>1, <4>2, <4>3
    <3>2. CASE ~Full(s)
      BY <1>1, <3>2
    <3> QED
      BY <3>1, <3>2
  <2>3. rx'[s] = q \o hand
    BY <1>3
  <2> HIDE DEF q
  <2>4. e \in Event /\ q \o hand = Append(q, e) /\ Elems(hand) = {e}
    BY <1>1, <2>2, OneMore
  <2> HIDE DEF e
  <2>a. \A x \in Event : Append(q, x) \in Seq(Event)
    BY <2>2, SeqFacts
  <2>b. \A x \in Event : Elems(Append(q, x)) = Elems(q) \cup {x}
    BY <2>2, ElemsFacts
  <2>c. rx'[s] = Append(q, e)
    BY <2>3, <2>4
  <2>5. rx'[s] \in Seq(Event)
    BY <2>4, <2>a, <2>c
  <2>6. Elems(rx'[s]) = Elems(q) \cup {e}
    BY <2>4, <2>b, <2>c
  <2>7. \A t \in Torrents : e = Added(t) => Removed(t) \notin Elems(rx[s])
    BY <1>0, <2>4 DEF BusInv
  <2>8. Ordered(rx'[s])
    BY <2>2, <2>3, <2>4, <2>7, OrderedFacts
  <2>9. Elems(rx'[s]) \subseteq Way(s) /\ (s \in lagged' \/ Elems(rx'[s]) = Way(s))
    BY <1>3, <2>2, <2>4, <2>6 DEF Way
  <2>10. ASSUME NEW t \in Torrents, Removed(t) \in Way(s), Added(t) \in Elems(rx'[s]),
                Removed(t) \notin Elems(rx'[s])
         PROVE  FALSE
    <3>1. Removed(t) \in Elems(rx[s]) /\ Removed(t) \notin Elems(q)
      BY <2>4, <2>6, <2>10 DEF Way
    <3>2. Full(s) /\ Added(t) \notin Elems(rx[s])
      BY <2>2, <3>1
    <3>3. e = Added(t)
      BY <2>2, <2>6, <2>10, <3>2
    <3> QED
      BY <2>7, <3>1, <3>3
  <2> QED
    BY <1>3, <2>5, <2>8, <2>9, <2>10 DEF Published
<1> QED
  BY <1>2, <1>3

LEMMA PublishKeeps ==
    ASSUME StreamsInv, publish
    PROVE  StreamsInv'
<1>0. TypeOK /\ AlertsInv /\ FreshInv /\ BusInv /\ KnownInv /\ StaleInv
  BY DEF StreamsInv
<1>1. /\ \A s \in Subs : Published(s)
      /\ rx' = [s \in Subs |-> rx'[s]] /\ lagged \subseteq lagged' /\ lagged' \subseteq Subs
  <2>1. rx' = [s \in Subs |-> rx'[s]]
    BY DEF publish
  <2>2. lagged \subseteq lagged' /\ lagged' \subseteq Subs
    BY <1>0 DEF publish, TypeOK
  <2> QED
    BY <2>1, <2>2, PublishFacts
<1>2. /\ UNCHANGED <<life, ver, updated, alerts, noise, registry, interest, spc, kind, target,
                     known, seen, unwound>>
      /\ hand' = <<>> /\ Elems(hand') = {}
      /\ hand' \in Seq(Event) /\ Len(hand') <= 1
  BY ElemsEmpty DEF publish, ltVars, clientVars
<1>3. \A s \in Subs : Way(s)' = Elems(rx'[s])
  BY <1>2 DEF Way
<1>4. TypeOK'
  <2>1. rx' \in [Subs -> Seq(Event)]
    BY <1>1 DEF Published
  <2> QED
    BY <1>0, <1>1, <1>2, <2>1 DEF TypeOK
<1>5. AlertsInv' /\ FreshInv'
  BY <1>0, <1>2 DEF AlertsInv, FreshInv, Ordered, Fresh
<1>6. InterestExact'
  <2>1. Interested' = Interested
    BY <1>2 DEF Interested, Receiving, TakesInterest
  <2> QED
    BY <1>2, <2>1 DEF StreamsInv, InterestExact
<1>7. BusInv'
  <2>1. \A s \in Subs : (~Receiving(s) => rx[s] = <<>>)' /\ Ordered(rx'[s])
    BY <1>1, <1>2 DEF Published, Receiving
  <2>2. ASSUME NEW t \in Torrents, NEW s \in Subs, Removed(t) \in Elems(rx'[s])
        PROVE  t \notin registry /\ life[t] = "out" /\ Added(t) \notin Elems(alerts)
    <3>1. Published(s)
      BY <1>1
    <3>2. Removed(t) \in Way(s)
      BY <2>2, <3>1, ElemsEmpty DEF Published
    <3> QED
      BY <1>0, <3>2 DEF BusInv, Way
  <2>3. ASSUME NEW t \in Torrents, NEW s \in Subs,
               Added(t) \in Elems(rx'[s]), t \notin registry \cup unwound
        PROVE  Removed(t) \in Way(s)'
    <3>1. Published(s)
      BY <1>1
    <3>2. Receiving(s) /\ Added(t) \in Way(s)
      BY <2>3, <3>1, ElemsEmpty DEF Published
    <3>3. Added(t) \in Elems(rx[s])
      BY <1>0, <2>3, <3>2 DEF BusInv, Way
    <3>4. Removed(t) \in Way(s)
      BY <1>0, <2>3, <3>3 DEF BusInv
    <3> QED
      BY <1>3, <2>3, <3>1, <3>2, <3>4 DEF Published
  <2>4. \A t \in Torrents :
          /\ (Added(t) \in Elems(hand) => t \in registry \cup unwound)'
          /\ ((\E s \in Subs : Removed(t) \in Elems(rx[s])) \/ Removed(t) \in Elems(hand) =>
                t \notin registry /\ life[t] = "out" /\ Added(t) \notin Elems(alerts))'
          /\ \A s \in Subs :
               /\ (Added(t) \in Elems(hand) => Removed(t) \notin Elems(rx[s]))'
               /\ (Added(t) \in Elems(rx[s]) /\ t \notin registry \cup unwound =>
                     Removed(t) \in Way(s))'
    BY <1>2, <2>2, <2>3
  <2>5. \A s \in Subs : Ordered(rx[s])'
    BY <2>1 DEF Ordered
  <2> QED
    BY <2>1, <2>4, <2>5 DEF BusInv
<1>8. KnownInv'
  <2> SUFFICES ASSUME NEW s \in Subs, NEW t \in Torrents, Following(s)'
               PROVE  /\ (t \in known[s] /\ t \notin registry \cup unwound =>
                            Removed(t) \in Way(s))'
                      /\ (t \in registry \cap Scope(s) /\ life[t] = "in" =>
                            t \in known[s] \/ Added(t) \in Way(s) \cup Elems(alerts))'
    BY DEF KnownInv
  <2>1. Following(s) /\ s \notin lagged' /\ Scope(s)' = Scope(s) /\ Receiving(s)
    BY <1>1, <1>2 DEF Following, Scope, Receiving
  <2>2. Way(s)' = Way(s)
    BY <1>1, <1>3, <2>1 DEF Published
  <2> QED
    BY <1>0, <1>2, <2>1, <2>2 DEF KnownInv
<1>9. StaleInv'
  <2> SUFFICES ASSUME NEW s \in Subs, NEW t \in Torrents,
                      spc[s] = "open", SentUpdates(s), life[t] = "in",
                      t \in registry, t \in Scope(s)
               PROVE  seen[s][t] = ver[t] \/ ComesTo(s, t)'
    BY <1>2 DEF StaleInv, SentUpdates, Scope
  <2>1. Receiving(s) /\ Published(s)
    BY <1>1 DEF Receiving
  <2>2. s \in lagged' \/ Way(s)' = Way(s)
    BY <1>3, <2>1 DEF Published
  <2>3. ComesTo(s, t) => ComesTo(s, t)'
    BY <1>1, <1>2, <2>2 DEF ComesTo
  <2> QED
    BY <1>0, <2>3 DEF StaleInv
<1> QED
  BY <1>4, <1>5, <1>6, <1>7, <1>8, <1>9 DEF StreamsInv

(***************************************************************************)
(* The streams.                                                            *)
(***************************************************************************)
\* A step of the stream s: the session and the pump stay, and so do the other
\* streams.
StreamStep(s) ==
    /\ UNCHANGED <<ltVars, registry, hand, unwound>>
    /\ \A r \in Subs \ {s} :
         /\ spc'[r] = spc[r] /\ kind'[r] = kind[r] /\ target'[r] = target[r]
         /\ rx'[r] = rx[r] /\ known'[r] = known[r] /\ seen'[r] = seen[r]
         /\ r \in lagged' <=> r \in lagged

\* What it has to see to, of itself.
Reads(s) ==
    /\ Ordered(rx'[s]) /\ Elems(rx'[s]) \subseteq Elems(rx[s])
    /\ \A t \in Torrents : Added(t) \in Elems(rx'[s]) /\ Removed(t) \in Elems(rx[s]) =>
         Removed(t) \in Elems(rx'[s])

RxOf(s) == ~Receiving(s) => rx[s] = <<>>

KnownOf(s) ==
    \A t \in Torrents : Following(s) =>
        /\ t \in known[s] /\ t \notin registry \cup unwound => Removed(t) \in Way(s)
        /\ t \in registry \cap Scope(s) /\ life[t] = "in" =>
             t \in known[s] \/ Added(t) \in Way(s) \cup Elems(alerts)

StaleOf(s) ==
    \A t \in Torrents :
        /\ spc[s] = "open" /\ SentUpdates(s)
        /\ life[t] = "in" /\ t \in registry \cap Scope(s)
        => seen[s][t] = ver[t] \/ ComesTo(s, t)

LEMMA StreamKeeps ==
    ASSUME StreamsInv, NEW s \in Subs, StreamStep(s), TypeOK', InterestExact',
           Reads(s), RxOf(s)', KnownOf(s)', StaleOf(s)'
    PROVE  StreamsInv'
<1> USE DEF StreamStep, ltVars
<1>0. AlertsInv /\ FreshInv /\ BusInv /\ KnownInv /\ StaleInv
  BY DEF StreamsInv
<1>1. AlertsInv' /\ FreshInv'
  BY <1>0 DEF AlertsInv, FreshInv, Ordered, Fresh
<1>2. \A r \in Subs : r # s => /\ Elems(rx'[r]) = Elems(rx[r]) /\ Way(r)' = Way(r)
                               /\ Scope(r)' = Scope(r) /\ Following(r)' = Following(r)
                               /\ Receiving(r)' = Receiving(r)
                               /\ SentUpdates(r)' = SentUpdates(r)
                               /\ \A t \in Torrents : ComesTo(r, t)' = ComesTo(r, t)
  <2> TAKE r \in Subs
  <2> HAVE r # s
  <2>1. Elems(rx'[r]) = Elems(rx[r]) /\ Way(r)' = Way(r)
    BY DEF Way
  <2>2. /\ Scope(r)' = Scope(r) /\ Following(r)' = Following(r)
        /\ Receiving(r)' = Receiving(r) /\ SentUpdates(r)' = SentUpdates(r)
    BY DEF Scope, Following, Receiving, SentUpdates
  <2>3. \A t \in Torrents : ComesTo(r, t)' = ComesTo(r, t)
    BY <2>1 DEF ComesTo
  <2> QED
    BY <2>1, <2>2, <2>3
<1>3. \A r \in Subs : Elems(rx'[r]) \subseteq Elems(rx[r])
  BY <1>2 DEF Reads
<1>4. Elems(hand)' = Elems(hand)
  OBVIOUS
<1>5. BusInv'
  <2>1. \A r \in Subs : (~Receiving(r) => rx[r] = <<>>)' /\ Ordered(rx[r])'
    <3> TAKE r \in Subs
    <3>1. CASE r = s
      BY <3>1 DEF RxOf, Reads, Ordered
    <3>2. CASE r # s
      BY <1>0, <1>2, <3>2 DEF BusInv, Ordered
    <3> QED
      BY <3>1, <3>2
  <2>2. ASSUME NEW t \in Torrents, NEW r \in Subs,
               Added(t) \in Elems(rx'[r]), t \notin registry \cup unwound
        PROVE  Removed(t) \in Way(r)'
    <3>1. Removed(t) \in Way(r)
      BY <1>0, <1>3, <2>2 DEF BusInv
    <3>2. CASE r = s
      BY <1>4, <2>2, <3>1, <3>2 DEF Way, Reads
    <3>3. CASE r # s
      BY <1>2, <3>1, <3>3
    <3> QED
      BY <3>2, <3>3
  <2>3. \A t \in Torrents :
          /\ (Added(t) \in Elems(hand) => t \in registry \cup unwound)'
          /\ ((\E r \in Subs : Removed(t) \in Elems(rx[r])) \/ Removed(t) \in Elems(hand) =>
                t \notin registry /\ life[t] = "out" /\ Added(t) \notin Elems(alerts))'
          /\ \A r \in Subs : (Added(t) \in Elems(hand) => Removed(t) \notin Elems(rx[r]))'
    BY <1>0, <1>3, <1>4 DEF BusInv
  <2>4. \A t \in Torrents : \A r \in Subs :
          (Added(t) \in Elems(rx[r]) /\ t \notin registry \cup unwound => Removed(t) \in Way(r))'
    BY <2>2
  <2> QED
    BY <2>1, <2>3, <2>4 DEF BusInv
<1>6. KnownInv'
  <2>1. ASSUME NEW r \in Subs PROVE KnownOf(r)'
    <3>1. CASE r = s
      BY <3>1
    <3>2. CASE r # s
      BY <1>0, <1>2, <3>2 DEF KnownInv, KnownOf
    <3> QED
      BY <3>1, <3>2
  <2> QED
    BY <2>1 DEF KnownInv, KnownOf
<1>7. StaleInv'
  <2>1. ASSUME NEW r \in Subs PROVE StaleOf(r)'
    <3>1. CASE r = s
      BY <3>1
    <3>2. CASE r # s
      BY <1>0, <1>2, <3>2 DEF StaleInv, StaleOf
    <3> QED
      BY <3>1, <3>2
  <2> QED
    BY <2>1 DEF StaleInv, StaleOf
<1> QED
  BY <1>1, <1>5, <1>6, <1>7 DEF StreamsInv

\* How many are interested.
LEMMA InterestFacts ==
    ASSUME NEW I \in SUBSET Subs, NEW s \in Subs
    PROVE  /\ Cardinality(I) \in 0 .. Cardinality(Subs)
           /\ s \notin I => Cardinality(I \cup {s}) = Cardinality(I) + 1
           /\ s \in I => Cardinality(I \ {s}) = Cardinality(I) - 1
<1>1. IsFiniteSet(I) /\ Cardinality(I) <= Cardinality(Subs)
  BY SubsAssumption, FS_Subset
<1>2. Cardinality(I) \in Nat /\ Cardinality(Subs) \in Nat
  BY <1>1, SubsAssumption, FS_CardinalityType
<1>3. s \notin I => Cardinality(I \cup {s}) = Cardinality(I) + 1
  BY <1>1, FS_AddElement
<1>4. s \in I => Cardinality(I \ {s}) = Cardinality(I) - 1
  BY <1>1, FS_RemoveElement
<1> QED
  BY <1>1, <1>2, <1>3, <1>4

\* What a client knows after it got the status of the torrents ts.
LEMMA LoadedFacts ==
    ASSUME TypeOK, NEW s \in Subs, NEW ts \in SUBSET Torrents
    PROVE  /\ Loaded(s, ts) \in [Subs -> [Torrents -> 0 .. MaxVer]]
           /\ \A r \in Subs : r # s => Loaded(s, ts)[r] = seen[r]
           /\ \A t \in Torrents :
                /\ t \in ts \cap registry \cap Scope(s) => Loaded(s, ts)[s][t] = ver[t]
                /\ t \notin ts \cap registry \cap Scope(s) => Loaded(s, ts)[s][t] = seen[s][t]
<1> DEFINE f == [t \in Torrents |-> IF t \in ts \cap registry \cap Scope(s)
                                    THEN ver[t] ELSE seen[s][t]]
<1>1. f \in [Torrents -> 0 .. MaxVer]
  BY DEF TypeOK
<1>2. \A t \in Torrents : /\ t \in ts \cap registry \cap Scope(s) => f[t] = ver[t]
                          /\ t \notin ts \cap registry \cap Scope(s) => f[t] = seen[s][t]
  OBVIOUS
<1>3. Loaded(s, ts) = [seen EXCEPT ![s] = f]
  BY DEF Loaded, TypeOK
<1> HIDE DEF f
<1> QED
  BY <1>1, <1>2, <1>3 DEF TypeOK

\* Only the state of s among the streams changes.
LEMMA CheckFilterKeeps ==
    ASSUME StreamsInv, NEW s \in Subs, NEW k \in {"events", "changed"},
           NEW x \in Torrents \cup {NoTorrent}, CheckFilter(s, k, x)
    PROVE  StreamsInv'
<1> USE DEF CheckFilter, engineVars, clientVars
<1>0. TypeOK /\ InterestExact /\ BusInv
  BY DEF StreamsInv
<1>1. /\ spc' \in [Subs -> {"idle", "checked", "subscribed", "open"}] /\ spc'[s] = "checked"
      /\ kind' \in [Subs -> {"events", "changed"}]
      /\ target' \in [Subs -> Torrents \cup {NoTorrent}]
      /\ \A r \in Subs : r # s => spc'[r] = spc[r] /\ kind'[r] = kind[r] /\ target'[r] = target[r]
  BY <1>0 DEF TypeOK
<1>2. TypeOK'
  BY <1>0, <1>1 DEF TypeOK, ltVars
<1>3. InterestExact'
  <2>1. Interested' = Interested
    <3>1. \A r \in Subs : r # s => ((Receiving(r) /\ TakesInterest(r))' <=>
                                      Receiving(r) /\ TakesInterest(r))
      BY <1>1 DEF Receiving, TakesInterest
    <3>2. ~Receiving(s)' /\ ~Receiving(s)
      BY <1>1 DEF Receiving
    <3> QED
      BY <3>1, <3>2 DEF Interested
  <2> QED
    BY <1>0, <2>1 DEF InterestExact
<1>4. StreamStep(s)
  BY <1>1 DEF StreamStep
<1>5. Reads(s) /\ RxOf(s)'
  BY <1>0 DEF Reads, RxOf, Receiving, BusInv
<1>6. KnownOf(s)' /\ StaleOf(s)'
  BY <1>1 DEF KnownOf, StaleOf, Following
<1> QED
  BY <1>2, <1>3, <1>4, <1>5, <1>6, StreamKeeps

LEMMA SubscribeKeeps ==
    ASSUME StreamsInv, NEW s \in Subs, Subscribe(s)
    PROVE  StreamsInv'
<1> USE DEF Subscribe, clientVars
<1>0. TypeOK /\ InterestExact /\ BusInv
  BY DEF StreamsInv
<1>1. /\ spc' \in [Subs -> {"idle", "checked", "subscribed", "open"}] /\ spc'[s] = "subscribed"
      /\ \A r \in Subs : r # s => spc'[r] = spc[r]
  BY <1>0 DEF TypeOK
<1>2. InterestExact' /\ Interested' \in SUBSET Subs
  <2>1. \A r \in Subs : r # s => ((Receiving(r) /\ TakesInterest(r))' <=>
                                    Receiving(r) /\ TakesInterest(r))
    BY <1>1 DEF Receiving, TakesInterest
  <2>2. /\ ~Receiving(s) /\ Receiving(s)' /\ TakesInterest(s)' = TakesInterest(s)
        /\ s \notin Interested
    BY <1>1 DEF Receiving, TakesInterest, Interested
  <2>3. Interested' = IF TakesInterest(s) THEN Interested \cup {s} ELSE Interested
    BY <2>1, <2>2 DEF Interested
  <2>4. Interested \in SUBSET Subs /\ interest = Cardinality(Interested)
    BY <1>0 DEF Interested, InterestExact
  <2>5. TakesInterest(s) => Cardinality(Interested') = Cardinality(Interested) + 1
    BY <2>2, <2>3, <2>4, InterestFacts
  <2> QED
    BY <2>3, <2>4, <2>5 DEF InterestExact
<1>3. TypeOK'
  <2>1. interest' \in 0 .. Cardinality(Subs)
    BY <1>2, InterestFacts DEF InterestExact
  <2> QED
    BY <1>0, <1>1, <2>1 DEF TypeOK, ltVars
<1>4. StreamStep(s)
  BY <1>1 DEF StreamStep
<1>5. Reads(s) /\ RxOf(s)'
  BY <1>0, <1>1 DEF Reads, RxOf, Receiving, BusInv
<1>6. KnownOf(s)' /\ StaleOf(s)'
  BY <1>1 DEF KnownOf, StaleOf, Following
<1> QED
  BY <1>2, <1>3, <1>4, <1>5, <1>6, StreamKeeps

LEMMA SnapshotKeeps ==
    ASSUME StreamsInv, NEW s \in Subs, Snapshot(s)
    PROVE  StreamsInv'
<1> USE DEF Snapshot, engineVars
<1>0. TypeOK /\ InterestExact /\ BusInv
  BY DEF StreamsInv
<1>1. /\ spc' \in [Subs -> {"idle", "checked", "subscribed", "open"}] /\ spc'[s] = "open"
      /\ known' \in [Subs -> SUBSET Torrents] /\ known'[s] = registry \cap Scope(s)
      /\ \A r \in Subs : r # s => spc'[r] = spc[r] /\ known'[r] = known[r]
  BY <1>0 DEF TypeOK
<1>2. /\ seen' \in [Subs -> [Torrents -> 0 .. MaxVer]]
      /\ \A r \in Subs : r # s => seen'[r] = seen[r]
      /\ \A t \in registry \cap Scope(s) : seen'[s][t] = ver[t]
  <2>1. Torrents \in SUBSET Torrents /\ registry \subseteq Torrents
    BY <1>0 DEF TypeOK
  <2>2. seen' = Loaded(s, Torrents)
    OBVIOUS
  <2> QED
    BY <1>0, <2>1, <2>2, LoadedFacts
<1>3. TypeOK'
  BY <1>0, <1>1, <1>2 DEF TypeOK, ltVars
<1>4. InterestExact'
  <2>1. Interested' = Interested
    <3>1. \A r \in Subs : Receiving(r)' = Receiving(r) /\ TakesInterest(r)' = TakesInterest(r)
      BY <1>1 DEF Receiving, TakesInterest
    <3> QED
      BY <3>1 DEF Interested
  <2> QED
    BY <1>0, <2>1 DEF InterestExact
<1>5. StreamStep(s)
  BY <1>1, <1>2 DEF StreamStep
<1>6. Reads(s) /\ RxOf(s)'
  BY <1>0, <1>1 DEF Reads, RxOf, Receiving, BusInv
<1>7. Scope(s)' = Scope(s)
  BY DEF Scope
<1>8. KnownOf(s)' /\ StaleOf(s)'
  BY <1>1, <1>2, <1>7 DEF KnownOf, StaleOf, ltVars
<1> QED
  BY <1>3, <1>4, <1>5, <1>6, <1>8, StreamKeeps

\* The client leaves, or its stream ends.
LEMMA EndKeeps ==
    ASSUME StreamsInv, NEW s \in Subs, Receiving(s), End(s),
           UNCHANGED <<ltVars, registry, hand, unwound>>
    PROVE  StreamsInv'
<1> USE DEF End
<1>0. TypeOK /\ InterestExact /\ BusInv
  BY DEF StreamsInv
<1>1. /\ spc' \in [Subs -> {"idle", "checked", "subscribed", "open"}] /\ spc'[s] = "idle"
      /\ kind' \in [Subs -> {"events", "changed"}]
      /\ target' \in [Subs -> Torrents \cup {NoTorrent}]
      /\ rx' \in [Subs -> Seq(Event)] /\ rx'[s] = <<>>
      /\ known' \in [Subs -> SUBSET Torrents]
      /\ lagged' \subseteq Subs
  BY <1>0 DEF TypeOK
<1>2. seen' \in [Subs -> [Torrents -> 0 .. MaxVer]]
  <2>1. [t \in Torrents |-> 0] \in [Torrents -> 0 .. MaxVer]
    BY CapAssumption
  <2> QED
    BY <1>0, <2>1 DEF TypeOK
<1>3. StreamStep(s)
  BY <1>0 DEF StreamStep, TypeOK
<1>4. InterestExact' /\ Interested' \in SUBSET Subs
  <2>1. \A r \in Subs : r # s => ((Receiving(r) /\ TakesInterest(r))' <=>
                                    Receiving(r) /\ TakesInterest(r))
    BY <1>3 DEF StreamStep, Receiving, TakesInterest
  <2>2. ~Receiving(s)'
    BY <1>1 DEF Receiving
  <2>3. /\ Interested' = IF TakesInterest(s) THEN Interested \ {s} ELSE Interested
        /\ s \in Interested <=> TakesInterest(s)
    BY <2>1, <2>2 DEF Interested
  <2>4. Interested \in SUBSET Subs /\ interest = Cardinality(Interested)
    BY <1>0 DEF Interested, InterestExact
  <2>5. TakesInterest(s) => Cardinality(Interested') = Cardinality(Interested) - 1
    BY <2>3, <2>4, InterestFacts
  <2> QED
    BY <2>3, <2>4, <2>5 DEF InterestExact
<1>5. TypeOK'
  <2>1. interest' \in 0 .. Cardinality(Subs)
    BY <1>4, InterestFacts DEF InterestExact
  <2> QED
    BY <1>0, <1>1, <1>2, <2>1 DEF TypeOK, ltVars
<1>6. Reads(s) /\ RxOf(s)'
  BY <1>1, ElemsEmpty, OrderedEmpty DEF Reads, RxOf
<1>7. KnownOf(s)' /\ StaleOf(s)'
  BY <1>1 DEF KnownOf, StaleOf, Following
<1> QED
  BY <1>3, <1>4, <1>5, <1>6, <1>7, StreamKeeps

LEMMA ChangedLaggedKeeps ==
    ASSUME StreamsInv, NEW s \in Subs, ChangedLagged(s)
    PROVE  StreamsInv'
<1> USE DEF ChangedLagged, engineVars
<1>0. TypeOK /\ InterestExact /\ BusInv
  BY DEF StreamsInv
<1>1. /\ seen' \in [Subs -> [Torrents -> 0 .. MaxVer]]
      /\ \A r \in Subs : r # s => seen'[r] = seen[r]
      /\ \A t \in registry \cap Scope(s) : seen'[s][t] = ver[t]
  <2>1. Torrents \in SUBSET Torrents /\ registry \subseteq Torrents
    BY <1>0 DEF TypeOK
  <2>2. seen' = Loaded(s, Torrents)
    OBVIOUS
  <2> QED
    BY <1>0, <2>1, <2>2, LoadedFacts
<1>2. TypeOK'
  BY <1>0, <1>1 DEF TypeOK, ltVars
<1>3. InterestExact'
  <2>1. Interested' = Interested
    BY DEF Interested, Receiving, TakesInterest
  <2> QED
    BY <1>0, <2>1 DEF InterestExact
<1>4. StreamStep(s)
  BY <1>1 DEF StreamStep
<1>5. Reads(s) /\ RxOf(s)'
  BY <1>0 DEF Reads, RxOf, Receiving, BusInv
<1>6. Scope(s)' = Scope(s)
  BY DEF Scope
<1>7. KnownOf(s)'
  BY DEF KnownOf, Following
<1>8. StaleOf(s)'
  BY <1>1, <1>6 DEF StaleOf, ltVars
<1> QED
  BY <1>2, <1>3, <1>4, <1>5, <1>7, <1>8, StreamKeeps

LEMMA RecvKeeps ==
    ASSUME StreamsInv, NEW s \in Subs, Recv(s)
    PROVE  StreamsInv'
<1> USE DEF Recv, engineVars
<1> DEFINE e == Head(rx[s])
           q == Tail(rx[s])
<1>0. TypeOK /\ InterestExact /\ BusInv /\ KnownInv /\ StaleInv
  BY DEF StreamsInv
<1>1. /\ rx[s] \in Seq(Event) /\ rx[s] # <<>> /\ Ordered(rx[s])
      /\ rx'[s] = q /\ \A r \in Subs : r # s => rx'[r] = rx[r]
  BY <1>0 DEF TypeOK, BusInv
<1>2. e \in Event /\ q \in Seq(Event)
  BY <1>1, SeqFacts
<1>3. /\ e \in Elems(rx[s]) /\ Elems(q) \subseteq Elems(rx[s])
      /\ \A x \in Elems(rx[s]) : x = e \/ x \in Elems(q)
  BY <1>1, ElemsFacts
<1>4. Ordered(q) /\ \A t \in Torrents : e = Removed(t) => Added(t) \notin Elems(rx[s])
  BY <1>1, OrderedFacts
<1>5. Statuses(s, e) \in SUBSET Torrents
  BY <1>2, EventFacts DEF Statuses
<1>6. /\ seen' \in [Subs -> [Torrents -> 0 .. MaxVer]]
      /\ \A r \in Subs : r # s => seen'[r] = seen[r]
      /\ \A t \in Torrents :
           /\ t \in Statuses(s, e) \cap registry \cap Scope(s) => seen'[s][t] = ver[t]
           /\ t \notin Statuses(s, e) \cap registry \cap Scope(s) => seen'[s][t] = seen[s][t]
  <2>1. seen' = Loaded(s, Statuses(s, e))
    OBVIOUS
  <2> QED
    BY <1>0, <1>5, <2>1, LoadedFacts
<1>7. from_engine_event(s, e) \in SUBSET Torrents
  <2>1. known[s] \in SUBSET Torrents /\ Scope(s) \subseteq Torrents
    BY <1>0 DEF TypeOK, Scope
  <2> QED
    BY <2>1 DEF from_engine_event
<1>8. /\ known' \in [Subs -> SUBSET Torrents] /\ known'[s] = from_engine_event(s, e)
      /\ \A r \in Subs : r # s => known'[r] = known[r]
  BY <1>0, <1>7 DEF TypeOK
<1>9. TypeOK'
  <2>1. rx' \in [Subs -> Seq(Event)]
    BY <1>0, <1>2 DEF TypeOK
  <2> QED
    BY <1>0, <1>6, <1>8, <2>1 DEF TypeOK, ltVars
<1>10. InterestExact'
  <2>1. Interested' = Interested
    BY DEF Interested, Receiving, TakesInterest
  <2> QED
    BY <1>0, <2>1 DEF InterestExact
<1>11. StreamStep(s)
  BY <1>1, <1>6, <1>8 DEF StreamStep
<1>12. Reads(s)
  BY <1>1, <1>3, <1>4 DEF Reads
<1>13. RxOf(s)'
  BY DEF RxOf, Receiving
<1>14. /\ Scope(s)' = Scope(s) /\ SentUpdates(s)' = SentUpdates(s)
       /\ Elems(hand)' = Elems(hand) /\ Way(s)' = Elems(q) \cup Elems(hand)
       /\ Way(s) = Elems(rx[s]) \cup Elems(hand)
  BY <1>1 DEF Scope, SentUpdates, Way
<1> HIDE DEF e, q
<1>15. KnownOf(s)'
  <2> SUFFICES ASSUME NEW t \in Torrents, Following(s)'
               PROVE  /\ t \in known'[s] /\ t \notin registry \cup unwound =>
                           Removed(t) \in Way(s)'
                      /\ t \in registry \cap Scope(s) /\ life[t] = "in" =>
                           t \in known'[s] \/ Added(t) \in Way(s)' \cup Elems(alerts)
    BY <1>14 DEF KnownOf, ltVars
  <2>1. Following(s) /\ kind[s] = "events"
    BY DEF Following
  <2>2. /\ t \in known[s] /\ t \notin registry \cup unwound => Removed(t) \in Way(s)
        /\ t \in registry \cap Scope(s) /\ life[t] = "in" =>
             t \in known[s] \/ Added(t) \in Way(s) \cup Elems(alerts)
    BY <1>0, <2>1 DEF KnownInv
  <2>3. /\ e.kind = "added" => known'[s] = known[s] \cup ({e.t} \cap Scope(s))
        /\ e.kind = "removed" => known'[s] = known[s] \ {e.t}
        /\ e.kind \notin {"added", "removed"} => known'[s] = known[s]
    BY <1>8, <2>1 DEF from_engine_event
  <2>4. \A u : /\ Added(u).kind = "added" /\ Added(u).t = u
               /\ Removed(u).kind = "removed" /\ Removed(u).t = u
    BY EventFacts
  <2>5. e.kind = "added" => e = Added(e.t)
    BY <1>2 DEF Event, Added
  <2>6. e.kind = "removed" => e = Removed(e.t)
    BY <1>2 DEF Event, Removed
  <2>7. ASSUME t \in known'[s], t \notin registry \cup unwound
        PROVE  Removed(t) \in Way(s)'
    <3>1. Removed(t) \in Way(s)
      <4>1. CASE t \in known[s]
        BY <2>2, <2>7, <4>1
      <4>2. CASE t \notin known[s]
        <5>1. e = Added(t)
          BY <2>3, <2>5, <2>7, <4>2
        <5> QED
          BY <1>0, <1>3, <2>7, <5>1 DEF BusInv
      <4> QED
        BY <4>1, <4>2
    <3>2. e # Removed(t)
      BY <2>3, <2>4, <2>7
    <3> QED
      BY <1>3, <1>14, <3>1, <3>2
  <2>8. ASSUME t \in registry, t \in Scope(s), life[t] = "in"
        PROVE  t \in known'[s] \/ Added(t) \in Way(s)' \cup Elems(alerts)
    <3>1. e # Removed(t)
      BY <1>0, <1>3, <2>8 DEF BusInv
    <3>2. t \in known[s] => t \in known'[s]
      BY <2>3, <2>6, <3>1
    <3>3. e = Added(t) => t \in known'[s]
      BY <2>3, <2>4, <2>8
    <3>4. t \in known[s] \/ Added(t) \in Way(s) \cup Elems(alerts)
      BY <2>2, <2>8
    <3> QED
      BY <1>3, <1>14, <3>2, <3>3, <3>4
  <2> QED
    BY <2>7, <2>8
<1>16. StaleOf(s)'
  <2> SUFFICES ASSUME NEW t \in Torrents, spc[s] = "open", SentUpdates(s),
                      life[t] = "in", t \in registry, t \in Scope(s)
               PROVE  seen'[s][t] = ver[t] \/ ComesTo(s, t)'
    BY <1>14 DEF StaleOf, ltVars
  <2>1. seen[s][t] = ver[t] \/ ComesTo(s, t)
    BY <1>0 DEF StaleInv
  <2>2. seen'[s][t] \in {ver[t], seen[s][t]}
    BY <1>6
  <2>3. e.kind = "update" /\ t \in e.ts => seen'[s][t] = ver[t]
    BY <1>6 DEF Statuses, SentUpdates
  <2>4. InUpdate(Way(s), t) => (e.kind = "update" /\ t \in e.ts) \/ InUpdate(Way(s)', t)
    BY <1>3, <1>14 DEF InUpdate
  <2>5. ComesTo(s, t) => (e.kind = "update" /\ t \in e.ts) \/ ComesTo(s, t)'
    BY <2>4 DEF ComesTo, ltVars
  <2> QED
    BY <2>1, <2>2, <2>3, <2>5
<1> QED
  BY <1>9, <1>10, <1>11, <1>12, <1>13, <1>15, <1>16, StreamKeeps

(***************************************************************************)
(* Every step.                                                             *)
(***************************************************************************)
THEOREM StreamsInvariant == Spec => []StreamsInv
<1>1. Init => StreamsInv
  <2> SUFFICES ASSUME Init PROVE StreamsInv
    OBVIOUS
  <2> USE DEF Init
  <2>1. Cardinality(Subs) \in Nat /\ Interested = {} /\ Cardinality({}) = 0
    BY SubsAssumption, FS_CardinalityType, FS_EmptySet DEF Interested, Receiving
  <2>2. TypeOK
    <3>1. /\ spc \in [Subs -> {"idle", "checked", "subscribed", "open"}]
          /\ kind \in [Subs -> {"events", "changed"}]
          /\ target \in [Subs -> Torrents \cup {NoTorrent}]
          /\ rx \in [Subs -> Seq(Event)]
          /\ known \in [Subs -> SUBSET Torrents]
          /\ life \in [Torrents -> {"new", "in", "out"}]
      OBVIOUS
    <3>2. ver \in [Torrents -> 0 .. MaxVer] /\ seen \in [Subs -> [Torrents -> 0 .. MaxVer]]
      BY CapAssumption
    <3>3. /\ alerts \in Seq(Event) /\ hand \in Seq(Event) /\ Len(hand) <= 1
          /\ noise \in 0 .. MaxNoise /\ interest \in 0 .. Cardinality(Subs)
      BY <2>1, CapAssumption
    <3> QED
      BY <3>1, <3>2, <3>3 DEF TypeOK
  <2>3. InterestExact
    BY <2>1 DEF InterestExact
  <2>4. AlertsInv /\ FreshInv
    BY ElemsEmpty, OrderedEmpty DEF AlertsInv, FreshInv
  <2>5. BusInv
    BY ElemsEmpty, OrderedEmpty DEF BusInv, Way
  <2>6. KnownInv /\ StaleInv
    BY DEF KnownInv, StaleInv, Following
  <2> QED
    BY <2>2, <2>3, <2>4, <2>5, <2>6 DEF StreamsInv
<1>2. StreamsInv /\ [Next]_vars => StreamsInv'
  <2> SUFFICES ASSUME StreamsInv, [Next]_vars PROVE StreamsInv'
    OBVIOUS
  <2>1. ASSUME NEW t \in Torrents, AddTorrent(t) PROVE StreamsInv'
    BY <2>1, AddTorrentKeeps
  <2>2. ASSUME NEW t \in Torrents, Register(t) PROVE StreamsInv'
    BY <2>2, RegisterKeeps
  <2>3. ASSUME NEW t \in Torrents, RemoveTorrent(t) PROVE StreamsInv'
    <3>1. /\ life[t] = "in" /\ t \in registry /\ Leave(t)
          /\ UNCHANGED <<ver, noise, hand, interest, streamVars, clientVars>>
          /\ UNCHANGED <<registry, unwound>>
      BY <2>3 DEF RemoveTorrent, engineVars
    <3> QED
      BY <3>1, LeaveKeeps
  <2>4. ASSUME NEW t \in Torrents, unwind_failed_add(t) PROVE StreamsInv'
    <3>1. /\ life[t] = "in" /\ t \in registry /\ Leave(t)
          /\ UNCHANGED <<ver, noise, hand, interest, streamVars, clientVars>>
          /\ registry' = registry \ {t} /\ unwound' = unwound \cup {t}
      BY <2>4 DEF unwind_failed_add
    <3> QED
      BY <3>1, LeaveKeeps
  <2>5. ASSUME NEW t \in Torrents, StatusChanges(t) PROVE StreamsInv'
    BY <2>5, StatusChangesKeeps
  <2>6. CASE OtherAlert
    BY <2>6, OtherAlertKeeps
  <2>7. CASE PostUpdates
    BY <2>7, PostUpdatesKeeps
  <2>8. CASE handle_alert
    BY <2>8, HandleIsPump, PumpKeeps
  <2>9. CASE publish
    BY <2>9, PublishKeeps
  <2>10. ASSUME NEW s \in Subs, Subscribe(s) PROVE StreamsInv'
    BY <2>10, SubscribeKeeps
  <2>11. ASSUME NEW s \in Subs, Recv(s) PROVE StreamsInv'
    BY <2>11, RecvKeeps
  <2>12. ASSUME NEW s \in Subs, EventsLagged(s) PROVE StreamsInv'
    <3>1. /\ Receiving(s) /\ End(s) /\ UNCHANGED <<ltVars, registry, hand, unwound>>
      BY <2>12 DEF EventsLagged, Receiving
    <3> QED
      BY <3>1, EndKeeps
  <2>13. ASSUME NEW s \in Subs, ChangedLagged(s) PROVE StreamsInv'
    BY <2>13, ChangedLaggedKeeps
  <2>14. ASSUME NEW s \in Subs, Snapshot(s) PROVE StreamsInv'
    BY <2>14, SnapshotKeeps
  <2>15. ASSUME NEW s \in Subs, Unsubscribe(s) PROVE StreamsInv'
    BY <2>15, EndKeeps DEF Unsubscribe
  <2>16. ASSUME NEW s \in Subs, NEW k \in {"events", "changed"},
                NEW x \in Torrents \cup {NoTorrent}, CheckFilter(s, k, x)
         PROVE  StreamsInv'
    BY <2>16, CheckFilterKeeps
  <2>17. CASE UNCHANGED vars
    <3> USE <2>17 DEF vars, ltVars, engineVars, streamVars, clientVars, StreamsInv
    <3>1. TypeOK'
      BY DEF TypeOK
    <3>2. InterestExact'
      BY DEF InterestExact, Interested, Receiving, TakesInterest
    <3>3. AlertsInv' /\ FreshInv'
      BY DEF AlertsInv, FreshInv, Fresh, Ordered
    <3>4. BusInv'
      BY DEF BusInv, Receiving, Ordered, Way
    <3>5. KnownInv'
      BY DEF KnownInv, Following, Scope, Way
    <3>6. StaleInv'
      BY DEF StaleInv, SentUpdates, Scope, ComesTo, Way
    <3> QED
      BY <3>1, <3>2, <3>3, <3>4, <3>5, <3>6
  <2> QED
    BY <2>1, <2>2, <2>3, <2>4, <2>5, <2>6, <2>7, <2>8, <2>9, <2>10, <2>11, <2>12, <2>13,
       <2>14, <2>15, <2>16, <2>17 DEF Next, Server
<1> QED
  BY <1>1, <1>2, PTL DEF Spec

\* Every variable keeps its type: what is queued and published are events, a
\* client has seen versions that exist, and state_interest never goes below
\* zero or above the number of subscriptions.
THEOREM TypeCorrect == Spec => []TypeOK
<1>1. StreamsInv => TypeOK
  BY DEF StreamsInv
<1> QED
  BY <1>1, StreamsInvariant, PTL

\* state_interest is the number of the streams that want updates, whoever
\* subscribes, leaves or is cut off in between (engine/mod.rs:245-251): the
\* ticker neither stops while somebody waits for updates nor runs for nobody,
\* and the unsigned counter is never decremented at zero.
THEOREM InterestIsExact == Spec => []InterestExact
<1>1. StreamsInv => InterestExact
  BY DEF StreamsInv
<1> QED
  BY <1>1, StreamsInvariant, PTL

(***************************************************************************)
(* What the client will believe.                                           *)
(***************************************************************************)
\* The last word about a torrent on the way to a stream is its end, if that
\* is on the way at all; else its announcement; else there is none.
LEMMA ToldMeans ==
    ASSUME StreamsInv, NEW s \in Subs, NEW t \in Scope(s)
    PROVE  /\ Removed(t) \in Way(s) => t \notin Told(s)
           /\ t \in Told(s) => t \in known[s] \/ Added(t) \in Way(s)
           /\ Removed(t) \notin Way(s) /\ (t \in known[s] \/ Added(t) \in Way(s)) => t \in Told(s)
<1> DEFINE q == OnItsWay(s)
           A == About(s, t)
           last == CHOOSE i \in A : \A j \in A : j <= i
<1>0. TypeOK /\ BusInv /\ t \in Torrents
  BY DEF StreamsInv, TypeOK, Scope
<1>1. /\ rx[s] \in Seq(Event) /\ hand \in Seq(Event) /\ Len(hand) <= 1 /\ Ordered(rx[s])
  BY <1>0 DEF TypeOK, BusInv
<1>2. q \in Seq(Event) /\ Elems(q) = Way(s) /\ Ordered(q)
  <2>1. CASE hand = <<>>
    <3>1. q = rx[s] /\ Elems(hand) = {}
      BY <1>1, <2>1, ElemsEmpty DEF OnItsWay
    <3> QED
      BY <1>1, <3>1 DEF Way
  <2>2. CASE hand # <<>>
    <3> DEFINE e == hand[1]
    <3>1. e \in Event /\ q = Append(rx[s], e) /\ Elems(hand) = {e}
      BY <1>1, <2>2, OneMore DEF OnItsWay
    <3> HIDE DEF e, q
    <3>2. q \in Seq(Event)
      BY <1>1, <3>1, SeqFacts
    <3>3. \A x \in Event : Elems(Append(rx[s], x)) = Elems(rx[s]) \cup {x}
      BY <1>1, ElemsFacts
    <3>4. \A u \in Torrents : e = Added(u) => Removed(u) \notin Elems(rx[s])
      BY <1>0, <3>1 DEF BusInv
    <3>5. Ordered(q)
      BY <1>1, <3>1, <3>4, OrderedFacts
    <3> QED
      BY <3>1, <3>2, <3>3, <3>5 DEF Way
  <2> QED
    BY <2>1, <2>2
<1>3. DOMAIN q = 1 .. Len(q) /\ Len(q) \in Nat
  BY <1>2
<1>4. A = {i \in 1 .. Len(q) : q[i] \in {Added(t), Removed(t)}}
  BY <1>3 DEF About
<1>5. t \in Told(s) <=> IF A = {} THEN t \in known[s] ELSE q[last] = Added(t)
  BY DEF Told
<1> HIDE DEF q, A
<1>6. ASSUME A # {}
      PROVE  last \in A /\ \A j \in A : j <= last
  <2>1. A \in SUBSET (1 .. Len(q))
    BY <1>4
  <2>2. \E m \in A : \A j \in A : j <= m
    BY <1>3, <1>6, <2>1, MaxExists
  <2> QED
    BY <2>2
<1> HIDE DEF last
<1>7. ASSUME Removed(t) \in Way(s), t \in Told(s) PROVE FALSE
  <2>1. PICK i \in 1 .. Len(q) : q[i] = Removed(t)
    BY <1>2, <1>7 DEF Elems
  <2>2. i \in A
    BY <1>4, <2>1
  <2>3. last \in A /\ i <= last /\ q[last] = Added(t)
    BY <1>5, <1>6, <1>7, <2>2
  <2>4. last < i
    BY <1>0, <1>2, <1>4, <2>1, <2>3 DEF Ordered
  <2> QED
    BY <1>3, <1>4, <2>1, <2>3, <2>4
<1>8. ASSUME t \in Told(s), t \notin known[s] PROVE Added(t) \in Way(s)
  <2>1. A # {} /\ q[last] = Added(t)
    BY <1>5, <1>8
  <2> QED
    BY <1>2, <1>4, <1>6, <2>1 DEF Elems
<1>9. ASSUME Removed(t) \notin Way(s), t \in known[s] \/ Added(t) \in Way(s)
      PROVE  t \in Told(s)
  <2>1. \A i \in A : q[i] = Added(t)
    BY <1>2, <1>4, <1>9 DEF Elems
  <2>2. CASE A # {}
    BY <1>5, <1>6, <2>1, <2>2
  <2>3. CASE A = {}
    <3>1. Added(t) \notin Way(s)
      BY <1>2, <1>4, <2>3 DEF Elems
    <3> QED
      BY <1>5, <1>9, <2>3, <3>1
  <2> QED
    BY <2>2, <2>3
<1> QED
  BY <1>7, <1>8, <1>9

\* A client of torrentEvents keeps no ghost torrent and misses none, whatever
\* the size of the bus, whenever it subscribed and however slow it reads: what
\* it believes, with the events on their way to it, is what is registered
\* (subscription.rs:79-87).
THEOREM NoGhostTorrents == Spec => []NoGhosts
<1>1. StreamsInv => NoGhosts
  <2> SUFFICES ASSUME StreamsInv, NEW s \in Subs, Following(s)
               PROVE  /\ Told(s) \subseteq registry \cup unwound
                      /\ \A t \in registry \cap Scope(s) :
                           life[t] = "in" => t \in Told(s) \cup Announced
    BY DEF NoGhosts
  <2>0. BusInv /\ KnownInv /\ TypeOK
    BY DEF StreamsInv
  <2>1. ASSUME NEW t \in Told(s), t \notin registry \cup unwound PROVE FALSE
    <3>1. t \in Scope(s) /\ t \in Torrents
      BY <2>0 DEF Told, Scope, TypeOK
    <3>2. Removed(t) \notin Way(s) /\ (t \in known[s] \/ Added(t) \in Way(s))
      BY <3>1, ToldMeans
    <3>3. t \in known[s] => Removed(t) \in Way(s)
      BY <2>0, <2>1, <3>1 DEF KnownInv
    <3>4. Added(t) \in Elems(hand) => t \in registry \cup unwound
      BY <2>0, <3>1 DEF BusInv
    <3>5. Added(t) \in Elems(rx[s]) => Removed(t) \in Way(s)
      BY <2>0, <2>1, <3>1 DEF BusInv
    <3> QED
      BY <2>1, <3>2, <3>3, <3>4, <3>5 DEF Way
  <2>2. ASSUME NEW t \in registry \cap Scope(s), life[t] = "in"
        PROVE  t \in Told(s) \cup Announced
    <3>1. t \in Scope(s) /\ t \in Torrents
      BY <2>0 DEF TypeOK
    <3>2. Removed(t) \notin Way(s)
      BY <2>0, <2>2, <3>1 DEF BusInv, Way
    <3>3. t \in known[s] \/ Added(t) \in Way(s) \cup Elems(alerts)
      BY <2>0, <2>2, <3>1 DEF KnownInv
    <3>4. Added(t) \in Elems(alerts) => t \in Announced
      <4>1. DOMAIN alerts = 1 .. Len(alerts)
        BY <2>0 DEF TypeOK
      <4> QED
        BY <3>1, <4>1 DEF Elems, Announced
    <3> QED
      BY <3>1, <3>2, <3>3, <3>4, ToldMeans
  <2> QED
    BY <2>1, <2>2
<1> QED
  BY <1>1, StreamsInvariant, PTL

\* A change is never lost between the deltas: a client that is sent updates
\* has seen the status of a torrent, or an update with it is still to come,
\* also over a lag, a late subscription and a torrent that is registered after
\* its first update was posted (subscription.rs:135-139).
THEOREM NothingIsStale == Spec => []NothingStale
<1>1. StreamsInv => NothingStale
  <2> SUFFICES ASSUME StreamsInv, NEW s \in Subs, NEW t \in Torrents, ComesTo(s, t)
               PROVE  Coming(s, t)
    BY DEF NothingStale, StreamsInv, StaleInv
  <2>1. /\ alerts \in Seq(Event) /\ rx[s] \in Seq(Event) /\ hand \in Seq(Event)
        /\ Len(hand) <= 1
    BY DEF StreamsInv, TypeOK
  <2>2. OnItsWay(s) \in Seq(Event) /\ Elems(OnItsWay(s)) = Way(s)
    <3>1. CASE hand = <<>>
      <4>1. OnItsWay(s) = rx[s] /\ Elems(hand) = {}
        BY <2>1, <3>1, ElemsEmpty DEF OnItsWay
      <4> QED
        BY <2>1, <4>1 DEF Way
    <3>2. CASE hand # <<>>
      <4> DEFINE e == hand[1]
      <4>1. e \in Event /\ OnItsWay(s) = Append(rx[s], e) /\ Elems(hand) = {e}
        BY <2>1, <3>2, OneMore DEF OnItsWay
      <4> HIDE DEF e
      <4>2. \A x \in Event : Append(rx[s], x) \in Seq(Event)
        BY <2>1, SeqFacts
      <4>3. \A x \in Event : Elems(Append(rx[s], x)) = Elems(rx[s]) \cup {x}
        BY <2>1, ElemsFacts
      <4> QED
        BY <4>1, <4>2, <4>3 DEF Way
    <3> QED
      BY <3>1, <3>2
  <2>3. ASSUME NEW q \in Seq(Event), InUpdate(Elems(q), t)
        PROVE  \E i \in DOMAIN q : q[i].kind = "update" /\ t \in q[i].ts
    <3>1. DOMAIN q = 1 .. Len(q)
      OBVIOUS
    <3> QED
      BY <2>3, <3>1 DEF InUpdate, Elems
  <2>4. InUpdate(Elems(alerts), t) =>
          \E i \in DOMAIN alerts : alerts[i].kind = "update" /\ t \in alerts[i].ts
    BY <2>1, <2>3
  <2>5. InUpdate(Way(s), t) =>
          \E i \in DOMAIN OnItsWay(s) :
            OnItsWay(s)[i].kind = "update" /\ t \in OnItsWay(s)[i].ts
    BY <2>2, <2>3
  <2> QED
    BY <2>4, <2>5 DEF ComesTo, Coming
<1> QED
  BY <1>1, StreamsInvariant, PTL
=============================================================================
