---------------------------- MODULE SettingsProofs ----------------------------
(***************************************************************************)
(* The settings of the session hold what the inputs state: the invariants  *)
(* of Settings for every set of typed inputs, every foreign state file and *)
(* every number of changes.                                                *)
(*                                                                         *)
(* The inductive invariant says of each field that the settings behind it  *)
(* are as one accepted value of its type staged them, or that those not of *)
(* foreign origin are still libtorrent's defaults, and of the foreign ones *)
(* that they are still of their settings' types.  What a field reads as,   *)
(* and that it can be written back, follow from that alone.                *)
(***************************************************************************)
EXTENDS Settings, TLAPS

Fields == ScalarFields \cup StructuredFields

\* A value a client can send for a field, and one that is accepted.
Typed(f, v) == v = Null \/ v \in Schema(f)
Accepted(f, v) == Typed(f, v) /\ WriteField(f, v).ok

\* The settings in `names` are as in `set`.
Agrees(s, set, names) == \A n \in names : s[n] = set[n]

\* The settings behind a field are as an accepted value staged them.
Written(f, s) ==
    \E v : Accepted(f, v) /\ Agrees(s, WriteField(f, v).set, backing(f))

\* The inductive invariant.
Settled(f) == Written(f, session) \/ Agrees(session, Defaults, backing(f) \ foreign)
Unexposed == Agrees(session, Defaults, BLACKLIST \ foreign)
LastHolds ==
    last.ok => \A f \in DOMAIN last.input :
        /\ f \in Fields
        /\ Accepted(f, last.input[f])
        /\ Agrees(session, WriteField(f, last.input[f]).set, backing(f))
ForeignHolds ==
    /\ foreign \subseteq DOMAIN session
    /\ \A n \in foreign : Storable(n, session[n])
SettingsInv ==
    /\ ALL_SETTINGS \subseteq DOMAIN session
    /\ \A f \in Fields : Settled(f)
    /\ Unexposed
    /\ LastHolds
    /\ ForeignHolds

-------------------------------------------------------------------------------
(***************************************************************************)
(* The operators on functions.                                             *)
(***************************************************************************)
\* A table of tables has the entry of the one table with that name.
LEMMA AssembledAt ==
    ASSUME NEW F, NEW t \in F, NEW n \in DOMAIN t, \A u \in F : n \in DOMAIN u => u = t
    PROVE  n \in DOMAIN Assembled(F) /\ Assembled(F)[n] = t[n]
BY DEF Assembled

\* A table of one entry has that entry.
LEMMA OneAt ==
    ASSUME NEW n, NEW v
    PROVE  One(n, v)[n] = v
BY DEF One

\* What a staged group is, once its condition is known to hold.
LEMMA StagedFacts ==
    /\ Rejected.ok = FALSE
    /\ \A set : Staged(set).ok = TRUE /\ Staged(set).set = set
BY DEF Rejected, Staged

-------------------------------------------------------------------------------
(***************************************************************************)
(* The fields.                                                             *)
(***************************************************************************)
LEMMA TheStructuredFields ==
    StructuredFields =
        {"user_agent", "proxy", "i2p", "encryption", "peer_transports",
         "outgoing_port_range", "disk_io_cache", "mmap_write_mode",
         "suggest_mode", "choking_algorithm", "seed_choking_algorithm",
         "mixed_mode_algorithm", "outgoing_interfaces", "listen_interfaces",
         "dht_bootstrap_nodes"}
BY DEF StructuredFields, STRUCTURED_BACKING

\* The fields that are one enumeration.
LEMMA TheEnumFields ==
    DOMAIN EnumFields =
        {"mmap_write_mode", "suggest_mode", "choking_algorithm",
         "seed_choking_algorithm", "mixed_mode_algorithm"}
BY DEF EnumFields

\* No two fields share a setting, and none has a setting of the blacklist.
LEMMA Disjoint ==
    ASSUME NEW f \in Fields
    PROVE  /\ backing(f) \subseteq ALL_SETTINGS \ BLACKLIST
           /\ \A g \in Fields \ {f} : backing(f) \cap backing(g) = {}
<1>1. backing(f) \subseteq ALL_SETTINGS \ BLACKLIST
  BY Partition DEF Fields
<1>2. ASSUME NEW g \in Fields, g # f
      PROVE  backing(f) \cap backing(g) = {}
  <2>1. CASE g \in StructuredFields
    BY <2>1, <1>2, Partition DEF Fields
  <2>2. CASE f \in StructuredFields
    BY <2>2, <1>2, Partition DEF Fields
  <2>3. CASE f \notin StructuredFields /\ g \notin StructuredFields
    BY <2>3, <1>2 DEF backing
  <2> QED BY <2>1, <2>2, <2>3
<1> QED BY <1>1, <1>2

\* A scalar field is no structured one, and has the setting of its name.
LEMMA Scalar ==
    ASSUME NEW f \in ScalarFields
    PROVE  f \notin StructuredFields /\ backing(f) = {f}
BY Partition DEF backing

\* The settings behind each structured field (STRUCTURED_BACKING).
LEMMA Backing ==
    /\ backing("user_agent") = {"user_agent"}
    /\ backing("proxy") = PROXY_BACKING
    /\ backing("i2p") = I2P_BACKING
    /\ backing("encryption") = {"out_enc_policy", "in_enc_policy", "allowed_enc_level",
                                "prefer_rc4", "announce_crypto_support"}
    /\ backing("peer_transports") =
         {"enable_incoming_tcp", "enable_outgoing_tcp",
          "enable_incoming_utp", "enable_outgoing_utp"}
    /\ backing("outgoing_port_range") = {"outgoing_port", "num_outgoing_ports"}
    /\ backing("disk_io_cache") = {"disk_io_read_mode", "disk_io_write_mode"}
    /\ backing("mmap_write_mode") = {"disk_write_mode"}
    /\ \A f \in {"suggest_mode", "choking_algorithm", "seed_choking_algorithm",
                 "mixed_mode_algorithm", "outgoing_interfaces", "listen_interfaces",
                 "dht_bootstrap_nodes"} : backing(f) = {f}
BY TheStructuredFields DEF backing, STRUCTURED_BACKING

\* An enumeration has one setting, of another name for mmap_write_mode.
LEMMA TheSettings ==
    /\ TheSetting("mmap_write_mode") = "disk_write_mode"
    /\ \A f \in DOMAIN EnumFields \ {"mmap_write_mode"} : TheSetting(f) = f
    /\ \A f \in DOMAIN EnumFields : backing(f) = {TheSetting(f)}
BY Backing, TheEnumFields DEF TheSetting

\* What WriteField, ReadField and Schema are for each field.
LEMMA NullWrites ==
    ASSUME NEW f \in Fields \ Nullable
    PROVE  WriteField(f, Null).ok = FALSE
BY DEF WriteField, Rejected

\* A scalar field goes through scalar_set and scalar_get.
LEMMA ScalarFieldIs ==
    ASSUME NEW f \in ScalarFields
    PROVE  /\ \A v : v # Null => WriteField(f, v) = scalar_set(f, v)
           /\ \A s : ReadField(f, s) = scalar_get(f, s)
           /\ Schema(f) = ScalarSchema(Scalars[f])
BY Scalar, TheStructuredFields, TheEnumFields DEF WriteField, ReadField, Schema

\* The two kinds of field are apart.
LEMMA NotScalar == \A f \in StructuredFields : f \notin ScalarFields
BY Scalar

\* Each structured field is written by the function of its name.
LEMMA FieldIs ==
    /\ \A v : v # Null => WriteField("user_agent", v) = write_user_agent(v)
    /\ \A v : WriteField("proxy", v) = write_proxy(v)
    /\ \A v : WriteField("i2p", v) = write_i2p(v)
    /\ \A v : v # Null => WriteField("encryption", v) = write_encryption(v)
    /\ \A v : v # Null => WriteField("peer_transports", v) = write_peer_transports(v)
    /\ \A v : WriteField("outgoing_port_range", v) = write_outgoing_port_range(v)
    /\ \A v : v # Null => WriteField("disk_io_cache", v) = write_disk_io_cache(v)
    /\ \A f \in DOMAIN EnumFields : \A v :
         v # Null => WriteField(f, v) = Staged(One(TheSetting(f), EnumFields[f][v]))
    /\ \A f \in {"outgoing_interfaces", "listen_interfaces", "dht_bootstrap_nodes"} :
         \A v : v # Null => WriteField(f, v) = write_interfaces(f, v)
<1> USE NotScalar, TheStructuredFields, TheEnumFields DEF WriteField, Nullable
<1>1. \A v : v # Null => WriteField("user_agent", v) = write_user_agent(v)
  OBVIOUS
<1>2. \A v : WriteField("proxy", v) = write_proxy(v)
  OBVIOUS
<1>3. \A v : WriteField("i2p", v) = write_i2p(v)
  OBVIOUS
<1>4. \A v : v # Null => WriteField("encryption", v) = write_encryption(v)
  OBVIOUS
<1>5. \A v : v # Null => WriteField("peer_transports", v) = write_peer_transports(v)
  OBVIOUS
<1>6. \A v : WriteField("outgoing_port_range", v) = write_outgoing_port_range(v)
  OBVIOUS
<1>7. \A v : v # Null => WriteField("disk_io_cache", v) = write_disk_io_cache(v)
  OBVIOUS
<1>8. \A f \in DOMAIN EnumFields : \A v :
        v # Null => WriteField(f, v) = Staged(One(TheSetting(f), EnumFields[f][v]))
  OBVIOUS
<1>9. \A f \in {"outgoing_interfaces", "listen_interfaces", "dht_bootstrap_nodes"} :
        \A v : v # Null => WriteField(f, v) = write_interfaces(f, v)
  OBVIOUS
<1> QED BY ONLY <1>1, <1>2, <1>3, <1>4, <1>5, <1>6, <1>7, <1>8, <1>9

\* What is accepted is exactly the settings behind the field.
LEMMA WriteDomain ==
    ASSUME NEW f \in Fields, NEW v, Accepted(f, v)
    PROVE  DOMAIN WriteField(f, v).set = backing(f)
<1>1. v = Null => f \in Nullable
  BY NullWrites DEF Accepted
<1>2. CASE f \in ScalarFields
  <2>1. v # Null
    BY <1>1, <1>2, Scalar, TheStructuredFields DEF Nullable
  <2>2. WriteField(f, v) = StagedIf(Accepts(Setters[f], v), One(f, Stored(f, v)))
    BY <2>1, <1>2, ScalarFieldIs DEF scalar_set
  <2>3. WriteField(f, v).set = One(f, Stored(f, v))
    BY <2>2 DEF Accepted, StagedIf, Staged, Rejected
  <2> QED BY <2>3, <1>2, Scalar DEF One
<1>3. CASE f = "user_agent"
  <2>1. WriteField(f, v) = write_user_agent(v)
    BY <1>1, <1>3, FieldIs DEF Nullable
  <2>2. DOMAIN write_user_agent(v).set = {"user_agent"}
    <3>1. v # "Unrecognized"
      <4>1. v = "Unrecognized" => write_user_agent(v) = Rejected
        BY DEF write_user_agent
      <4> QED BY <4>1, <2>1, StagedFacts DEF Accepted
    <3> QED BY <3>1 DEF write_user_agent, Staged, One
  <2> QED BY <2>1, <2>2, <1>3, Backing
<1>4. CASE f = "proxy"
  <2>1. WriteField(f, v) = write_proxy(v)
    BY <1>4, FieldIs
  <2>2. DOMAIN write_proxy(v).set = PROXY_BACKING
    <3>1. CASE v = Null
      BY <3>1 DEF write_proxy, NoProxy, ResetGroup, Staged
    <3>2. CASE v # Null
      BY <3>2, <2>1 DEF write_proxy, PROXY_BACKING, Accepted, Staged, StagedIf, Rejected
    <3> QED BY <3>1, <3>2
  <2> QED BY <2>1, <2>2, <1>4, Backing
<1>5. CASE f = "i2p"
  <2>1. WriteField(f, v) = write_i2p(v)
    BY <1>5, FieldIs
  <2>2. DOMAIN write_i2p(v).set = I2P_BACKING
    <3>1. CASE v = Null
      BY <3>1 DEF write_i2p, NoI2p, ResetGroup, Staged
    <3>2. CASE v # Null
      BY <3>2, <2>1 DEF write_i2p, I2P_BACKING, Accepted, Staged, StagedIf, Rejected
    <3> QED BY <3>1, <3>2
  <2> QED BY <2>1, <2>2, <1>5, Backing
<1>6. CASE f = "encryption"
  <2>1. WriteField(f, v) = write_encryption(v)
    BY <1>1, <1>6, FieldIs DEF Nullable
  <2>2. DOMAIN write_encryption(v).set = backing(f)
    BY <2>1, <1>6, Backing DEF write_encryption, Accepted, Staged, StagedIf, Rejected
  <2> QED BY <2>1, <2>2
<1>7. CASE f = "peer_transports"
  <2>1. WriteField(f, v) = write_peer_transports(v)
    BY <1>1, <1>7, FieldIs DEF Nullable
  <2>2. DOMAIN write_peer_transports(v).set = backing(f)
    BY <1>7, Backing DEF write_peer_transports, Staged
  <2> QED BY <2>1, <2>2
<1>8. CASE f = "outgoing_port_range"
  <2>1. WriteField(f, v) = write_outgoing_port_range(v)
    BY <1>8, FieldIs
  <2>2. DOMAIN write_outgoing_port_range(v).set = backing(f)
    BY <2>1, <1>8, Backing DEF write_outgoing_port_range, Accepted, Staged, StagedIf, Rejected
  <2> QED BY <2>1, <2>2
<1>9. CASE f = "disk_io_cache"
  <2>1. WriteField(f, v) = write_disk_io_cache(v)
    BY <1>1, <1>9, FieldIs DEF Nullable
  <2>2. DOMAIN write_disk_io_cache(v).set = backing(f)
    BY <1>9, Backing DEF write_disk_io_cache, Staged
  <2> QED BY <2>1, <2>2
<1>10. CASE f \in DOMAIN EnumFields
  <2>1. v # Null
    BY <1>1, <1>10, TheEnumFields DEF Nullable
  <2>2. WriteField(f, v) = Staged(One(TheSetting(f), EnumFields[f][v]))
    BY <2>1, <1>10, FieldIs
  <2> QED BY <2>2, <1>10, TheSettings, StagedFacts DEF One
<1>11. CASE f \in {"outgoing_interfaces", "listen_interfaces", "dht_bootstrap_nodes"}
  <2>1. v # Null
    BY <1>1, <1>11 DEF Nullable
  <2>2. WriteField(f, v) = write_interfaces(f, v)
    BY <2>1, <1>11, FieldIs
  <2>3. write_interfaces(f, v).set = One(f, Joined(v))
    BY <2>2 DEF write_interfaces, Accepted, Staged, StagedIf, Rejected
  <2> QED BY <2>2, <2>3, <1>11, Backing DEF One
<1> QED BY <1>2, <1>3, <1>4, <1>5, <1>6, <1>7, <1>8, <1>9, <1>10, <1>11,
           TheStructuredFields, TheEnumFields DEF Fields

-------------------------------------------------------------------------------
(***************************************************************************)
(* The merge of a valid input.                                             *)
(***************************************************************************)
LEMMA InputTyped ==
    ASSUME NEW i \in Inputs, NEW f \in DOMAIN i
    PROVE  f \in Fields /\ Typed(f, i[f])
BY InputsAssumption DEF Fields, Typed

\* The merge has, behind each field of the input, what the field staged.
LEMMA MergeAt ==
    ASSUME NEW i \in Inputs, Valid(i)
    PROVE  /\ DOMAIN Merge(i) = UNION {backing(f) : f \in DOMAIN i}
           /\ \A f \in DOMAIN i :
                Agrees(Merge(i), WriteField(f, i[f]).set, backing(f))
<1> DEFINE staged(f) == WriteField(f, i[f]).set
<1>1. ASSUME NEW f \in DOMAIN i
      PROVE  f \in Fields /\ Accepted(f, i[f]) /\ DOMAIN staged(f) = backing(f)
  BY InputTyped, WriteDomain DEF Valid, Accepted
<1>2. Merge(i) = [n \in UNION {DOMAIN staged(f) : f \in DOMAIN i} |->
                    LET f == CHOOSE g \in DOMAIN i : n \in DOMAIN staged(g)
                    IN staged(f)[n]]
  BY DEF Merge
<1>3. DOMAIN Merge(i) = UNION {DOMAIN staged(f) : f \in DOMAIN i}
  BY <1>2
<1> HIDE DEF staged
<1>4. DOMAIN Merge(i) = UNION {backing(f) : f \in DOMAIN i}
  BY <1>1, <1>3
<1>5. ASSUME NEW f \in DOMAIN i, NEW n \in backing(f)
      PROVE  Merge(i)[n] = staged(f)[n]
  <2> DEFINE g == CHOOSE h \in DOMAIN i : n \in DOMAIN staged(h)
  <2>1. n \in UNION {DOMAIN staged(h) : h \in DOMAIN i}
    BY <1>1
  <2>2. Merge(i)[n] = staged(g)[n]
    BY <1>2, <2>1
  <2>3. g \in DOMAIN i /\ n \in DOMAIN staged(g)
    BY <1>1
  <2>4. g = f
    <3> HIDE DEF g
    <3>1. n \in backing(g) \cap backing(f)
      BY <1>1, <2>3
    <3> QED BY <3>1, <1>1, <2>3, Disjoint
  <2> QED BY <2>2, <2>4
<1> QED BY <1>4, <1>5 DEF Agrees, staged

-------------------------------------------------------------------------------
(***************************************************************************)
(* The invariant is inductive.                                             *)
(***************************************************************************)
LEMMA BlacklistKnown == BLACKLIST \subseteq ALL_SETTINGS
BY DEF BLACKLIST, ALL_SETTINGS, str_settings, BoolSettings, bool_settings_1,
       bool_settings_2, bool_settings_3, IntSettings, int_settings_1,
       int_settings_2, int_settings_3, int_settings_4, int_settings_5

\* A fresh session, and one restored from a foreign file, satisfy the invariant.
LEMMA InitSettings == Init => SettingsInv
<1> SUFFICES ASSUME Init PROVE SettingsInv
  OBVIOUS
<1>1. PICK over \in Foreign \cup {<<>>} : /\ session = over ++ Defaults
                                        /\ foreign = DOMAIN over
  BY DEF Init
<1>2. ALL_SETTINGS \subseteq DOMAIN Defaults
  BY DEF Defaults, ++
<1>3. ALL_SETTINGS \subseteq DOMAIN session
  BY <1>1, <1>2 DEF ++
<1>4. ASSUME NEW n \in ALL_SETTINGS \ foreign
      PROVE  session[n] = Defaults[n]
  BY <1>1, <1>2 DEF ++
<1>5. \A f \in Fields : Settled(f)
  BY <1>4, Disjoint DEF Settled, Agrees
<1>6. BLACKLIST \subseteq ALL_SETTINGS
  BY BlacklistKnown
<1>7. Unexposed
  BY <1>4, <1>6 DEF Unexposed, Agrees
<1>8. last.input = <<>>
  BY DEF Init
<1>9. DOMAIN last.input = {}
  BY <1>8
<1>10. ForeignHolds
  <2>1. /\ DOMAIN over \subseteq DOMAIN session
        /\ \A n \in DOMAIN over : session[n] = over[n]
    BY <1>1 DEF ++
  <2>2. \A n \in DOMAIN over : Storable(n, over[n])
    BY ForeignAssumption
  <2> QED BY <1>1, <2>1, <2>2 DEF ForeignHolds
<1> QED BY <1>3, <1>5, <1>7, <1>9, <1>10 DEF SettingsInv, LastHolds

\* A change keeps it: what an accepted input writes is whole fields.
LEMMA NextSettings == SettingsInv /\ [Next]_vars => SettingsInv'
<1> SUFFICES ASSUME SettingsInv, [Next]_vars PROVE SettingsInv'
  OBVIOUS
<1>1. CASE UNCHANGED vars
  BY <1>1 DEF vars, SettingsInv, Settled, Written, Agrees, Unexposed, LastHolds,
              ForeignHolds
<1>2. ASSUME NEW i \in Inputs, ApplySettings(i)
      PROVE  SettingsInv'
  <2> DEFINE delta == IF Valid(i) THEN Merge(i) ELSE <<>>
  <2>1. /\ session' = delta ++ session
        /\ foreign' = foreign \ DOMAIN delta
        /\ last' = [input |-> i, ok |-> Valid(i)]
    BY <1>2 DEF ApplySettings
  <2>2. /\ DOMAIN session' = DOMAIN delta \cup DOMAIN session
        /\ \A n \in DOMAIN delta : session'[n] = delta[n]
        /\ \A n \in DOMAIN session \ DOMAIN delta : session'[n] = session[n]
    BY <2>1 DEF ++
  <2> HIDE DEF delta
  <2>3. (ALL_SETTINGS \subseteq DOMAIN session)'
    BY <2>2 DEF SettingsInv
  <2>4. ASSUME NEW names, names \subseteq ALL_SETTINGS, names \cap DOMAIN delta = {}
        PROVE  /\ \A n \in names : session'[n] = session[n]
               /\ names \cap foreign' = names \cap foreign
    BY <2>1, <2>2, <2>4 DEF SettingsInv
  <2>5. ASSUME NEW f \in Fields, backing(f) \cap DOMAIN delta = {}
        PROVE  Settled(f)'
    <3>1. /\ \A n \in backing(f) : session'[n] = session[n]
          /\ backing(f) \cap foreign' = backing(f) \cap foreign
      BY <2>4, <2>5, Disjoint
    <3>2. Settled(f)
      BY DEF SettingsInv
    <3>3. CASE Written(f, session)
      BY <3>1, <3>3 DEF Settled, Written, Agrees
    <3>4. CASE Agrees(session, Defaults, backing(f) \ foreign)
      BY <3>1, <3>4 DEF Settled, Agrees
    <3> QED BY <3>2, <3>3, <3>4 DEF Settled
  <2>8. ForeignHolds'
    <3>1. /\ foreign \subseteq DOMAIN session
          /\ \A n \in foreign : Storable(n, session[n])
      BY DEF SettingsInv, ForeignHolds
    <3>2. foreign' \subseteq DOMAIN session'
      BY <3>1, <2>1, <2>2
    <3>3. \A n \in foreign' : n \in foreign /\ session'[n] = session[n]
      BY <3>1, <2>1, <2>2
    <3> QED BY <3>1, <3>2, <3>3 DEF ForeignHolds, Storable
  <2>6. CASE ~Valid(i)
    <3>1. DOMAIN delta = {}
      BY <2>6 DEF delta
    <3>2. (\A f \in Fields : Settled(f))'
      BY <3>1, <2>5
    <3>3. Unexposed'
      BY <3>1, <2>1, <2>2, BlacklistKnown DEF Unexposed, Agrees, SettingsInv
    <3>4. LastHolds'
      BY <2>1, <2>6 DEF LastHolds
    <3> QED BY <2>3, <2>8, <3>2, <3>3, <3>4 DEF SettingsInv
  <2>7. CASE Valid(i)
    <3>1. /\ DOMAIN delta = UNION {backing(f) : f \in DOMAIN i}
          /\ \A f \in DOMAIN i : Agrees(delta, WriteField(f, i[f]).set, backing(f))
      BY <2>7, MergeAt DEF delta
    <3>2. ASSUME NEW f \in DOMAIN i
          PROVE  /\ f \in Fields /\ Accepted(f, i[f])
                 /\ Agrees(session', WriteField(f, i[f]).set, backing(f))
      <4>1. f \in Fields /\ Accepted(f, i[f])
        BY <2>7, InputTyped DEF Valid, Accepted
      <4>2. backing(f) \subseteq DOMAIN delta
        BY <3>1
      <4> QED BY <4>1, <4>2, <3>1, <2>2 DEF Agrees
    <3>3. ASSUME NEW f \in Fields
          PROVE  Settled(f)'
      <4>1. CASE f \in DOMAIN i
        <5>1. Written(f, session')
          BY <3>2, <4>1 DEF Written
        <5> QED BY <5>1 DEF Settled, Written
      <4>2. CASE f \notin DOMAIN i
        <5>1. backing(f) \cap DOMAIN delta = {}
          BY <4>2, <3>1, <3>2, Disjoint
        <5> QED BY <5>1, <2>5
      <4> QED BY <4>1, <4>2
    <3>4. Unexposed'
      <4>1. BLACKLIST \cap DOMAIN delta = {}
        BY <3>1, <3>2, Disjoint
      <4>2. /\ \A n \in BLACKLIST : session'[n] = session[n]
            /\ BLACKLIST \cap foreign' = BLACKLIST \cap foreign
        BY <4>1, <2>4, BlacklistKnown
      <4> QED BY <4>2 DEF Unexposed, Agrees, SettingsInv
    <3>5. LastHolds'
      BY <3>2, <2>1 DEF LastHolds, Agrees
    <3> QED BY <2>3, <2>8, <3>3, <3>4, <3>5 DEF SettingsInv
  <2> QED BY <2>6, <2>7
<1> QED BY <1>1, <1>2 DEF Next

\* SettingsInv is an invariant of the specification.
THEOREM SettingsInvariant == Spec => []SettingsInv
<1> QED BY InitSettings, NextSettings, PTL DEF Spec

-------------------------------------------------------------------------------
(***************************************************************************)
(* What an accepted value reads as.                                        *)
(***************************************************************************)
LEMMA ReadIs ==
    /\ \A s : ReadField("user_agent", s) = read_user_agent(s)
    /\ \A s : ReadField("proxy", s) = read_proxy(s)
    /\ \A s : ReadField("i2p", s) = read_i2p(s)
    /\ \A s : ReadField("encryption", s) = read_encryption(s)
    /\ \A s : ReadField("peer_transports", s) = read_peer_transports(s)
    /\ \A s : ReadField("outgoing_port_range", s) = read_outgoing_port_range(s)
    /\ \A s : ReadField("disk_io_cache", s) = read_disk_io_cache(s)
    /\ \A f \in DOMAIN EnumFields : \A s :
         ReadField(f, s) = FromLt(EnumFields[f], s[TheSetting(f)])
    /\ \A f \in {"outgoing_interfaces", "listen_interfaces", "dht_bootstrap_nodes"} :
         \A s : ReadField(f, s) = Parsed(s[f])
<1> USE NotScalar, TheStructuredFields, TheEnumFields DEF ReadField
<1>1. \A s : ReadField("user_agent", s) = read_user_agent(s)
  OBVIOUS
<1>2. \A s : ReadField("proxy", s) = read_proxy(s)
  OBVIOUS
<1>3. \A s : ReadField("i2p", s) = read_i2p(s)
  OBVIOUS
<1>4. \A s : ReadField("encryption", s) = read_encryption(s)
  OBVIOUS
<1>5. \A s : ReadField("peer_transports", s) = read_peer_transports(s)
  OBVIOUS
<1>6. \A s : ReadField("outgoing_port_range", s) = read_outgoing_port_range(s)
  OBVIOUS
<1>7. \A s : ReadField("disk_io_cache", s) = read_disk_io_cache(s)
  OBVIOUS
<1>8. \A f \in DOMAIN EnumFields : \A s :
        ReadField(f, s) = FromLt(EnumFields[f], s[TheSetting(f)])
  OBVIOUS
<1>9. \A f \in {"outgoing_interfaces", "listen_interfaces", "dht_bootstrap_nodes"} :
        \A s : ReadField(f, s) = Parsed(s[f])
  OBVIOUS
<1> QED BY ONLY <1>1, <1>2, <1>3, <1>4, <1>5, <1>6, <1>7, <1>8, <1>9

\* The values the type of each structured field admits.
LEMMA SchemaIs ==
    /\ Schema("user_agent") = UserAgents
    /\ Schema("proxy") = ProxySettings
    /\ Schema("i2p") = I2pSettings
    /\ Schema("encryption") = EncryptionSettings
    /\ Schema("peer_transports") = PeerTransports
    /\ Schema("outgoing_port_range") = PortRange
    /\ Schema("disk_io_cache") = DiskIoCache
    /\ \A f \in DOMAIN EnumFields : Schema(f) = DOMAIN EnumFields[f]
    /\ \A f \in {"outgoing_interfaces", "listen_interfaces", "dht_bootstrap_nodes"} :
         Schema(f) = Seq(ListEntry)
<1> USE NotScalar, TheStructuredFields, TheEnumFields DEF Schema
<1>1. Schema("user_agent") = UserAgents
  OBVIOUS
<1>2. Schema("proxy") = ProxySettings
  OBVIOUS
<1>3. Schema("i2p") = I2pSettings
  OBVIOUS
<1>4. Schema("encryption") = EncryptionSettings
  OBVIOUS
<1>5. Schema("peer_transports") = PeerTransports
  OBVIOUS
<1>6. Schema("outgoing_port_range") = PortRange
  OBVIOUS
<1>7. Schema("disk_io_cache") = DiskIoCache
  OBVIOUS
<1>8. \A f \in DOMAIN EnumFields : Schema(f) = DOMAIN EnumFields[f]
  OBVIOUS
<1>9. \A f \in {"outgoing_interfaces", "listen_interfaces", "dht_bootstrap_nodes"} :
        Schema(f) = Seq(ListEntry)
  OBVIOUS
<1> QED BY ONLY <1>1, <1>2, <1>3, <1>4, <1>5, <1>6, <1>7, <1>8, <1>9

\* What an accepted scalar is.
LEMMA ScalarAccepted ==
    ASSUME NEW f \in ScalarFields, NEW v, Accepted(f, v)
    PROVE  /\ v \in ScalarSchema(Scalars[f])
           /\ Accepts(Setters[f], v)
           /\ WriteField(f, v).set = One(f, Stored(f, v))
<1>1. v # Null
  BY NullWrites, Scalar, TheStructuredFields DEF Nullable, Accepted, Fields
<1>2. WriteField(f, v) = StagedIf(Accepts(Setters[f], v), One(f, Stored(f, v)))
  BY <1>1, ScalarFieldIs DEF scalar_set
<1>3. Accepts(Setters[f], v)
  BY <1>2 DEF Accepted, StagedIf, Staged, Rejected
<1>4. WriteField(f, v).set = One(f, Stored(f, v))
  BY <1>2 DEF Accepted, StagedIf, Staged, Rejected
<1>5. v \in ScalarSchema(Scalars[f])
  BY <1>1, ScalarFieldIs DEF Accepted, Typed
<1> QED BY <1>3, <1>4, <1>5

\* The integer types hold integers.
LEMMA I32Schema ==
    \A ty \in {"i32", "i32 checked", "i32 dscp"} : ScalarSchema(ty) \subseteq Int
<1>1. \A ty \in {"i32", "i32 checked", "i32 dscp"} : ScalarSchema(ty) = MinI32 .. MaxI32
  BY DEF ScalarSchema
<1>2. MinI32 .. MaxI32 \subseteq Int
  OBVIOUS
<1> QED BY <1>1, <1>2

\* What lies between two code points is one.
LEMMA Between ==
    ASSUME NEW v \in Int, NEW lo \in 0 .. 63, NEW hi \in 0 .. 63, lo <= v, v <= hi
    PROVE  v \in 0 .. 63
OBVIOUS

\* The traffic class that is accepted is one of the 64 code points.
LEMMA CodePointAccepted ==
    ASSUME NEW f \in ScalarFields, NEW v, Accepted(f, v), Scalars[f] = "i32 dscp"
    PROVE  v \in 0 .. 63
<1> DEFINE d == Setters[f]
<1>1. TypeFits("i32 dscp", d)
  BY Agreement
<1>2. d.kind = "Int" /\ d.lo \in 0 .. 63 /\ d.hi \in 0 .. 63
  BY <1>1 DEF TypeFits
<1>3. Accepts(d, v) /\ v \in ScalarSchema("i32 dscp")
  BY ScalarAccepted
<1> HIDE DEF d
<1>4. v \in Int
  BY <1>3, I32Schema
<1>5. d.lo <= v /\ v <= d.hi
  BY <1>2, <1>3 DEF Accepts
<1> QED BY <1>2, <1>4, <1>5, Between

\* An accepted scalar reads as it was sent.
LEMMA ReadScalar ==
    ASSUME NEW f \in ScalarFields, NEW v, NEW s, Accepted(f, v),
           Agrees(s, WriteField(f, v).set, backing(f))
    PROVE  ReadField(f, s) = v
<1> DEFINE ty == Scalars[f]
           d == Setters[f]
<1>1. s[f] = Stored(f, v)
  <2>1. WriteField(f, v).set[f] = Stored(f, v)
    BY ScalarAccepted, OneAt
  <2> QED BY <2>1, Scalar DEF Agrees
<1>2. ReadField(f, s) = scalar_get(f, s)
  BY ScalarFieldIs
<1>3. v \in ScalarSchema(ty) /\ Accepts(d, v)
  BY ScalarAccepted
<1>4. TypeFits(ty, d)
  BY Agreement
<1> HIDE DEF d
<1>5. CASE ty = "bool"
  <2>1. v \in BOOLEAN
    BY <1>3, <1>5 DEF ScalarSchema
  <2>2. s[f] = v /\ v # Default
    BY <2>1, <1>1, <1>5, MarkersAssumption DEF Stored
  <2> QED BY <2>2, <1>2, <1>5 DEF scalar_get
<1>6. CASE ty \in {"String", "String checked"}
  <2>1. v \in Nat
    BY <1>3, <1>6 DEF ScalarSchema
  <2>2. s[f] = v
    BY <1>1, <1>6 DEF Stored
  <2>3. v # Default
    BY <2>1, MarkersAssumption
  <2> QED BY <2>2, <2>3, <1>2, <1>6 DEF scalar_get
<1>7. CASE ty \in {"i32", "i32 checked"}
  <2>1. v \in Int
    BY <1>3, <1>7, I32Schema
  <2>2. s[f] = v
    BY <1>1, <1>7 DEF Stored
  <2>3. v # Default
    BY <2>1, MarkersAssumption
  <2> QED BY <2>2, <2>3, <1>2, <1>7 DEF scalar_get
<1>8. CASE ty = "u16"
  <2>1. v \in U16s
    BY <1>3, <1>8 DEF ScalarSchema
  <2>2. v \in Int /\ Clamp(v, MaxU16) = v
    BY <2>1 DEF U16s, Clamp, MaxU16
  <2>3. s[f] = v /\ v # Default
    BY <2>2, <1>1, <1>8, MarkersAssumption DEF Stored
  <2> QED BY <2>2, <2>3, <1>2, <1>8 DEF scalar_get
<1>9. CASE ty = "u8"
  <2>1. v \in U8s
    BY <1>3, <1>9 DEF ScalarSchema
  <2>2. v \in Int /\ Clamp(v, MaxU8) = v
    BY <2>1 DEF U8s, Clamp, MaxU8
  <2>3. s[f] = v /\ v # Default
    BY <2>2, <1>1, <1>9, MarkersAssumption DEF Stored
  <2> QED BY <2>2, <2>3, <1>2, <1>9 DEF scalar_get
<1>10. CASE ty = "i32 dscp"
  <2>1. v \in 0 .. 63
    BY <1>10, CodePointAccepted
  <2>2. s[f] = TrafficClass(v)
    BY <1>1, <1>10 DEF Stored
  <2>3. TrafficClass(v) # Default
    BY <2>1, MarkersAssumption DEF TrafficClass
  <2>4. scalar_get(f, s) = CodePoint(TrafficClass(v))
    BY <2>2, <2>3, <1>10 DEF scalar_get
  <2>5. CodePoint(TrafficClass(v)) = v
    BY <2>1 DEF CodePoint, TrafficClass
  <2> QED BY <2>4, <2>5, <1>2
<1> QED BY <1>4, <1>5, <1>6, <1>7, <1>8, <1>9, <1>10 DEF TypeFits

\* The defaults of the settings behind each structured field.
LEMMA DefaultsAre ==
    /\ \A n \in PROXY_BACKING : Defaults[n] = ProxyDefaults[n]
    /\ \A n \in I2P_BACKING : Defaults[n] = I2pDefaults[n]
    /\ \A n \in DOMAIN PeerDefaults : Defaults[n] = PeerDefaults[n]
<1> DEFINE Tables == {ProxyDefaults, I2pDefaults, PeerDefaults}
<1>1. /\ DOMAIN ProxyDefaults = PROXY_BACKING
      /\ DOMAIN I2pDefaults = I2P_BACKING
  BY DEF ProxyDefaults, I2pDefaults
<1>2. /\ PROXY_BACKING \cap I2P_BACKING = {}
      /\ PROXY_BACKING \cap DOMAIN PeerDefaults = {}
      /\ I2P_BACKING \cap DOMAIN PeerDefaults = {}
  BY DEF PROXY_BACKING, I2P_BACKING, PeerDefaults
<1>3. ASSUME NEW t \in Tables, NEW n \in DOMAIN t
      PROVE  n \in DOMAIN StructuredDefaults /\ StructuredDefaults[n] = t[n]
  <2>1. \A u \in Tables : n \in DOMAIN u => u = t
    BY <1>1, <1>2, <1>3
  <2>2. n \in DOMAIN Assembled(Tables) /\ Assembled(Tables)[n] = t[n]
    BY <2>1, AssembledAt
  <2> QED BY <2>2 DEF StructuredDefaults
<1>4. \A n \in DOMAIN StructuredDefaults : Defaults[n] = StructuredDefaults[n]
  BY DEF Defaults, ++
<1> QED BY <1>1, <1>3, <1>4

\* There is no proxy by default.
LEMMA DefaultProxy ==
    /\ Defaults["proxy_type"] = "None" /\ Defaults["proxy_hostname"] = NoHost
    /\ \A n \in {"proxy_port", "proxy_username", "proxy_password"} : Defaults[n] = 0
<1>1. \A n \in PROXY_BACKING : Defaults[n] = ProxyDefaults[n]
  BY DefaultsAre
<1>2. /\ ProxyDefaults["proxy_type"] = "None" /\ ProxyDefaults["proxy_hostname"] = NoHost
      /\ ProxyDefaults["proxy_port"] = 0 /\ ProxyDefaults["proxy_username"] = 0
      /\ ProxyDefaults["proxy_password"] = 0
  BY DEF ProxyDefaults, PROXY_BACKING
<1> QED BY <1>1, <1>2 DEF PROXY_BACKING

\* There is no i2p router by default.
LEMMA DefaultI2p == Defaults["i2p_hostname"] = NoHost
<1>1. Defaults["i2p_hostname"] = I2pDefaults["i2p_hostname"]
  BY DefaultsAre DEF I2P_BACKING
<1>2. I2pDefaults["i2p_hostname"] = NoHost
  BY DEF I2pDefaults, I2P_BACKING
<1> QED BY <1>1, <1>2

\* A value other than null that is accepted is one of the field's type.
LEMMA AcceptedTyped ==
    ASSUME NEW f \in Fields, NEW v, Accepted(f, v)
    PROVE  /\ v = Null => f \in Nullable
           /\ v # Null => v \in Schema(f)
BY NullWrites DEF Accepted, Typed

\* An accepted identity reads as it was sent.
LEMMA ReadAgent ==
    ASSUME NEW v, NEW s, Accepted("user_agent", v),
           Agrees(s, WriteField("user_agent", v).set, backing("user_agent"))
    PROVE  ReadField("user_agent", s) = v
<1>1. v # Null /\ v \in UserAgents
  BY AcceptedTyped, SchemaIs, TheStructuredFields DEF Fields, Nullable
<1>2. WriteField("user_agent", v) = write_user_agent(v)
  BY <1>1, FieldIs
<1>3. v # "Unrecognized"
  <2>1. v = "Unrecognized" => write_user_agent(v) = Rejected
    BY DEF write_user_agent
  <2> QED BY <2>1, <1>2, StagedFacts DEF Accepted
<1>4. v \in DOMAIN AgentNames
  BY <1>1, <1>3 DEF UserAgents, AgentNames
<1>5. s["user_agent"].name = AgentNames[v]
  <2>1. write_user_agent(v).set["user_agent"].name = AgentNames[v]
    BY <1>3 DEF write_user_agent, UserAgentString, Staged, One
  <2>2. s["user_agent"] = write_user_agent(v).set["user_agent"]
    BY <1>2, Backing DEF Agrees
  <2> QED BY <2>1, <2>2
<1>6. \A a \in DOMAIN AgentNames : AgentNames[a] = AgentNames[v] => a = v
  <2>1. DOMAIN AgentNames = {"None", "Libtorrent", "Rsbtd", "QBittorrent"}
    BY DEF AgentNames
  <2>2. /\ AgentNames["None"] = "" /\ AgentNames["Libtorrent"] = "libtorrent"
        /\ AgentNames["Rsbtd"] = "rsbtd" /\ AgentNames["QBittorrent"] = "qBittorrent"
    BY DEF AgentNames
  <2> QED BY <2>1, <2>2, <1>4
<1>7. read_user_agent(s) = v
  <2> DEFINE known == {a \in DOMAIN AgentNames : AgentNames[a] = s.user_agent.name}
  <2>1. known = {v}
    BY <1>4, <1>5, <1>6
  <2>2. read_user_agent(s) = IF known = {} THEN "Unrecognized" ELSE CHOOSE a \in known : TRUE
    BY DEF read_user_agent
  <2> HIDE DEF known
  <2> QED BY <2>1, <2>2
<1> QED BY <1>7, ReadIs

\* An accepted proxy reads as it was sent, without the brackets of its host.
LEMMA ReadProxy ==
    ASSUME NEW v, NEW s, Accepted("proxy", v),
           Agrees(s, WriteField("proxy", v).set, backing("proxy"))
    PROVE  ReadField("proxy", s) = Canonical("proxy", v)
<1>1. WriteField("proxy", v) = write_proxy(v)
  BY FieldIs
<1>2. \A n \in PROXY_BACKING : s[n] = write_proxy(v).set[n]
  BY <1>1, Backing DEF Agrees
<1>3. CASE v = Null
  <2>1. write_proxy(v).set = NoProxy
    BY <1>3, StagedFacts DEF write_proxy
  <2>2. s.proxy_type = "None"
    BY <2>1, <1>2, DefaultProxy DEF NoProxy, ResetGroup, PROXY_BACKING
  <2>3. read_proxy(s) = Null
    BY <2>2 DEF read_proxy
  <2> QED BY <2>3, <1>3, ReadIs DEF Canonical
<1>4. CASE v # Null
  <2>1. v \in ProxySettings
    BY <1>4, AcceptedTyped, SchemaIs, TheStructuredFields DEF Fields
  <2>2. write_proxy(v).set =
          [proxy_type |-> v.protocol, proxy_hostname |-> Stripped(v.hostname),
           proxy_port |-> v.port, proxy_username |-> v.username,
           proxy_password |-> v.password, proxy_hostnames |-> v.resolve_hostnames,
           proxy_peer_connections |-> v.peer_connections,
           proxy_tracker_connections |-> v.tracker_connections,
           socks5_udp_send_local_ep |-> v.socks5_udp_send_local_endpoint,
           proxy_send_host_in_connect |-> v.send_hostname_in_connect]
    BY <1>1, <1>4 DEF write_proxy, Accepted, StagedIf, Staged, Rejected
  <2>3. /\ s.proxy_type = v.protocol /\ s.proxy_hostname = Stripped(v.hostname)
        /\ s.proxy_port = v.port /\ s.proxy_username = v.username
        /\ s.proxy_password = v.password /\ s.proxy_hostnames = v.resolve_hostnames
        /\ s.proxy_peer_connections = v.peer_connections
        /\ s.proxy_tracker_connections = v.tracker_connections
        /\ s.socks5_udp_send_local_ep = v.socks5_udp_send_local_endpoint
        /\ s.proxy_send_host_in_connect = v.send_hostname_in_connect
    BY <2>2, <1>2 DEF PROXY_BACKING
  <2>4. v.protocol \in ProxyTypes /\ v.protocol # "None" /\ IsPort(v.port)
    BY <2>1 DEF ProxySettings, IsPort, U16s
  <2>5. read_proxy(s) =
          [protocol |-> v.protocol, hostname |-> Stripped(v.hostname),
           port |-> v.port, username |-> v.username,
           password |-> v.password, resolve_hostnames |-> v.resolve_hostnames,
           peer_connections |-> v.peer_connections,
           tracker_connections |-> v.tracker_connections,
           socks5_udp_send_local_endpoint |-> v.socks5_udp_send_local_endpoint,
           send_hostname_in_connect |-> v.send_hostname_in_connect]
    BY <2>3, <2>4 DEF read_proxy
  <2>6. [v EXCEPT !.hostname = Stripped(v.hostname)] =
          [protocol |-> v.protocol, hostname |-> Stripped(v.hostname),
           port |-> v.port, username |-> v.username,
           password |-> v.password, resolve_hostnames |-> v.resolve_hostnames,
           peer_connections |-> v.peer_connections,
           tracker_connections |-> v.tracker_connections,
           socks5_udp_send_local_endpoint |-> v.socks5_udp_send_local_endpoint,
           send_hostname_in_connect |-> v.send_hostname_in_connect]
    BY <2>1 DEF ProxySettings
  <2> QED BY <2>5, <2>6, <1>4, ReadIs DEF Canonical
<1> QED BY <1>3, <1>4

\* In a table where one name has a value the value reads as that name.
LEMMA NameRead ==
    ASSUME NEW table, NEW a \in DOMAIN table,
           \A b \in DOMAIN table : table[b] = table[a] => b = a
    PROVE  FromLt(table, table[a]) = a
<1> DEFINE names == {b \in DOMAIN table : table[b] = table[a]}
<1>1. names = {a}
  OBVIOUS
<1>2. FromLt(table, table[a]) = IF names = {} THEN Unreadable ELSE CHOOSE b \in names : TRUE
  BY DEF FromLt
<1> HIDE DEF names
<1> QED BY <1>1, <1>2

\* So does an accepted i2p router.
LEMMA ReadI2p ==
    ASSUME NEW v, NEW s, Accepted("i2p", v),
           Agrees(s, WriteField("i2p", v).set, backing("i2p"))
    PROVE  ReadField("i2p", s) = Canonical("i2p", v)
<1>1. WriteField("i2p", v) = write_i2p(v)
  BY FieldIs
<1>2. \A n \in I2P_BACKING : s[n] = write_i2p(v).set[n]
  BY <1>1, Backing DEF Agrees
<1>3. CASE v = Null
  <2>1. write_i2p(v).set = NoI2p
    BY <1>3, StagedFacts DEF write_i2p
  <2>2. s.i2p_hostname = NoHost
    BY <2>1, <1>2, DefaultI2p DEF NoI2p, ResetGroup, I2P_BACKING
  <2>3. read_i2p(s) = Null
    BY <2>2 DEF read_i2p
  <2> QED BY <2>3, <1>3, ReadIs DEF Canonical
<1>4. CASE v # Null
  <2>1. v \in I2pSettings
    BY <1>4, AcceptedTyped, SchemaIs, TheStructuredFields DEF Fields
  <2> DEFINE set ==
          [i2p_hostname |-> Stripped(v.hostname), i2p_port |-> v.port,
           allow_i2p_mixed |-> v.allow_mixed,
           i2p_inbound_quantity |-> v.inbound.tunnels,
           i2p_inbound_length |-> v.inbound.hops,
           i2p_inbound_length_variance |-> v.inbound.hop_variance,
           i2p_outbound_quantity |-> v.outbound.tunnels,
           i2p_outbound_length |-> v.outbound.hops,
           i2p_outbound_length_variance |-> v.outbound.hop_variance]
         fits == /\ v.port # 0 /\ bare_host_token(Stripped(v.hostname))
                 /\ TunnelFits(v.inbound) /\ TunnelFits(v.outbound)
  <2>2. write_i2p(v) = StagedIf(fits, set)
    BY <1>4 DEF write_i2p
  <2>3. fits /\ write_i2p(v).set = set
    <3> HIDE DEF fits, set
    <3> QED BY <1>1, <2>2 DEF Accepted, StagedIf, Staged, Rejected
  <2>4. /\ s.i2p_hostname = Stripped(v.hostname) /\ s.i2p_port = v.port
        /\ s.allow_i2p_mixed = v.allow_mixed
        /\ s.i2p_inbound_quantity = v.inbound.tunnels
        /\ s.i2p_inbound_length = v.inbound.hops
        /\ s.i2p_inbound_length_variance = v.inbound.hop_variance
        /\ s.i2p_outbound_quantity = v.outbound.tunnels
        /\ s.i2p_outbound_length = v.outbound.hops
        /\ s.i2p_outbound_length_variance = v.outbound.hop_variance
    BY <2>3, <1>2 DEF I2P_BACKING
  <2>5. Stripped(v.hostname) # NoHost /\ v.port # 0
    BY <2>3 DEF bare_host_token
  <2>6. /\ v.inbound \in I2pTunnel /\ v.outbound \in I2pTunnel
        /\ v.port \in U16s
    BY <2>1 DEF I2pSettings
  <2>7. /\ IsPort(v.port)
        /\ v.inbound.tunnels \in 0 .. MaxU8 /\ v.outbound.tunnels \in 0 .. MaxU8
        /\ v.inbound.hops \in 0 .. MaxU8 /\ v.outbound.hops \in 0 .. MaxU8
        /\ v.inbound.hop_variance \in -128 .. 127
        /\ v.outbound.hop_variance \in -128 .. 127
    BY <2>6 DEF I2pTunnel, U8s, U16s, IsPort
  <2>8. read_i2p(s) =
          [hostname |-> s.i2p_hostname, port |-> s.i2p_port,
           allow_mixed |-> s.allow_i2p_mixed,
           inbound |-> [tunnels |-> s.i2p_inbound_quantity,
                        hops |-> s.i2p_inbound_length,
                        hop_variance |-> s.i2p_inbound_length_variance],
           outbound |-> [tunnels |-> s.i2p_outbound_quantity,
                         hops |-> s.i2p_outbound_length,
                         hop_variance |-> s.i2p_outbound_length_variance]]
    BY <2>4, <2>5, <2>7 DEF read_i2p
  <2>9. /\ v.inbound = [tunnels |-> v.inbound.tunnels, hops |-> v.inbound.hops,
                        hop_variance |-> v.inbound.hop_variance]
        /\ v.outbound = [tunnels |-> v.outbound.tunnels, hops |-> v.outbound.hops,
                         hop_variance |-> v.outbound.hop_variance]
    BY <2>6 DEF I2pTunnel
  <2>10. [v EXCEPT !.hostname = Stripped(v.hostname)] =
           [hostname |-> Stripped(v.hostname), port |-> v.port,
            allow_mixed |-> v.allow_mixed, inbound |-> v.inbound,
            outbound |-> v.outbound]
    BY <2>1 DEF I2pSettings
  <2> QED BY <2>4, <2>8, <2>9, <2>10, <1>4, ReadIs DEF Canonical
<1> QED BY <1>3, <1>4

\* The levels and the policies are one to one.
LEMMA LevelOf ==
    ASSUME NEW m \in SUBSET {"plaintext", "rc4"}, m # {}
    PROVE  \E l \in EncLevels : Levels[l] = m /\ l = CHOOSE k \in EncLevels : Levels[k] = m
<1>1. /\ Levels["PePlaintext"] = {"plaintext"} /\ Levels["PeRc4"] = {"rc4"}
      /\ Levels["PeBoth"] = {"plaintext", "rc4"}
  BY DEF Levels
<1>2. m \in {{"plaintext"}, {"rc4"}, {"plaintext", "rc4"}}
  OBVIOUS
<1>3. \E k \in EncLevels : Levels[k] = m
  BY <1>1, <1>2 DEF EncLevels
<1> QED BY <1>3

\* A policy is stored as one and reads as its name.
LEMMA PolicyRead ==
    ASSUME NEW p \in DOMAIN Policies
    PROVE  Policies[p] \in EncPolicies /\ FromLt(Policies, Policies[p]) = p
<1>1. DOMAIN Policies = {"Forced", "Enabled", "Disabled"}
  BY DEF Policies
<1>2. /\ Policies["Forced"] = "PeForced" /\ Policies["Enabled"] = "PeEnabled"
      /\ Policies["Disabled"] = "PeDisabled"
  BY DEF Policies
<1>3. \A a \in DOMAIN Policies : Policies[a] = Policies[p] => a = p
  BY <1>1, <1>2
<1>4. Policies[p] \in EncPolicies
  BY <1>1, <1>2 DEF EncPolicies
<1> QED BY <1>3, <1>4, NameRead

\* Every policy has a name.
LEMMA PolicyNamed ==
    ASSUME NEW p \in EncPolicies
    PROVE  FromLt(Policies, p) \in DOMAIN Policies
<1>1. \E a \in DOMAIN Policies : Policies[a] = p
  BY DEF EncPolicies, Policies
<1>2. PICK a \in DOMAIN Policies : Policies[a] = p
  BY <1>1
<1> QED BY <1>2, PolicyRead

\* An accepted encryption policy reads as it was sent.
LEMMA ReadEncryption ==
    ASSUME NEW v, NEW s, Accepted("encryption", v),
           Agrees(s, WriteField("encryption", v).set, backing("encryption"))
    PROVE  ReadField("encryption", s) = v
<1>1. v # Null /\ v \in EncryptionSettings
  BY AcceptedTyped, SchemaIs, TheStructuredFields DEF Fields, Nullable
<1>2. WriteField("encryption", v) = write_encryption(v)
  BY <1>1, FieldIs
<1> DEFINE set ==
        [in_enc_policy |-> Policies[v.incoming],
         out_enc_policy |-> Policies[v.outgoing],
         allowed_enc_level |-> IF v.methods = {} THEN "PeBoth"
                               ELSE CHOOSE l \in EncLevels : Levels[l] = v.methods,
         prefer_rc4 |-> v.prefer_rc4,
         announce_crypto_support |-> v.announce_support]
       fits == v.methods # {} /\ (v.prefer_rc4 => Cardinality(v.methods) = 2)
<1>3. write_encryption(v) = StagedIf(fits, set)
  BY DEF write_encryption
<1>4. fits /\ write_encryption(v).set = set
  <2> HIDE DEF fits, set
  <2> QED BY <1>2, <1>3 DEF Accepted, StagedIf, Staged, Rejected
<1>5. /\ s.in_enc_policy = Policies[v.incoming] /\ s.out_enc_policy = Policies[v.outgoing]
      /\ s.allowed_enc_level = CHOOSE l \in EncLevels : Levels[l] = v.methods
      /\ s.prefer_rc4 = v.prefer_rc4 /\ s.announce_crypto_support = v.announce_support
  BY <1>2, <1>4, Backing DEF Agrees
<1>6. /\ v.incoming \in DOMAIN Policies /\ v.outgoing \in DOMAIN Policies
      /\ v.methods \in SUBSET {"plaintext", "rc4"}
  BY <1>1 DEF EncryptionSettings
<1>7. s.allowed_enc_level \in EncLevels /\ Levels[s.allowed_enc_level] = v.methods
  BY <1>4, <1>5, <1>6, LevelOf
<1>8. read_encryption(s) =
        [incoming |-> v.incoming, outgoing |-> v.outgoing, methods |-> v.methods,
         prefer_rc4 |-> v.prefer_rc4, announce_support |-> v.announce_support]
  BY <1>5, <1>6, <1>7, PolicyRead DEF read_encryption
<1>9. v = [incoming |-> v.incoming, outgoing |-> v.outgoing, methods |-> v.methods,
           prefer_rc4 |-> v.prefer_rc4, announce_support |-> v.announce_support]
  BY <1>1 DEF EncryptionSettings
<1> QED BY <1>8, <1>9, ReadIs

\* Accepted transports read as they were sent.
LEMMA ReadTransports ==
    ASSUME NEW v, NEW s, Accepted("peer_transports", v),
           Agrees(s, WriteField("peer_transports", v).set, backing("peer_transports"))
    PROVE  ReadField("peer_transports", s) = v
<1>1. v # Null /\ v \in PeerTransports
  BY AcceptedTyped, SchemaIs, TheStructuredFields DEF Fields, Nullable
<1>2. WriteField("peer_transports", v) = write_peer_transports(v)
  BY <1>1, FieldIs
<1>3. /\ s.enable_incoming_tcp = v.tcp.incoming /\ s.enable_outgoing_tcp = v.tcp.outgoing
      /\ s.enable_incoming_utp = v.utp.incoming /\ s.enable_outgoing_utp = v.utp.outgoing
  BY <1>2, Backing DEF Agrees, write_peer_transports, Staged
<1>4. read_peer_transports(s) =
        [tcp |-> [incoming |-> v.tcp.incoming, outgoing |-> v.tcp.outgoing],
         utp |-> [incoming |-> v.utp.incoming, outgoing |-> v.utp.outgoing]]
  BY <1>3 DEF read_peer_transports
<1>5. v = [tcp |-> [incoming |-> v.tcp.incoming, outgoing |-> v.tcp.outgoing],
           utp |-> [incoming |-> v.utp.incoming, outgoing |-> v.utp.outgoing]]
  BY <1>1 DEF PeerTransports, TransportDirections
<1> QED BY <1>4, <1>5, ReadIs

\* A range of ports is determined by its first and its length.
LEMMA PortOrder ==
    ASSUME NEW a \in Int, NEW b \in Int, NEW top \in Int, 1 <= a, a <= b, b <= top
    PROVE  /\ ~(b - a < 0) /\ ~(a <= 0) /\ ~(a > top)
           /\ ~(b - a > top - a) /\ a + (b - a) = b
OBVIOUS

\* The numerals are used here only; from here on they go by their names.
LEMMA Limits ==
    /\ MinI32 \in Int /\ MaxI32 \in Int /\ MaxU16 \in Int
    /\ MinI32 <= -7 /\ 16 <= MaxI32 /\ 7656 <= MaxU16 /\ MaxU16 <= MaxI32
BY SMT DEF MinI32, MaxI32, MaxU16

\* A u16 is a number up to MaxU16,
LEMMA U16Bounds ==
    ASSUME NEW a \in U16s
    PROVE  a \in Int /\ 0 <= a /\ a <= MaxU16 /\ (a # 0 => 1 <= a)
BY Limits, SMT DEF U16s

\* and every such number is one.
LEMMA U16Is ==
    ASSUME NEW a \in Int, 0 <= a, a <= MaxU16
    PROVE  a \in U16s
BY Limits, SMT DEF U16s

\* A stored range of ports reads as its first and its last.
LEMMA PortsRead ==
    ASSUME NEW a \in U16s, NEW b \in U16s, a # 0, a <= b, NEW s,
           s.outgoing_port = a, s.num_outgoing_ports = b - a
    PROVE  read_outgoing_port_range(s) = [first |-> a, last |-> b]
<1>1. a \in Int /\ b \in Int /\ 1 <= a /\ b <= MaxU16
  BY U16Bounds
<1>2. MaxU16 \in Int
  BY Limits
<1> QED BY <1>1, <1>2, PortOrder DEF read_outgoing_port_range

\* Any stored range reads as one of ports, as none or not at all.
LEMMA RangeTyped ==
    ASSUME NEW s, s.outgoing_port \in Int, s.num_outgoing_ports \in Int,
           read_outgoing_port_range(s) # Unreadable
    PROVE  read_outgoing_port_range(s) = Null \/ read_outgoing_port_range(s) \in PortRange
<1> DEFINE a == s.outgoing_port
           n == IF s.num_outgoing_ports < 0 THEN 0 ELSE s.num_outgoing_ports
           b == IF n > MaxU16 - a THEN MaxU16 ELSE a + n
<1>1. CASE a <= 0
  BY <1>1 DEF read_outgoing_port_range
<1>2. CASE ~(a <= 0)
  <2>1. a <= MaxU16 /\ read_outgoing_port_range(s) = [first |-> a, last |-> b]
    BY <1>2, Limits DEF read_outgoing_port_range
  <2>2. a \in U16s
    BY <1>2, <2>1, U16Is
  <2>3. b \in Int /\ 0 <= b /\ b <= MaxU16
    BY <1>2, <2>1, Limits
  <2>4. b \in U16s
    BY <2>3, U16Is
  <2> HIDE DEF a, b
  <2> QED BY <2>1, <2>2, <2>4 DEF PortRange
<1> QED BY <1>1, <1>2

\* An accepted range reads as it was sent.
LEMMA ReadPortRange ==
    ASSUME NEW v, NEW s, Accepted("outgoing_port_range", v),
           Agrees(s, WriteField("outgoing_port_range", v).set,
                  backing("outgoing_port_range"))
    PROVE  ReadField("outgoing_port_range", s) = v
<1>1. WriteField("outgoing_port_range", v) = write_outgoing_port_range(v)
  BY FieldIs
<1>2. \A n \in {"outgoing_port", "num_outgoing_ports"} :
        s[n] = write_outgoing_port_range(v).set[n]
  BY <1>1, Backing DEF Agrees
<1>3. CASE v = Null
  <2>1. s.outgoing_port = 0
    BY <1>2, <1>3 DEF write_outgoing_port_range, Staged
  <2>2. read_outgoing_port_range(s) = Null
    BY <2>1 DEF read_outgoing_port_range, MaxU16
  <2> QED BY <2>2, <1>3, ReadIs
<1>4. CASE v # Null
  <2>1. v \in PortRange
    BY <1>4, AcceptedTyped, SchemaIs, TheStructuredFields DEF Fields
  <2>2. v.first \in U16s /\ v.last \in U16s /\ v = [first |-> v.first, last |-> v.last]
    BY <2>1 DEF PortRange
  <2> DEFINE set == [outgoing_port |-> v.first, num_outgoing_ports |-> v.last - v.first]
         fits == v.first # 0 /\ v.first <= v.last
  <2>3. write_outgoing_port_range(v) = StagedIf(fits, set)
    BY <1>4 DEF write_outgoing_port_range
  <2>4. fits /\ write_outgoing_port_range(v).set = set
    <3> HIDE DEF fits, set
    <3> QED BY <1>1, <2>3 DEF Accepted, StagedIf, Staged, Rejected
  <2>5. s.outgoing_port = v.first /\ s.num_outgoing_ports = v.last - v.first
    BY <2>4, <1>2
  <2>6. read_outgoing_port_range(s) = [first |-> v.first, last |-> v.last]
    BY <2>2, <2>4, <2>5, PortsRead
  <2> QED BY <2>2, <2>6, ReadIs
<1> QED BY <1>3, <1>4

\* Accepted modes of the disk cache read as they were sent.
LEMMA ReadDisk ==
    ASSUME NEW v, NEW s, Accepted("disk_io_cache", v),
           Agrees(s, WriteField("disk_io_cache", v).set, backing("disk_io_cache"))
    PROVE  ReadField("disk_io_cache", s) = v
<1>1. v # Null /\ v \in DiskIoCache
  BY AcceptedTyped, SchemaIs, TheStructuredFields DEF Fields, Nullable
<1>2. WriteField("disk_io_cache", v) = write_disk_io_cache(v)
  BY <1>1, FieldIs
<1>3. s.disk_io_read_mode = v.read /\ s.disk_io_write_mode = v.write
  BY <1>2, Backing DEF Agrees, write_disk_io_cache, Staged
<1>4. /\ v.read \in IoBufferModes /\ v.read # "WriteThrough"
      /\ v.write \in IoBufferModes /\ v = [read |-> v.read, write |-> v.write]
  BY <1>1 DEF DiskIoCache
<1>5. read_disk_io_cache(s) = [read |-> v.read, write |-> v.write]
  BY <1>3, <1>4 DEF read_disk_io_cache
<1> QED BY <1>4, <1>5, ReadIs

\* Each enumeration is stored under names of its own.
LEMMA EnumNames ==
    ASSUME NEW f \in DOMAIN EnumFields, NEW a \in DOMAIN EnumFields[f],
           NEW b \in DOMAIN EnumFields[f], EnumFields[f][a] = EnumFields[f][b]
    PROVE  a = b
<1>1. CASE f = "mmap_write_mode"
  <2>1. EnumFields[f] = MmapWriteModeNames
    BY <1>1 DEF EnumFields
  <2>2. /\ DOMAIN MmapWriteModeNames = {"AlwaysPwrite", "AlwaysMmapWrite", "AutoMmapWrite"}
        /\ \A n \in DOMAIN MmapWriteModeNames : MmapWriteModeNames[n] = n
    <3>1. DOMAIN MmapWriteModeNames = {"AlwaysPwrite", "AlwaysMmapWrite", "AutoMmapWrite"}
      BY DEF MmapWriteModeNames
    <3>2. /\ MmapWriteModeNames["AlwaysPwrite"] = "AlwaysPwrite"
          /\ MmapWriteModeNames["AlwaysMmapWrite"] = "AlwaysMmapWrite"
          /\ MmapWriteModeNames["AutoMmapWrite"] = "AutoMmapWrite"
      BY DEF MmapWriteModeNames
    <3> QED BY <3>1, <3>2
  <2> QED BY <2>1, <2>2
<1>2. CASE f = "suggest_mode"
  <2>1. EnumFields[f] = SuggestModeNames
    BY <1>2 DEF EnumFields
  <2>2. /\ DOMAIN SuggestModeNames = {"None", "ReadCache"}
        /\ SuggestModeNames["None"] # SuggestModeNames["ReadCache"]
    BY DEF SuggestModeNames
  <2> QED BY <2>1, <2>2
<1>3. CASE f = "choking_algorithm"
  <2>1. EnumFields[f] = ChokingAlgorithmNames
    BY <1>3 DEF EnumFields
  <2>2. /\ DOMAIN ChokingAlgorithmNames = {"FixedSlots", "RateBased"}
        /\ ChokingAlgorithmNames["FixedSlots"] # ChokingAlgorithmNames["RateBased"]
    BY DEF ChokingAlgorithmNames
  <2> QED BY <2>1, <2>2
<1>4. CASE f = "seed_choking_algorithm"
  <2>1. EnumFields[f] = SeedChokingAlgorithmNames
    BY <1>4 DEF EnumFields
  <2>2. DOMAIN SeedChokingAlgorithmNames = {"RoundRobin", "FastestUpload", "AntiLeech"}
    BY DEF SeedChokingAlgorithmNames
  <2>3. /\ SeedChokingAlgorithmNames["RoundRobin"] = "RoundRobin"
        /\ SeedChokingAlgorithmNames["FastestUpload"] = "FastestUpload"
        /\ SeedChokingAlgorithmNames["AntiLeech"] = "AntiLeech"
    BY DEF SeedChokingAlgorithmNames
  <2> QED BY <2>1, <2>2, <2>3
<1>5. CASE f = "mixed_mode_algorithm"
  <2>1. EnumFields[f] = MixedModeAlgorithmNames
    BY <1>5 DEF EnumFields
  <2>2. /\ DOMAIN MixedModeAlgorithmNames = {"PreferTcp", "PeerProportional"}
        /\ MixedModeAlgorithmNames["PreferTcp"] # MixedModeAlgorithmNames["PeerProportional"]
    BY DEF MixedModeAlgorithmNames
  <2> QED BY <2>1, <2>2
<1> QED BY <1>1, <1>2, <1>3, <1>4, <1>5, TheEnumFields

\* An accepted enumeration is a name of its table.
LEMMA EnumAccepted ==
    ASSUME NEW f \in DOMAIN EnumFields, NEW v, Accepted(f, v)
    PROVE  /\ v # Null /\ v \in DOMAIN EnumFields[f]
           /\ WriteField(f, v) = Staged(One(TheSetting(f), EnumFields[f][v]))
<1>1. f \in Fields /\ f \notin Nullable
  BY TheEnumFields, TheStructuredFields DEF Fields, Nullable
<1>2. v # Null /\ v \in Schema(f)
  BY <1>1, AcceptedTyped
<1> QED BY <1>2, SchemaIs, FieldIs

\* An accepted enumeration reads as it was sent.
LEMMA ReadEnum ==
    ASSUME NEW f \in DOMAIN EnumFields, NEW v, NEW s, Accepted(f, v),
           Agrees(s, WriteField(f, v).set, backing(f))
    PROVE  ReadField(f, s) = v
<1> DEFINE n == TheSetting(f)
           table == EnumFields[f]
<1>1. v \in DOMAIN table /\ WriteField(f, v) = Staged(One(n, table[v]))
  BY EnumAccepted
<1>2. n \in backing(f)
  BY TheSettings
<1>3. s[n] = table[v]
  <2>1. WriteField(f, v).set = One(n, table[v])
    BY <1>1, StagedFacts
  <2>2. s[n] = One(n, table[v])[n]
    BY <1>2, <2>1 DEF Agrees
  <2> QED BY <2>2, OneAt
<1>4. FromLt(table, table[v]) = v
  <2>1. \A b \in DOMAIN table : table[b] = table[v] => b = v
    BY <1>1, EnumNames
  <2> QED BY <1>1, <2>1, NameRead
<1> QED BY <1>3, <1>4, ReadIs

\* An accepted list has no host with a comma: joining and splitting keep it.
LEMMA ListAccepted ==
    ASSUME NEW f \in {"outgoing_interfaces", "listen_interfaces", "dht_bootstrap_nodes"},
           NEW v, Accepted(f, v)
    PROVE  /\ v # Null /\ v \in Seq(ListEntry)
           /\ WriteField(f, v).set = One(f, v)
<1>1. f \in Fields /\ f \notin Nullable
  BY TheStructuredFields DEF Fields, Nullable
<1>2. v # Null /\ v \in Seq(ListEntry)
  BY <1>1, AcceptedTyped, SchemaIs
<1>3. WriteField(f, v) = write_interfaces(f, v)
  BY <1>2, FieldIs
<1> DEFINE fits == \A i \in DOMAIN v : EntryFits(f, v[i])
<1>4. write_interfaces(f, v) = StagedIf(fits, One(f, Joined(v)))
  BY DEF write_interfaces
<1>5. fits /\ write_interfaces(f, v).set = One(f, Joined(v))
  <2> HIDE DEF fits
  <2> QED BY <1>3, <1>4 DEF Accepted, StagedIf, Staged, Rejected
<1>6. \A i \in DOMAIN v : v[i].host.body # "comma"
  BY <1>5 DEF EntryFits, bare_host_token, host_token
<1>7. Joined(v) = v
  BY <1>6 DEF Joined
<1> QED BY <1>2, <1>3, <1>5, <1>7

\* An accepted list reads as it was sent: none of its hosts has a comma.
LEMMA ReadList ==
    ASSUME NEW f \in {"outgoing_interfaces", "listen_interfaces", "dht_bootstrap_nodes"},
           NEW v, NEW s, Accepted(f, v), Agrees(s, WriteField(f, v).set, backing(f))
    PROVE  ReadField(f, s) = v
<1>1. v \in Seq(ListEntry) /\ WriteField(f, v).set = One(f, v)
  BY ListAccepted
<1>2. f \in backing(f)
  BY Backing
<1>3. s[f] = v
  <2>1. s[f] = One(f, v)[f]
    BY <1>1, <1>2 DEF Agrees
  <2> QED BY <2>1, OneAt
<1>4. \A i \in DOMAIN v : v[i].port # NoPort
  <2>1. \A i \in DOMAIN v : v[i] \in ListEntry
    BY <1>1
  <2>2. \A e \in ListEntry : e.port \in U16s
    BY DEF ListEntry
  <2> QED BY <2>1, <2>2 DEF U16s, NoPort
<1>5. Parsed(v) = v
  BY <1>4 DEF Parsed
<1> QED BY <1>3, <1>5, ReadIs

\* Whatever is accepted reads back in its canonical form.
THEOREM ReadWritten ==
    ASSUME NEW f \in Fields, NEW v, NEW s, Accepted(f, v),
           Agrees(s, WriteField(f, v).set, backing(f))
    PROVE  ReadField(f, s) = Canonical(f, v)
<1>1. f \notin {"proxy", "i2p"} => Canonical(f, v) = v
  BY DEF Canonical
<1>2. CASE f \in ScalarFields
  <2>1. f \notin {"proxy", "i2p"}
    BY <1>2, NotScalar, TheStructuredFields
  <2> QED BY <2>1, <1>1, <1>2, ReadScalar
<1>3. CASE f = "user_agent"
  BY <1>1, <1>3, ReadAgent
<1>4. CASE f = "proxy"
  BY <1>4, ReadProxy
<1>5. CASE f = "i2p"
  BY <1>5, ReadI2p
<1>6. CASE f = "encryption"
  BY <1>1, <1>6, ReadEncryption
<1>7. CASE f = "peer_transports"
  BY <1>1, <1>7, ReadTransports
<1>8. CASE f = "outgoing_port_range"
  BY <1>1, <1>8, ReadPortRange
<1>9. CASE f = "disk_io_cache"
  BY <1>1, <1>9, ReadDisk
<1>10. CASE f \in DOMAIN EnumFields
  BY <1>1, <1>10, ReadEnum, TheEnumFields
<1>11. CASE f \in {"outgoing_interfaces", "listen_interfaces", "dht_bootstrap_nodes"}
  BY <1>1, <1>11, ReadList
<1> QED BY <1>2, <1>3, <1>4, <1>5, <1>6, <1>7, <1>8, <1>9, <1>10, <1>11,
           TheStructuredFields, TheEnumFields DEF Fields

\* What was accepted last reads back: RoundTrip is an invariant, for every
\* field of the interface and every value of its type.
THEOREM RoundTripInvariant == Spec => []RoundTrip
<1>1. SettingsInv => RoundTrip
  BY ReadWritten DEF SettingsInv, LastHolds, RoundTrip
<1> QED BY <1>1, SettingsInvariant, PTL

-------------------------------------------------------------------------------
(***************************************************************************)
(* What a field reads as can be written back.                              *)
(***************************************************************************)
LEMMA StrippedTwice ==
    ASSUME NEW h \in Hosts
    PROVE  /\ Stripped(h) \in Hosts
           /\ Stripped(Stripped(h)) = Stripped(h)
           /\ ProxyHost(h) => ProxyHost(Stripped(h))
<1>1. h = [open |-> h.open, body |-> h.body, close |-> h.close]
      /\ h.open \in BOOLEAN /\ h.body \in Bodies /\ h.close \in BOOLEAN
  BY DEF Hosts
<1>2. CASE h.open /\ h.close
  <2>1. Stripped(h) = [open |-> FALSE, body |-> h.body, close |-> FALSE]
    BY <1>2 DEF Stripped, Plain, Host
  <2> DEFINE p == Stripped(h)
  <2>2. p.open = FALSE /\ p.close = FALSE /\ p.body = h.body
    BY <2>1
  <2>3. p \in Hosts
    BY <2>1, <1>1 DEF Hosts
  <2>4. Stripped(p) = p
    <3> HIDE DEF p
    <3> QED BY <2>2 DEF Stripped
  <2>5. ProxyHost(h) => ProxyHost(p)
    <3>1. ProxyHost(h) => h.body # "stray" /\ bare_host_token(p)
      BY DEF ProxyHost
    <3> HIDE DEF p
    <3> QED BY <3>1, <2>2, <2>4 DEF ProxyHost
  <2> QED BY <2>3, <2>4, <2>5
<1>3. CASE ~(h.open /\ h.close)
  <2>1. Stripped(h) = h
    BY <1>3 DEF Stripped
  <2> QED BY <2>1
<1> QED BY <1>2, <1>3

\* A proxy without brackets is written as the one with them,
LEMMA RewrittenProxy ==
    ASSUME NEW v \in ProxySettings, v # Null, Accepted("proxy", v)
    PROVE  /\ Canonical("proxy", v) # Null
           /\ write_proxy(Canonical("proxy", v)) = write_proxy(v)
<1> DEFINE c == [v EXCEPT !.hostname = Stripped(v.hostname)]
           fits(p) == Expressible(p) /\ ProxyHost(p.hostname) /\ credentials(p)
           set(p) ==
             [proxy_type |-> p.protocol, proxy_hostname |-> Stripped(p.hostname),
              proxy_port |-> p.port, proxy_username |-> p.username,
              proxy_password |-> p.password, proxy_hostnames |-> p.resolve_hostnames,
              proxy_peer_connections |-> p.peer_connections,
              proxy_tracker_connections |-> p.tracker_connections,
              socks5_udp_send_local_ep |-> p.socks5_udp_send_local_endpoint,
              proxy_send_host_in_connect |-> p.send_hostname_in_connect]
<1>1. Canonical("proxy", v) = c
  BY DEF Canonical
<1>2. /\ c.protocol = v.protocol /\ c.hostname = Stripped(v.hostname)
      /\ c.port = v.port /\ c.username = v.username /\ c.password = v.password
      /\ c.resolve_hostnames = v.resolve_hostnames
      /\ c.peer_connections = v.peer_connections
      /\ c.tracker_connections = v.tracker_connections
      /\ c.socks5_udp_send_local_endpoint = v.socks5_udp_send_local_endpoint
      /\ c.send_hostname_in_connect = v.send_hostname_in_connect
  BY DEF ProxySettings
<1>3. v.hostname \in Hosts
  BY DEF ProxySettings
<1>4. c \in ProxySettings
  BY <1>3, StrippedTwice DEF ProxySettings
<1>5. c # Null
  BY <1>4, MarkersAssumption, SchemaIs, TheStructuredFields
<1>6. \A p : p # Null => write_proxy(p) = StagedIf(fits(p), set(p))
  BY DEF write_proxy
<1> HIDE DEF c
<1>7. set(c) = set(v)
  BY <1>2, <1>3, StrippedTwice
<1>8. fits(v)
  <2>1. write_proxy(v) = StagedIf(fits(v), set(v)) /\ write_proxy(v).ok
    BY <1>6, FieldIs DEF Accepted
  <2> HIDE DEF fits, set
  <2> QED BY <2>1 DEF StagedIf, Rejected
<1>9. fits(c)
  <2>1. Expressible(c)
    BY <1>2, <1>8 DEF Expressible, WantsAuth, Socks5, Http
  <2>2. credentials(c)
    BY <1>2, <1>8 DEF credentials, WantsAuth
  <2>3. ProxyHost(c.hostname)
    BY <1>2, <1>3, <1>8, StrippedTwice
  <2> QED BY <2>1, <2>2, <2>3
<1>10. write_proxy(c) = write_proxy(v)
  <2> HIDE DEF fits, set
  <2>1. write_proxy(c) = StagedIf(fits(c), set(c)) /\ write_proxy(v) = StagedIf(fits(v), set(v))
    BY <1>5, <1>6
  <2> QED BY <2>1, <1>7, <1>8, <1>9 DEF StagedIf
<1> QED BY <1>1, <1>5, <1>10

\* and so is an i2p router.
LEMMA RewrittenI2p ==
    ASSUME NEW v \in I2pSettings, v # Null, Accepted("i2p", v)
    PROVE  /\ Canonical("i2p", v) # Null
           /\ write_i2p(Canonical("i2p", v)) = write_i2p(v)
<1> DEFINE c == [v EXCEPT !.hostname = Stripped(v.hostname)]
           fits(p) == /\ p.port # 0 /\ bare_host_token(Stripped(p.hostname))
                      /\ TunnelFits(p.inbound) /\ TunnelFits(p.outbound)
           set(p) ==
             [i2p_hostname |-> Stripped(p.hostname), i2p_port |-> p.port,
              allow_i2p_mixed |-> p.allow_mixed,
              i2p_inbound_quantity |-> p.inbound.tunnels,
              i2p_inbound_length |-> p.inbound.hops,
              i2p_inbound_length_variance |-> p.inbound.hop_variance,
              i2p_outbound_quantity |-> p.outbound.tunnels,
              i2p_outbound_length |-> p.outbound.hops,
              i2p_outbound_length_variance |-> p.outbound.hop_variance]
<1>1. Canonical("i2p", v) = c
  BY DEF Canonical
<1>2. /\ c.hostname = Stripped(v.hostname) /\ c.port = v.port
      /\ c.allow_mixed = v.allow_mixed
      /\ c.inbound = v.inbound /\ c.outbound = v.outbound
  BY DEF I2pSettings
<1>3. v.hostname \in Hosts
  BY DEF I2pSettings
<1>4. c \in I2pSettings
  BY <1>3, StrippedTwice DEF I2pSettings
<1>5. c # Null
  BY <1>4, MarkersAssumption, SchemaIs, TheStructuredFields
<1>6. \A p : p # Null => write_i2p(p) = StagedIf(fits(p), set(p))
  BY DEF write_i2p
<1> HIDE DEF c
<1>7. set(c) = set(v)
  BY <1>2, <1>3, StrippedTwice
<1>8. fits(c) <=> fits(v)
  BY <1>2, <1>3, StrippedTwice
<1>9. write_i2p(c) = write_i2p(v)
  <2> HIDE DEF fits, set
  <2>1. write_i2p(c) = StagedIf(fits(c), set(c)) /\ write_i2p(v) = StagedIf(fits(v), set(v))
    BY <1>5, <1>6
  <2> QED BY <2>1, <1>7, <1>8 DEF StagedIf
<1> QED BY <1>1, <1>5, <1>9

\* The canonical form of an accepted value stages the same settings.
LEMMA Rewritten ==
    ASSUME NEW f \in StructuredFields, NEW v, Accepted(f, v)
    PROVE  WriteField(f, Canonical(f, v)) = WriteField(f, v)
<1>1. CASE f \notin {"proxy", "i2p"} \/ v = Null
  BY <1>1 DEF Canonical
<1>2. CASE f = "proxy" /\ v # Null
  <2>1. v \in ProxySettings
    BY <1>2, AcceptedTyped, SchemaIs, TheStructuredFields DEF Fields
  <2> QED BY <2>1, <1>2, RewrittenProxy, FieldIs
<1>3. CASE f = "i2p" /\ v # Null
  <2>1. v \in I2pSettings
    BY <1>3, AcceptedTyped, SchemaIs, TheStructuredFields DEF Fields
  <2> QED BY <2>1, <1>3, RewrittenI2p, FieldIs
<1> QED BY <1>1, <1>2, <1>3

-------------------------------------------------------------------------------
(***************************************************************************)
(* The defaults are as an accepted value writes them.                      *)
(***************************************************************************)
LEMMA PeerDefaultsAre ==
    ASSUME NEW n \in DOMAIN PeerDefaults
    PROVE  Defaults[n] = PeerDefaults[n]
BY DefaultsAre

\* An enumeration starts at the value a name of its table stands for.
LEMMA DefaultEnum ==
    ASSUME NEW f \in DOMAIN EnumFields
    PROVE  \E a \in DOMAIN EnumFields[f] : Defaults[TheSetting(f)] = EnumFields[f][a]
<1>1. CASE f = "mmap_write_mode"
  <2>1. TheSetting(f) = "disk_write_mode"
    BY <1>1, TheSettings
  <2>2. Defaults["disk_write_mode"] = "AutoMmapWrite"
    BY PeerDefaultsAre DEF PeerDefaults
  <2>3. EnumFields[f] = MmapWriteModeNames
    BY <1>1 DEF EnumFields
  <2>4. /\ "AutoMmapWrite" \in DOMAIN MmapWriteModeNames
        /\ MmapWriteModeNames["AutoMmapWrite"] = "AutoMmapWrite"
    BY DEF MmapWriteModeNames
  <2> QED BY <2>1, <2>2, <2>3, <2>4
<1>2. CASE f = "suggest_mode"
  <2>1. TheSetting(f) = "suggest_mode"
    BY <1>2, TheSettings
  <2>2. Defaults["suggest_mode"] = "NoPieceSuggestions"
    BY PeerDefaultsAre DEF PeerDefaults
  <2>3. EnumFields[f] = SuggestModeNames
    BY <1>2 DEF EnumFields
  <2>4. "None" \in DOMAIN SuggestModeNames /\ SuggestModeNames["None"] = "NoPieceSuggestions"
    BY DEF SuggestModeNames
  <2> QED BY <2>1, <2>2, <2>3, <2>4
<1>3. CASE f = "choking_algorithm"
  <2>1. TheSetting(f) = "choking_algorithm"
    BY <1>3, TheSettings
  <2>2. Defaults["choking_algorithm"] = "FixedSlotsChoker"
    BY PeerDefaultsAre DEF PeerDefaults
  <2>3. EnumFields[f] = ChokingAlgorithmNames
    BY <1>3 DEF EnumFields
  <2>4. /\ "FixedSlots" \in DOMAIN ChokingAlgorithmNames
        /\ ChokingAlgorithmNames["FixedSlots"] = "FixedSlotsChoker"
    BY DEF ChokingAlgorithmNames
  <2> QED BY <2>1, <2>2, <2>3, <2>4
<1>4. CASE f = "seed_choking_algorithm"
  <2>1. TheSetting(f) = "seed_choking_algorithm"
    BY <1>4, TheSettings
  <2>2. Defaults["seed_choking_algorithm"] = "RoundRobin"
    BY PeerDefaultsAre DEF PeerDefaults
  <2>3. EnumFields[f] = SeedChokingAlgorithmNames
    BY <1>4 DEF EnumFields
  <2>4. /\ "RoundRobin" \in DOMAIN SeedChokingAlgorithmNames
        /\ SeedChokingAlgorithmNames["RoundRobin"] = "RoundRobin"
    BY DEF SeedChokingAlgorithmNames
  <2> QED BY <2>1, <2>2, <2>3, <2>4
<1>5. CASE f = "mixed_mode_algorithm"
  <2>1. TheSetting(f) = "mixed_mode_algorithm"
    BY <1>5, TheSettings
  <2>2. Defaults["mixed_mode_algorithm"] = "PeerProportional"
    BY PeerDefaultsAre DEF PeerDefaults
  <2>3. EnumFields[f] = MixedModeAlgorithmNames
    BY <1>5 DEF EnumFields
  <2>4. /\ "PeerProportional" \in DOMAIN MixedModeAlgorithmNames
        /\ MixedModeAlgorithmNames["PeerProportional"] = "PeerProportional"
    BY DEF MixedModeAlgorithmNames
  <2> QED BY <2>1, <2>2, <2>3, <2>4
<1> QED BY <1>1, <1>2, <1>3, <1>4, <1>5, TheEnumFields

\* A value of the type of a field is not null.
LEMMA NotNull ==
    ASSUME NEW f \in StructuredFields, NEW v \in Schema(f)
    PROVE  v # Null /\ Typed(f, v)
BY MarkersAssumption DEF Typed

\* Each field's defaults are what an accepted value of it would write.
LEMMA DefaultsWritten ==
    ASSUME NEW f \in StructuredFields
    PROVE  Written(f, Defaults)
<1>1. CASE f = "user_agent"
  <2>1. "Libtorrent" \in Schema(f)
    BY <1>1, SchemaIs DEF UserAgents
  <2>2. WriteField(f, "Libtorrent") = write_user_agent("Libtorrent")
    BY <2>1, <1>1, NotNull, FieldIs
  <2>3. /\ write_user_agent("Libtorrent").ok
        /\ write_user_agent("Libtorrent").set["user_agent"] =
             UserAgentString("libtorrent", "current")
    <3>1. write_user_agent("Libtorrent") =
            Staged(One("user_agent", UserAgentString("libtorrent", "current")))
      BY DEF write_user_agent, AgentNames
    <3> QED BY <3>1, StagedFacts, OneAt
  <2>4. Defaults["user_agent"] = UserAgentString("libtorrent", "current")
    BY PeerDefaultsAre DEF PeerDefaults
  <2> QED BY <2>1, <2>2, <2>3, <2>4, <1>1, NotNull, Backing DEF Written, Accepted, Agrees
<1>2. CASE f = "proxy"
  <2>1. WriteField(f, Null).ok /\ WriteField(f, Null).set = NoProxy
    BY <1>2, FieldIs, StagedFacts DEF write_proxy
  <2> QED BY <2>1, <1>2, Backing DEF Written, Accepted, Typed, Agrees, NoProxy, ResetGroup
<1>3. CASE f = "i2p"
  <2>1. WriteField(f, Null).ok /\ WriteField(f, Null).set = NoI2p
    BY <1>3, FieldIs, StagedFacts DEF write_i2p
  <2> QED BY <2>1, <1>3, Backing DEF Written, Accepted, Typed, Agrees, NoI2p, ResetGroup
<1>4. CASE f = "encryption"
  <2> DEFINE v == [incoming |-> "Enabled", outgoing |-> "Enabled",
                   methods |-> {"plaintext", "rc4"}, prefer_rc4 |-> FALSE,
                   announce_support |-> TRUE]
  <2>1. v \in EncryptionSettings
    BY DEF EncryptionSettings, Policies
  <2>2. Typed(f, v) /\ WriteField(f, v) = write_encryption(v)
    BY <2>1, <1>4, NotNull, SchemaIs, FieldIs
  <2>3. (CHOOSE l \in EncLevels : Levels[l] = {"plaintext", "rc4"}) = "PeBoth"
    <3>1. /\ Levels["PePlaintext"] = {"plaintext"} /\ Levels["PeRc4"] = {"rc4"}
          /\ Levels["PeBoth"] = {"plaintext", "rc4"}
      BY DEF Levels
    <3>2. \A l \in EncLevels : Levels[l] = {"plaintext", "rc4"} <=> l = "PeBoth"
      BY <3>1 DEF EncLevels
    <3>3. "PeBoth" \in EncLevels
      BY DEF EncLevels
    <3> QED BY <3>2, <3>3
  <2>4. Policies["Enabled"] = "PeEnabled"
    BY DEF Policies
  <2>5. write_encryption(v) =
          Staged([in_enc_policy |-> "PeEnabled", out_enc_policy |-> "PeEnabled",
                  allowed_enc_level |-> "PeBoth", prefer_rc4 |-> FALSE,
                  announce_crypto_support |-> TRUE])
    BY <2>3, <2>4 DEF write_encryption, StagedIf
  <2>6. /\ Defaults["in_enc_policy"] = "PeEnabled" /\ Defaults["out_enc_policy"] = "PeEnabled"
        /\ Defaults["allowed_enc_level"] = "PeBoth" /\ Defaults["prefer_rc4"] = FALSE
        /\ Defaults["announce_crypto_support"] = TRUE
    BY PeerDefaultsAre DEF PeerDefaults
  <2> HIDE DEF v
  <2>7. Accepted(f, v)
    BY <2>2, <2>5, StagedFacts DEF Accepted
  <2> DEFINE set == WriteField(f, v).set
  <2>8. /\ set["in_enc_policy"] = "PeEnabled" /\ set["out_enc_policy"] = "PeEnabled"
        /\ set["allowed_enc_level"] = "PeBoth" /\ set["prefer_rc4"] = FALSE
        /\ set["announce_crypto_support"] = TRUE
    BY <2>2, <2>5, StagedFacts
  <2>9. Agrees(Defaults, set, backing(f))
    <3> HIDE DEF set
    <3> QED BY <2>6, <2>8, <1>4, Backing, Zenon DEF Agrees
  <2> QED BY <2>7, <2>9 DEF Written
<1>5. CASE f = "peer_transports"
  <2> DEFINE on == [incoming |-> TRUE, outgoing |-> TRUE]
             v == [tcp |-> on, utp |-> on]
  <2>1. v \in PeerTransports
    BY DEF PeerTransports, TransportDirections
  <2>2. Typed(f, v) /\ WriteField(f, v) = write_peer_transports(v)
    BY <2>1, <1>5, NotNull, SchemaIs, FieldIs
  <2>3. write_peer_transports(v) =
          Staged([enable_incoming_tcp |-> TRUE, enable_outgoing_tcp |-> TRUE,
                  enable_incoming_utp |-> TRUE, enable_outgoing_utp |-> TRUE])
    BY DEF write_peer_transports
  <2>4. /\ Defaults["enable_incoming_tcp"] = TRUE /\ Defaults["enable_outgoing_tcp"] = TRUE
        /\ Defaults["enable_incoming_utp"] = TRUE /\ Defaults["enable_outgoing_utp"] = TRUE
    BY PeerDefaultsAre DEF PeerDefaults
  <2> HIDE DEF v
  <2>5. Accepted(f, v)
    BY <2>2, <2>3, StagedFacts DEF Accepted
  <2> DEFINE set == WriteField(f, v).set
  <2>6. /\ set["enable_incoming_tcp"] = TRUE /\ set["enable_outgoing_tcp"] = TRUE
        /\ set["enable_incoming_utp"] = TRUE /\ set["enable_outgoing_utp"] = TRUE
    BY <2>2, <2>3, StagedFacts
  <2>7. Agrees(Defaults, set, backing(f))
    <3> HIDE DEF set
    <3> QED BY <2>4, <2>6, <1>5, Backing, Zenon DEF Agrees
  <2> QED BY <2>5, <2>7 DEF Written
<1>6. CASE f = "outgoing_port_range"
  <2>1. write_outgoing_port_range(Null) =
          Staged([outgoing_port |-> 0, num_outgoing_ports |-> 0])
    BY DEF write_outgoing_port_range
  <2>2. /\ WriteField(f, Null).ok
        /\ WriteField(f, Null).set = [outgoing_port |-> 0, num_outgoing_ports |-> 0]
    BY <2>1, <1>6, FieldIs, StagedFacts
  <2>3. Defaults["outgoing_port"] = 0 /\ Defaults["num_outgoing_ports"] = 0
    BY PeerDefaultsAre DEF PeerDefaults
  <2> QED BY <2>2, <2>3, <1>6, Backing DEF Written, Accepted, Typed, Agrees
<1>7. CASE f = "disk_io_cache"
  <2> DEFINE v == [read |-> "EnableOsCache", write |-> "EnableOsCache"]
  <2>1. v \in DiskIoCache
    BY DEF DiskIoCache, IoBufferModes
  <2>2. Typed(f, v) /\ WriteField(f, v) = write_disk_io_cache(v)
    BY <2>1, <1>7, NotNull, SchemaIs, FieldIs
  <2>3. write_disk_io_cache(v) =
          Staged([disk_io_read_mode |-> "EnableOsCache",
                  disk_io_write_mode |-> "EnableOsCache"])
    BY DEF write_disk_io_cache
  <2>4. /\ Defaults["disk_io_read_mode"] = "EnableOsCache"
        /\ Defaults["disk_io_write_mode"] = "EnableOsCache"
    BY PeerDefaultsAre DEF PeerDefaults
  <2> HIDE DEF v
  <2>5. Accepted(f, v)
    BY <2>2, <2>3, StagedFacts DEF Accepted
  <2>6. WriteField(f, v).set =
          [disk_io_read_mode |-> "EnableOsCache", disk_io_write_mode |-> "EnableOsCache"]
    BY <2>2, <2>3, StagedFacts
  <2>7. Agrees(Defaults, WriteField(f, v).set, backing(f))
    BY <2>4, <2>6, <1>7, Backing DEF Agrees
  <2> QED BY <2>5, <2>7 DEF Written
<1>8. CASE f \in DOMAIN EnumFields
  <2>1. PICK a \in DOMAIN EnumFields[f] : Defaults[TheSetting(f)] = EnumFields[f][a]
    BY <1>8, DefaultEnum
  <2>2. a \in Schema(f)
    BY <1>8, SchemaIs
  <2>3. Typed(f, a) /\ WriteField(f, a) = Staged(One(TheSetting(f), EnumFields[f][a]))
    BY <2>2, <1>8, NotNull, FieldIs
  <2>4. Accepted(f, a)
    BY <2>3, StagedFacts DEF Accepted
  <2>5. WriteField(f, a).set[TheSetting(f)] = EnumFields[f][a]
    BY <2>3, StagedFacts, OneAt
  <2>6. Agrees(Defaults, WriteField(f, a).set, backing(f))
    BY <2>1, <2>5, <1>8, TheSettings DEF Agrees
  <2> QED BY <2>4, <2>6 DEF Written
<1>9. CASE f \in {"outgoing_interfaces", "listen_interfaces", "dht_bootstrap_nodes"}
  <2>1. <<>> \in Schema(f)
    <3>1. Schema(f) = Seq(ListEntry)
      BY <1>9, SchemaIs
    <3>2. <<>> \in Seq(ListEntry)
      OBVIOUS
    <3> QED BY <3>1, <3>2
  <2>2. Typed(f, <<>>) /\ WriteField(f, <<>>) = write_interfaces(f, <<>>)
    BY <2>1, <1>9, NotNull, FieldIs
  <2>3. DOMAIN <<>> = {}
    OBVIOUS
  <2>4. Joined(<<>>) = <<>>
    BY <2>3 DEF Joined
  <2>5. write_interfaces(f, <<>>) = Staged(One(f, <<>>))
    BY <2>3, <2>4 DEF write_interfaces, StagedIf
  <2>6. Accepted(f, <<>>)
    BY <2>2, <2>5, StagedFacts DEF Accepted
  <2>7. WriteField(f, <<>>).set[f] = <<>>
    BY <2>2, <2>5, StagedFacts, OneAt
  <2>8. Defaults[f] = <<>>
    BY <1>9, PeerDefaultsAre DEF PeerDefaults
  <2>9. Agrees(Defaults, WriteField(f, <<>>).set, backing(f))
    BY <2>7, <2>8, <1>9, Backing DEF Agrees
  <2> QED BY <2>6, <2>9 DEF Written
<1> QED BY <1>1, <1>2, <1>3, <1>4, <1>5, <1>6, <1>7, <1>8, <1>9,
           TheStructuredFields, TheEnumFields

\* A field none of whose settings is foreign is as an accepted value wrote it.
LEMMA AsWritten ==
    ASSUME SettingsInv, NEW f \in StructuredFields, backing(f) \cap foreign = {}
    PROVE  Written(f, session)
<1>1. Settled(f)
  BY DEF SettingsInv, Fields
<1>2. CASE Agrees(session, Defaults, backing(f) \ foreign)
  <2>1. \A n \in backing(f) : session[n] = Defaults[n]
    BY <1>2 DEF Agrees
  <2> QED BY <2>1, DefaultsWritten DEF Written, Agrees
<1> QED BY <1>1, <1>2 DEF Settled

\* The canonical form of a value is one of the same type.
LEMMA CanonicalTyped ==
    ASSUME NEW f \in StructuredFields, NEW v, Typed(f, v)
    PROVE  Typed(f, Canonical(f, v))
<1>1. CASE f \notin {"proxy", "i2p"} \/ v = Null
  BY <1>1 DEF Canonical
<1>2. CASE f = "proxy" /\ v # Null
  <2>1. v \in ProxySettings
    BY <1>2, SchemaIs DEF Typed
  <2>2. Stripped(v.hostname) \in Hosts
    BY <2>1, StrippedTwice DEF ProxySettings
  <2>3. [v EXCEPT !.hostname = Stripped(v.hostname)] \in ProxySettings
    BY <2>1, <2>2 DEF ProxySettings
  <2> QED BY <1>2, <2>3, SchemaIs DEF Typed, Canonical
<1>3. CASE f = "i2p" /\ v # Null
  <2>1. v \in I2pSettings
    BY <1>3, SchemaIs DEF Typed
  <2>2. Stripped(v.hostname) \in Hosts
    BY <2>1, StrippedTwice DEF I2pSettings
  <2>3. [v EXCEPT !.hostname = Stripped(v.hostname)] \in I2pSettings
    BY <2>1, <2>2 DEF I2pSettings
  <2> QED BY <1>3, <2>3, SchemaIs DEF Typed, Canonical
<1> QED BY <1>1, <1>2, <1>3

\* The flags among the settings of the structured fields.
StructuredNames == PROXY_BACKING \cup I2P_BACKING \cup DOMAIN PeerDefaults
StructuredFlags ==
    {"proxy_hostnames", "proxy_peer_connections", "proxy_tracker_connections",
     "socks5_udp_send_local_ep", "proxy_send_host_in_connect", "allow_i2p_mixed",
     "prefer_rc4", "announce_crypto_support", "enable_incoming_tcp",
     "enable_outgoing_tcp", "enable_incoming_utp", "enable_outgoing_utp"}
LEMMA FlagsAre ==
    /\ StructuredFlags \subseteq BoolSettings
    /\ \A n \in StructuredNames \cap BoolSettings : n \in StructuredFlags
<1> USE DEF BoolSettings, bool_settings_1, bool_settings_2, bool_settings_3
<1>1. StructuredFlags \subseteq BoolSettings
  BY DEF StructuredFlags
<1>2. \A n \in PROXY_BACKING \cap BoolSettings : n \in StructuredFlags
  BY DEF StructuredFlags, PROXY_BACKING
<1>3. \A n \in I2P_BACKING \cap BoolSettings : n \in StructuredFlags
  BY DEF StructuredFlags, I2P_BACKING
<1>4. \A n \in DOMAIN PeerDefaults \cap BoolSettings : n \in StructuredFlags
  BY DEF StructuredFlags, PeerDefaults
<1> QED BY ONLY <1>1, <1>2, <1>3, <1>4 DEF StructuredNames

\* The settings behind the structured fields have these names.
LEMMA BackingNames ==
    ASSUME NEW f \in StructuredFields
    PROVE  backing(f) \subseteq StructuredNames
BY Backing, TheStructuredFields DEF StructuredNames, PeerDefaults

\* The defaults are of their settings' types.
LEMMA DefaultsStorable ==
    ASSUME NEW n \in StructuredNames
    PROVE  Storable(n, Defaults[n])
<1> DEFINE d == Defaults[n]
<1>1. n \in BoolSettings => d \in BOOLEAN
  <2>1. n \in StructuredFlags \cap PROXY_BACKING => ProxyDefaults[n] \in BOOLEAN
    BY DEF StructuredFlags, PROXY_BACKING, ProxyDefaults
  <2>2. n \in StructuredFlags \cap I2P_BACKING => I2pDefaults[n] \in BOOLEAN
    BY DEF StructuredFlags, I2P_BACKING, I2pDefaults
  <2>3. n \in StructuredFlags \cap DOMAIN PeerDefaults => PeerDefaults[n] \in BOOLEAN
    <3>1. /\ \A m \in {"prefer_rc4"} : PeerDefaults[m] = FALSE
          /\ \A m \in {"announce_crypto_support", "enable_incoming_tcp",
                       "enable_outgoing_tcp", "enable_incoming_utp",
                       "enable_outgoing_utp"} : PeerDefaults[m] = TRUE
      BY DEF PeerDefaults
    <3>2. StructuredFlags \cap DOMAIN PeerDefaults \subseteq
            {"prefer_rc4", "announce_crypto_support", "enable_incoming_tcp",
             "enable_outgoing_tcp", "enable_incoming_utp", "enable_outgoing_utp"}
      BY DEF StructuredFlags, PeerDefaults
    <3> QED BY <3>1, <3>2
  <2> QED BY <2>1, <2>2, <2>3, FlagsAre, DefaultsAre DEF StructuredNames
<1>2. n \in {"proxy_hostname", "i2p_hostname"} => d \in Hosts
  <2>1. NoHost \in Hosts
    BY DEF NoHost, Plain, Host, Hosts, Bodies
  <2> QED BY <2>1, DefaultProxy, DefaultI2p
<1>3. n \in {"proxy_username", "proxy_password"} => d \in Nat
  BY DefaultProxy
<1>4. n \in {"outgoing_port", "num_outgoing_ports", "proxy_port"} => d \in Int
  BY DefaultProxy, PeerDefaultsAre DEF PeerDefaults
<1>5. n \in {"outgoing_interfaces", "listen_interfaces", "dht_bootstrap_nodes"} =>
        d \in Seq(StoredEntry)
  <2>1. \A m \in {"outgoing_interfaces", "listen_interfaces", "dht_bootstrap_nodes"} :
          Defaults[m] = <<>>
    BY PeerDefaultsAre DEF PeerDefaults
  <2>2. <<>> \in Seq(StoredEntry)
    OBVIOUS
  <2>3. n \in {"outgoing_interfaces", "listen_interfaces", "dht_bootstrap_nodes"} => d = <<>>
    BY <2>1
  <2> HIDE DEF d
  <2> QED BY <2>2, <2>3
<1> HIDE DEF d
<1>6. Storable(n, d)
  BY <1>1, <1>2, <1>3, <1>4, <1>5 DEF Storable
<1> QED BY <1>6 DEF d

\* Of settings of their types a field reads as a value of its own type,
\* unless it cannot be read.
LEMMA ReadTyped ==
    ASSUME NEW f \in StructuredFields, NEW s,
           \A n \in backing(f) : Storable(n, s[n]),
           ReadField(f, s) # Unreadable
    PROVE  Typed(f, ReadField(f, s))
<1>f. \A n \in backing(f) \cap StructuredFlags : s[n] \in BOOLEAN
  BY FlagsAre DEF Storable
<1>1. CASE f = "user_agent"
  <2> DEFINE known == {a \in DOMAIN AgentNames : AgentNames[a] = s.user_agent.name}
  <2>1. read_user_agent(s) = IF known = {} THEN "Unrecognized" ELSE CHOOSE a \in known : TRUE
    BY DEF read_user_agent
  <2>2. known \subseteq UserAgents /\ "Unrecognized" \in UserAgents
    BY DEF AgentNames, UserAgents
  <2> HIDE DEF known
  <2>3. read_user_agent(s) \in UserAgents
    BY <2>1, <2>2
  <2> QED BY <2>3, <1>1, ReadIs, SchemaIs DEF Typed
<1>2. CASE f = "proxy"
  <2>1. /\ s.proxy_hostname \in Hosts
        /\ s.proxy_username \in Nat /\ s.proxy_password \in Nat
    BY <1>2, Backing DEF Storable, PROXY_BACKING
  <2>2. /\ s.proxy_hostnames \in BOOLEAN /\ s.proxy_peer_connections \in BOOLEAN
        /\ s.proxy_tracker_connections \in BOOLEAN
        /\ s.socks5_udp_send_local_ep \in BOOLEAN
        /\ s.proxy_send_host_in_connect \in BOOLEAN
    BY <1>f, <1>2, Backing DEF PROXY_BACKING, StructuredFlags
  <2>3. read_proxy(s) # Unreadable
    BY <1>2, ReadIs
  <2>4. CASE s.proxy_type = "None"
    BY <2>4, <1>2, ReadIs DEF read_proxy, Typed
  <2>5. CASE s.proxy_type # "None"
    <3>1. s.proxy_type \in ProxyTypes \ {"None"} /\ s.proxy_port \in U16s
      BY <2>3, <2>5 DEF read_proxy, IsPort, U16s
    <3>2. read_proxy(s) =
        [protocol |-> s.proxy_type, hostname |-> s.proxy_hostname,
         port |-> s.proxy_port, username |-> s.proxy_username,
         password |-> s.proxy_password, resolve_hostnames |-> s.proxy_hostnames,
         peer_connections |-> s.proxy_peer_connections,
         tracker_connections |-> s.proxy_tracker_connections,
         socks5_udp_send_local_endpoint |-> s.socks5_udp_send_local_ep,
         send_hostname_in_connect |-> s.proxy_send_host_in_connect]
      BY <2>5, <3>1 DEF read_proxy, IsPort, U16s
    <3>3. read_proxy(s) \in ProxySettings
      BY <2>1, <2>2, <3>1, <3>2 DEF ProxySettings
    <3> QED BY <3>3, <1>2, ReadIs, SchemaIs DEF Typed
  <2> QED BY <2>4, <2>5
<1>3. CASE f = "i2p"
  <2>1. s.i2p_hostname \in Hosts
    BY <1>3, Backing DEF Storable, I2P_BACKING
  <2>2. s.allow_i2p_mixed \in BOOLEAN
    BY <1>f, <1>3, Backing DEF I2P_BACKING, StructuredFlags
  <2>3. read_i2p(s) # Unreadable
    BY <1>3, ReadIs
  <2>4. CASE s.i2p_hostname = NoHost
    BY <2>4, <1>3, ReadIs DEF read_i2p, Typed
  <2>5. CASE s.i2p_hostname # NoHost
    <3> DEFINE in ==
                 [tunnels |-> s.i2p_inbound_quantity, hops |-> s.i2p_inbound_length,
                  hop_variance |-> s.i2p_inbound_length_variance]
               out ==
                 [tunnels |-> s.i2p_outbound_quantity, hops |-> s.i2p_outbound_length,
                  hop_variance |-> s.i2p_outbound_length_variance]
    <3>1. /\ s.i2p_port \in U16s
          /\ s.i2p_inbound_quantity \in U8s /\ s.i2p_outbound_quantity \in U8s
          /\ s.i2p_inbound_length \in U8s /\ s.i2p_outbound_length \in U8s
          /\ s.i2p_inbound_length_variance \in -128 .. 127
          /\ s.i2p_outbound_length_variance \in -128 .. 127
          /\ read_i2p(s) = [hostname |-> s.i2p_hostname, port |-> s.i2p_port,
                            allow_mixed |-> s.allow_i2p_mixed,
                            inbound |-> in, outbound |-> out]
      BY <2>3, <2>5 DEF read_i2p, IsPort, U16s, U8s
    <3>2. in \in I2pTunnel /\ out \in I2pTunnel
      BY <3>1 DEF I2pTunnel
    <3> HIDE DEF in, out
    <3>3. read_i2p(s) \in I2pSettings
      BY <2>1, <2>2, <3>1, <3>2 DEF I2pSettings
    <3> QED BY <3>3, <1>3, ReadIs, SchemaIs DEF Typed
  <2> QED BY <2>4, <2>5
<1>4. CASE f = "encryption"
  <2>1. s.prefer_rc4 \in BOOLEAN /\ s.announce_crypto_support \in BOOLEAN
    BY <1>f, <1>4, Backing DEF StructuredFlags
  <2>2. read_encryption(s) # Unreadable
    BY <1>4, ReadIs
  <2>3. /\ s.allowed_enc_level \in EncLevels /\ s.in_enc_policy \in EncPolicies
        /\ s.out_enc_policy \in EncPolicies
        /\ read_encryption(s) =
             [incoming |-> FromLt(Policies, s.in_enc_policy),
              outgoing |-> FromLt(Policies, s.out_enc_policy),
              methods |-> Levels[s.allowed_enc_level],
              prefer_rc4 |-> s.prefer_rc4,
              announce_support |-> s.announce_crypto_support]
    BY <2>2 DEF read_encryption
  <2>4. Levels[s.allowed_enc_level] \in SUBSET {"plaintext", "rc4"}
    BY <2>3 DEF Levels, EncLevels
  <2>5. \A p \in EncPolicies : FromLt(Policies, p) \in DOMAIN Policies
    BY PolicyNamed
  <2>6. read_encryption(s) \in EncryptionSettings
    BY <2>1, <2>3, <2>4, <2>5 DEF EncryptionSettings
  <2> QED BY <2>6, <1>4, ReadIs, SchemaIs DEF Typed
<1>5. CASE f = "peer_transports"
  <2>1. /\ s.enable_incoming_tcp \in BOOLEAN /\ s.enable_outgoing_tcp \in BOOLEAN
        /\ s.enable_incoming_utp \in BOOLEAN /\ s.enable_outgoing_utp \in BOOLEAN
    BY <1>f, <1>5, Backing DEF StructuredFlags
  <2>2. read_peer_transports(s) \in PeerTransports
    BY <2>1 DEF read_peer_transports, PeerTransports, TransportDirections
  <2> QED BY <2>2, <1>5, ReadIs, SchemaIs DEF Typed
<1>6. CASE f = "outgoing_port_range"
  <2>1. s.outgoing_port \in Int /\ s.num_outgoing_ports \in Int
    BY <1>6, Backing DEF Storable
  <2>2. read_outgoing_port_range(s) # Unreadable
    BY <1>6, ReadIs
  <2>3. read_outgoing_port_range(s) = Null \/ read_outgoing_port_range(s) \in PortRange
    BY <2>1, <2>2, RangeTyped
  <2> QED BY <2>3, <1>6, ReadIs, SchemaIs DEF Typed
<1>7. CASE f = "disk_io_cache"
  <2>1. read_disk_io_cache(s) # Unreadable
    BY <1>7, ReadIs
  <2>2. read_disk_io_cache(s) \in DiskIoCache
    BY <2>1 DEF read_disk_io_cache, DiskIoCache, IoBufferModes
  <2> QED BY <2>2, <1>7, ReadIs, SchemaIs DEF Typed
<1>8. CASE f \in DOMAIN EnumFields
  <2> DEFINE names == {a \in DOMAIN EnumFields[f] : EnumFields[f][a] = s[TheSetting(f)]}
  <2>1. FromLt(EnumFields[f], s[TheSetting(f)]) =
          IF names = {} THEN Unreadable ELSE CHOOSE a \in names : TRUE
    BY DEF FromLt
  <2>2. names \subseteq DOMAIN EnumFields[f]
    OBVIOUS
  <2> HIDE DEF names
  <2>3. ReadField(f, s) \in DOMAIN EnumFields[f]
    BY <2>1, <2>2, <1>8, ReadIs
  <2> QED BY <2>3, <1>8, SchemaIs DEF Typed
<1>9. CASE f \in {"outgoing_interfaces", "listen_interfaces", "dht_bootstrap_nodes"}
  <2>1. s[f] \in Seq(StoredEntry)
    BY <1>9, Backing DEF Storable
  <2>2. ReadField(f, s) = Parsed(s[f])
    BY <1>9, ReadIs
  <2>3. Parsed(s[f]) = s[f] /\ \A i \in DOMAIN s[f] : s[f][i].port # NoPort
    BY <2>2 DEF Parsed
  <2>4. ASSUME NEW i \in DOMAIN s[f]
        PROVE  s[f][i] \in ListEntry
    <3>1. s[f][i] \in StoredEntry /\ s[f][i].port # NoPort
      BY <2>1, <2>3
    <3> QED BY <3>1 DEF StoredEntry, ListEntry
  <2>5. s[f] \in Seq(ListEntry)
    BY <2>1, <2>4
  <2> QED BY <2>2, <2>3, <2>5, <1>9, SchemaIs DEF Typed
<1> QED BY <1>1, <1>2, <1>3, <1>4, <1>5, <1>6, <1>7, <1>8, <1>9,
           TheStructuredFields, TheEnumFields

\* Whatever is behind a structured field, it reads as a value of its type or
\* not at all.
LEMMA SessionReadTyped ==
    ASSUME SettingsInv, NEW f \in StructuredFields, ReadField(f, session) # Unreadable
    PROVE  Typed(f, ReadField(f, session))
<1>1. CASE Written(f, session)
  <2>1. PICK v : /\ Accepted(f, v)
                 /\ Agrees(session, WriteField(f, v).set, backing(f))
    BY <1>1 DEF Written
  <2>2. ReadField(f, session) = Canonical(f, v)
    BY <2>1, ReadWritten DEF Fields
  <2> QED BY <2>1, <2>2, CanonicalTyped DEF Accepted
<1>2. CASE Agrees(session, Defaults, backing(f) \ foreign)
  <2>1. ASSUME NEW n \in backing(f)
        PROVE  Storable(n, session[n])
    <3>1. CASE n \in foreign
      BY <3>1 DEF SettingsInv, ForeignHolds
    <3>2. CASE n \notin foreign
      <4>1. session[n] = Defaults[n]
        BY <1>2, <3>2 DEF Agrees
      <4>2. Storable(n, Defaults[n])
        BY BackingNames, DefaultsStorable
      <4> QED BY <4>1, <4>2
    <3> QED BY <3>1, <3>2
  <2> QED BY <2>1, ReadTyped
<1>3. Settled(f)
  BY DEF SettingsInv, Fields
<1> QED BY <1>1, <1>2, <1>3 DEF Settled

\* A client can send back what it reads, over settings of this daemon and of
\* another program: WriteBack is an invariant.
THEOREM WriteBackInvariant == Spec => []WriteBack
<1>1. ASSUME SettingsInv, NEW f \in StructuredFields, backing(f) \cap foreign = {}
      PROVE  LET w == WriteField(f, ReadField(f, session))
             IN /\ ReadField(f, session) # Unreadable /\ w.ok
                /\ \A n \in DOMAIN w.set : w.set[n] = session[n]
  <2>1. PICK v : /\ Accepted(f, v)
                 /\ Agrees(session, WriteField(f, v).set, backing(f))
    BY <1>1, AsWritten DEF Written
  <2>2. ReadField(f, session) = Canonical(f, v)
    BY <2>1, ReadWritten DEF Fields
  <2>3. WriteField(f, ReadField(f, session)) = WriteField(f, v)
    BY <2>1, <2>2, Rewritten
  <2>4. DOMAIN WriteField(f, v).set = backing(f)
    BY <2>1, WriteDomain DEF Fields
  <2>5. Typed(f, Canonical(f, v))
    BY <2>1, CanonicalTyped DEF Accepted
  <2>6. Canonical(f, v) # Unreadable
    BY <2>5, MarkersAssumption DEF Typed
  <2> QED BY <2>1, <2>2, <2>3, <2>4, <2>6 DEF Accepted, Agrees
<1>2. ASSUME SettingsInv, NEW f \in StructuredFields,
             NEW v, Typed(f, v), WriteField(f, v).ok
      PROVE  LET w == WriteField(f, v)
             IN DOMAIN w.set = backing(f) /\ ReadField(f, w.set) = Canonical(f, v)
  <2>1. Accepted(f, v)
    BY <1>2 DEF Accepted
  <2>2. Agrees(WriteField(f, v).set, WriteField(f, v).set, backing(f))
    BY DEF Agrees
  <2> QED BY <2>1, <2>2, WriteDomain, ReadWritten DEF Fields
<1>3. ASSUME SettingsInv, NEW f \in StructuredFields
      PROVE  ReadField(f, session) # Unreadable => Typed(f, ReadField(f, session))
  BY <1>3, SessionReadTyped
<1>4. SettingsInv => WriteBack
  BY <1>1, <1>2, <1>3 DEF WriteBack, Typed
<1> QED BY <1>4, SettingsInvariant, PTL

\* No credentials outlive the protocol that uses them: NoStaleCredentials is
\* an invariant.
THEOREM NoStaleCredentialsInvariant == Spec => []NoStaleCredentials
<1>1. ASSUME SettingsInv, PROXY_BACKING \cap foreign = {}
      PROVE  /\ session.proxy_password # 0 => session.proxy_type \in {"Socks5Pw", "HttpPw"}
             /\ session.proxy_username # 0 =>
                  session.proxy_type \in {"Socks4", "Socks5Pw", "HttpPw"}
  <2>1. PICK v : /\ Accepted("proxy", v)
                 /\ Agrees(session, WriteField("proxy", v).set, PROXY_BACKING)
    BY <1>1, AsWritten, Backing, TheStructuredFields DEF Written
  <2>2. \A n \in PROXY_BACKING : session[n] = write_proxy(v).set[n]
    BY <2>1, FieldIs DEF Agrees
  <2>3. CASE v = Null
    <3>1. write_proxy(v) = Staged(NoProxy)
      BY <2>3 DEF write_proxy
    <3>2. write_proxy(v).set = NoProxy
      BY <3>1, StagedFacts
    <3>3. \A n \in PROXY_BACKING : NoProxy[n] = Defaults[n]
      BY DEF NoProxy, ResetGroup
    <3>4. \A n \in PROXY_BACKING : session[n] = Defaults[n]
      BY <2>2, <3>2, <3>3
    <3> QED BY <3>4, DefaultProxy DEF PROXY_BACKING
  <2>4. CASE v # Null
    <3> DEFINE fits == Expressible(v) /\ ProxyHost(v.hostname) /\ credentials(v)
               set ==
          [proxy_type |-> v.protocol, proxy_hostname |-> Stripped(v.hostname),
           proxy_port |-> v.port, proxy_username |-> v.username,
           proxy_password |-> v.password, proxy_hostnames |-> v.resolve_hostnames,
           proxy_peer_connections |-> v.peer_connections,
           proxy_tracker_connections |-> v.tracker_connections,
           socks5_udp_send_local_ep |-> v.socks5_udp_send_local_endpoint,
           proxy_send_host_in_connect |-> v.send_hostname_in_connect]
    <3>1. write_proxy(v) = StagedIf(fits, set)
      BY <2>4 DEF write_proxy
    <3>2. write_proxy(v).ok
      BY <2>1, FieldIs DEF Accepted
    <3>3. fits /\ write_proxy(v).set = set
      <4> HIDE DEF fits, set
      <4> QED BY <3>1, <3>2 DEF StagedIf, Staged, Rejected
    <3>4. /\ session.proxy_type = v.protocol
          /\ session.proxy_username = v.username
          /\ session.proxy_password = v.password
      BY <2>2, <3>3 DEF PROXY_BACKING
    <3> QED BY <3>3, <3>4 DEF Expressible, WantsAuth
  <2> QED BY <2>3, <2>4
<1>2. SettingsInv => NoStaleCredentials
  BY <1>1 DEF NoStaleCredentials
<1> QED BY <1>2, SettingsInvariant, PTL
=============================================================================
