------------------------------ MODULE Settings ------------------------------
(***************************************************************************)
(* applySettings and settings of the public interface: `write` and `read`  *)
(* of rsbtd/src/api/settings/mod.rs over the scalar and the structured     *)
(* fields, the grouped setters and parsers of rbtorrent/src/settings, and  *)
(* the merge of the staged delta into the settings of the session.         *)
(*                                                                         *)
(* Names and values are abstracted to what validation tells apart: a       *)
(* scalar string is its length in bytes, a host its brackets and the kind  *)
(* of its text, a version of a user agent is current or another one.       *)
(***************************************************************************)
EXTENDS SettingsTable, Sequences, SequencesExt

CONSTANTS
    Null,        \* the explicit null of an input
    Default,     \* libtorrent's default of a scalar setting
    Unreadable,  \* read fails: an effective value is not representable
    Inputs,      \* the inputs clients send: fields to values
    Foreign,     \* what a state file of other origin may hold: setting to value
    MaxChanges   \* bound: changes that can meet in one session

ASSUME MaxChangesAssumption == MaxChanges \in Nat \ {0}

VARIABLES
    session,  \* the effective settings
    foreign,  \* settings still at the value a foreign state file gave them
    last,     \* history: the last input and whether it was accepted
    changes   \* what is used up of MaxChanges

vars == <<session, foreign, last, changes>>

\* The entries of both, and those of f where both have one.
f ++ g == [n \in DOMAIN f \cup DOMAIN g |-> IF n \in DOMAIN f THEN f[n] ELSE g[n]]
One(n, v) == [m \in {n} |-> v]

(***************************************************************************)
(* Hosts.                                                                  *)
(***************************************************************************)
Host(open, body, close) == [open |-> open, body |-> body, close |-> close]
Plain(body) == Host(FALSE, body, FALSE)
Bracketed(body) == Host(TRUE, body, TRUE)
NoHost == Plain("")
Bodies == {"", "name", "ip6", "colon", "comma", "stray"}

HasColon(h) == h.body \in {"ip6", "colon"}
ipv6_literal(h) == h = Plain("ip6")

\* A host with its brackets taken off, where both are there.
Stripped(h) == IF h.open /\ h.close THEN Plain(h.body) ELSE h

host_token(h) ==
    /\ h # NoHost /\ h.body # "comma"
    /\ IF h.open /\ h.close THEN ipv6_literal(Stripped(h)) ELSE ~HasColon(h)

bare_host_token(h) ==
    /\ h # NoHost /\ h.body # "comma"
    /\ HasColon(h) => ipv6_literal(h)

(***************************************************************************)
(* Lists are stored joined by commas and read by splitting: a host that    *)
(* contains one would come back as two entries, the first without a port.  *)
(***************************************************************************)
NoPort == -1
Joined(list) ==
    IF \A i \in DOMAIN list : list[i].host.body # "comma" THEN list
    ELSE FlattenSeq([i \in DOMAIN list |->
             IF list[i].host.body = "comma"
             THEN <<[list[i] EXCEPT !.host.body = "name", !.port = NoPort],
                    [list[i] EXCEPT !.host.body = "name"]>>
             ELSE <<list[i]>>])

Parsed(raw) == IF \E i \in DOMAIN raw : raw[i].port = NoPort
               THEN Unreadable ELSE raw

(***************************************************************************)
(* The settings a fresh session starts with (libtorrent's defaults): a     *)
(* value where a structured field interprets it.                           *)
(***************************************************************************)
UserAgentString(name, version) == [name |-> name, version |-> version]

ProxyDefaults ==
    [n \in PROXY_BACKING |->
        CASE n = "proxy_type" -> "None"
          [] n = "proxy_hostname" -> NoHost
          [] n \in {"proxy_port", "proxy_username", "proxy_password"} -> 0
          [] n \in {"socks5_udp_send_local_ep", "proxy_send_host_in_connect"} -> FALSE
          [] OTHER -> TRUE]

I2pDefaults ==
    [n \in I2P_BACKING |->
        CASE n = "i2p_hostname" -> NoHost
          [] n = "allow_i2p_mixed" -> FALSE
          [] n = "i2p_port" -> 7656
          [] n \in {"i2p_inbound_length_variance",
                    "i2p_outbound_length_variance"} -> 0
          [] OTHER -> 3]

PeerDefaults ==
    [out_enc_policy |-> "PeEnabled", in_enc_policy |-> "PeEnabled",
     allowed_enc_level |-> "PeBoth", prefer_rc4 |-> FALSE,
     announce_crypto_support |-> TRUE,
     enable_incoming_tcp |-> TRUE, enable_outgoing_tcp |-> TRUE,
     enable_incoming_utp |-> TRUE, enable_outgoing_utp |-> TRUE,
     outgoing_port |-> 0, num_outgoing_ports |-> 0,
     disk_io_read_mode |-> "EnableOsCache", disk_io_write_mode |-> "EnableOsCache",
     disk_write_mode |-> "AutoMmapWrite", suggest_mode |-> "NoPieceSuggestions",
     choking_algorithm |-> "FixedSlotsChoker",
     seed_choking_algorithm |-> "RoundRobin",
     mixed_mode_algorithm |-> "PeerProportional",
     user_agent |-> UserAgentString("libtorrent", "current"),
     outgoing_interfaces |-> <<>>, listen_interfaces |-> <<>>,
     dht_bootstrap_nodes |-> <<>>]

StructuredDefaults == Assembled({ProxyDefaults, I2pDefaults, PeerDefaults})
Defaults == StructuredDefaults ++ [n \in ALL_SETTINGS |-> Default]

(***************************************************************************)
(* Wrong variants of definitions below, each with a bug the code could     *)
(* have had; the specification does not use them.                          *)
(***************************************************************************)
\* Without a proxy only the type matters: the rest of the group stays.
NoProxyTypeOnly == One("proxy_type", "None")

\* A port is not checked when it is read.
PortUnchecked(v) == TRUE

\* The code point is stored as it is.
StoredAsIs(f, v) == v

(***************************************************************************)
(* Staging one field.  Rejected, or the settings to write.                 *)
(***************************************************************************)
Rejected == [ok |-> FALSE, set |-> <<>>]
Staged(set) == [ok |-> TRUE, set |-> set]
StagedIf(valid, set) == IF valid THEN Staged(set) ELSE Rejected

Accepts(d, v) == CASE d.kind = "Int" -> d.lo <= v /\ v <= d.hi
                   [] d.kind = "Bool" -> v \in BOOLEAN
                   [] d.kind = "Str" -> v <= d.max

\* The traffic-class byte has the code point in its upper six bits.
TrafficClass(v) == 4 * v
CodePoint(byte) == (byte % 256) \div 4
Stored(f, v) == IF Scalars[f] = "i32 dscp" THEN TrafficClass(v) ELSE v

scalar_set(f, v) == StagedIf(Accepts(Setters[f], v), One(f, Stored(f, v)))

UserAgents == {"None", "Libtorrent", "Rsbtd", "QBittorrent", "Unrecognized"}
AgentNames == [None |-> "", Libtorrent |-> "libtorrent", Rsbtd |-> "rsbtd",
               QBittorrent |-> "qBittorrent"]

write_user_agent(v) ==
    IF v = "Unrecognized" THEN Rejected
    ELSE Staged(One("user_agent", UserAgentString(AgentNames[v],
                                      IF v = "None" THEN "" ELSE "current")))

ResetGroup(names) == [n \in names |-> Defaults[n]]
NoProxy == ResetGroup(PROXY_BACKING)
NoI2p == ResetGroup(I2P_BACKING)

WantsAuth(p) == p.protocol \in {"Socks5Pw", "HttpPw"}
Socks5(p) == p.protocol \in {"Socks5", "Socks5Pw"}
Http(p) == p.protocol \in {"Http", "HttpPw"}

\* What the flat shape can state and no protocol can express.
Expressible(p) ==
    /\ p.port # 0
    /\ p.username # 0 => WantsAuth(p) \/ p.protocol = "Socks4"
    /\ p.password # 0 => WantsAuth(p)
    /\ p.resolve_hostnames => p.protocol # "Socks4"
    /\ p.socks5_udp_send_local_endpoint => Socks5(p)
    /\ p.send_hostname_in_connect => Http(p)

credentials(p) ==
    /\ p.protocol = "Socks4" => p.username # 0
    /\ WantsAuth(p) => p.username # 0 /\ p.password # 0
    /\ p.protocol = "Socks5Pw" => p.username <= 255 /\ p.password <= 255

ProxyHost(h) ==
    /\ h.open => h.close
    /\ h.close => h.open
    /\ h.body # "stray"
    /\ bare_host_token(Stripped(h))

write_proxy(p) ==
    IF p = Null THEN Staged(NoProxy)
    ELSE StagedIf(Expressible(p) /\ ProxyHost(p.hostname) /\ credentials(p),
        [proxy_type |-> p.protocol, proxy_hostname |-> Stripped(p.hostname),
         proxy_port |-> p.port, proxy_username |-> p.username,
         proxy_password |-> p.password, proxy_hostnames |-> p.resolve_hostnames,
         proxy_peer_connections |-> p.peer_connections,
         proxy_tracker_connections |-> p.tracker_connections,
         socks5_udp_send_local_ep |-> p.socks5_udp_send_local_endpoint,
         proxy_send_host_in_connect |-> p.send_hostname_in_connect])

TunnelFits(t) == t.tunnels \in 1 .. 16 /\ t.hops <= 7 /\ t.hop_variance \in -7 .. 7

write_i2p(c) ==
    IF c = Null THEN Staged(NoI2p)
    ELSE StagedIf(/\ c.port # 0 /\ bare_host_token(Stripped(c.hostname))
                  /\ TunnelFits(c.inbound) /\ TunnelFits(c.outbound),
        [i2p_hostname |-> Stripped(c.hostname), i2p_port |-> c.port,
         allow_i2p_mixed |-> c.allow_mixed,
         i2p_inbound_quantity |-> c.inbound.tunnels,
         i2p_inbound_length |-> c.inbound.hops,
         i2p_inbound_length_variance |-> c.inbound.hop_variance,
         i2p_outbound_quantity |-> c.outbound.tunnels,
         i2p_outbound_length |-> c.outbound.hops,
         i2p_outbound_length_variance |-> c.outbound.hop_variance])

Levels == [PePlaintext |-> {"plaintext"}, PeRc4 |-> {"rc4"},
           PeBoth |-> {"plaintext", "rc4"}]
Policies == [Forced |-> "PeForced", Enabled |-> "PeEnabled",
             Disabled |-> "PeDisabled"]

write_encryption(e) ==
    StagedIf(e.methods # {} /\ (e.prefer_rc4 => Cardinality(e.methods) = 2),
        [in_enc_policy |-> Policies[e.incoming],
         out_enc_policy |-> Policies[e.outgoing],
         allowed_enc_level |-> IF e.methods = {} THEN "PeBoth"
                               ELSE CHOOSE l \in EncLevels : Levels[l] = e.methods,
         prefer_rc4 |-> e.prefer_rc4,
         announce_crypto_support |-> e.announce_support])

write_peer_transports(t) ==
    Staged([enable_incoming_tcp |-> t.tcp.incoming,
            enable_outgoing_tcp |-> t.tcp.outgoing,
            enable_incoming_utp |-> t.utp.incoming,
            enable_outgoing_utp |-> t.utp.outgoing])

write_outgoing_port_range(r) ==
    IF r = Null THEN Staged([outgoing_port |-> 0, num_outgoing_ports |-> 0])
    ELSE StagedIf(r.first # 0 /\ r.first <= r.last,
                  [outgoing_port |-> r.first, num_outgoing_ports |-> r.last - r.first])

\* The fields that are one enumeration, stored under another name.
MmapWriteModeNames == [AlwaysPwrite |-> "AlwaysPwrite",
                       AlwaysMmapWrite |-> "AlwaysMmapWrite",
                       AutoMmapWrite |-> "AutoMmapWrite"]
SuggestModeNames == [None |-> "NoPieceSuggestions", ReadCache |-> "SuggestReadCache"]
ChokingAlgorithmNames == [FixedSlots |-> "FixedSlotsChoker",
                          RateBased |-> "RateBasedChoker"]
SeedChokingAlgorithmNames == [RoundRobin |-> "RoundRobin",
                              FastestUpload |-> "FastestUpload",
                              AntiLeech |-> "AntiLeech"]
MixedModeAlgorithmNames == [PreferTcp |-> "PreferTcp",
                            PeerProportional |-> "PeerProportional"]

EnumFields == [mmap_write_mode |-> MmapWriteModeNames,
               suggest_mode |-> SuggestModeNames,
               choking_algorithm |-> ChokingAlgorithmNames,
               seed_choking_algorithm |-> SeedChokingAlgorithmNames,
               mixed_mode_algorithm |-> MixedModeAlgorithmNames]
TheSetting(f) == CHOOSE n \in backing(f) : TRUE

write_disk_io_cache(c) ==
    Staged([disk_io_read_mode |-> c.read, disk_io_write_mode |-> c.write])

\* What an entry of a list of interfaces or nodes must be.
EntryFits(f, e) ==
    CASE f = "outgoing_interfaces" -> bare_host_token(e.host)
      [] f = "listen_interfaces" -> host_token(e.host)
      [] f = "dht_bootstrap_nodes" -> host_token(e.host) /\ e.port # 0

write_interfaces(f, list) ==
    StagedIf(\A i \in DOMAIN list : EntryFits(f, list[i]), One(f, Joined(list)))

Nullable == {"proxy", "i2p", "outgoing_port_range"}

WriteField(f, v) ==
    IF v = Null /\ f \notin Nullable THEN Rejected
    ELSE CASE f \in ScalarFields -> scalar_set(f, v)
           [] f = "user_agent" -> write_user_agent(v)
           [] f = "proxy" -> write_proxy(v)
           [] f = "i2p" -> write_i2p(v)
           [] f = "encryption" -> write_encryption(v)
           [] f = "peer_transports" -> write_peer_transports(v)
           [] f = "outgoing_port_range" -> write_outgoing_port_range(v)
           [] f = "disk_io_cache" -> write_disk_io_cache(v)
           [] f \in DOMAIN EnumFields -> Staged(One(TheSetting(f), EnumFields[f][v]))
           [] OTHER -> write_interfaces(f, v)

(***************************************************************************)
(* Reading one field of the effective settings of a pack.                  *)
(***************************************************************************)
Clamp(v, hi) == IF v < 0 THEN 0 ELSE IF v > hi THEN hi ELSE v

scalar_get(f, s) ==
    IF s[f] = Default THEN Default
    ELSE CASE Scalars[f] = "i32 dscp" -> CodePoint(s[f])
           [] Scalars[f] = "u16" -> Clamp(s[f], MaxU16)
           [] Scalars[f] = "u8" -> Clamp(s[f], MaxU8)
           [] OTHER -> s[f]

read_user_agent(s) ==
    LET known == {a \in DOMAIN AgentNames : AgentNames[a] = s.user_agent.name}
    IN IF known = {} THEN "Unrecognized" ELSE CHOOSE a \in known : TRUE

IsPort(v) == v \in 0 .. MaxU16

read_proxy(s) ==
    CASE s.proxy_type = "None" -> Null
      [] /\ s.proxy_type # "None"
         /\ s.proxy_type \notin ProxyTypes \/ ~IsPort(s.proxy_port) -> Unreadable
      [] OTHER ->
        [protocol |-> s.proxy_type, hostname |-> s.proxy_hostname,
         port |-> s.proxy_port, username |-> s.proxy_username,
         password |-> s.proxy_password, resolve_hostnames |-> s.proxy_hostnames,
         peer_connections |-> s.proxy_peer_connections,
         tracker_connections |-> s.proxy_tracker_connections,
         socks5_udp_send_local_endpoint |-> s.socks5_udp_send_local_ep,
         send_hostname_in_connect |-> s.proxy_send_host_in_connect]

read_i2p(s) ==
    LET tunnel(q, l, v) == [tunnels |-> q, hops |-> l, hop_variance |-> v]
        byte(v) == v \in 0 .. MaxU8
        misfit == \/ ~IsPort(s.i2p_port) \/ s.i2p_port = 0
                  \/ ~byte(s.i2p_inbound_quantity) \/ ~byte(s.i2p_outbound_quantity)
                  \/ ~byte(s.i2p_inbound_length) \/ ~byte(s.i2p_outbound_length)
                  \/ s.i2p_inbound_length_variance \notin -128 .. 127
                  \/ s.i2p_outbound_length_variance \notin -128 .. 127
    IN CASE s.i2p_hostname = NoHost -> Null
         [] s.i2p_hostname # NoHost /\ misfit -> Unreadable
         [] OTHER ->
           [hostname |-> s.i2p_hostname, port |-> s.i2p_port,
            allow_mixed |-> s.allow_i2p_mixed,
            inbound |-> tunnel(s.i2p_inbound_quantity, s.i2p_inbound_length,
                               s.i2p_inbound_length_variance),
            outbound |-> tunnel(s.i2p_outbound_quantity, s.i2p_outbound_length,
                                s.i2p_outbound_length_variance)]

\* The name an enumeration is exposed under; an unknown number has none.
FromLt(table, raw) ==
    LET names == {a \in DOMAIN table : table[a] = raw}
    IN IF names = {} THEN Unreadable ELSE CHOOSE a \in names : TRUE

read_encryption(s) ==
    IF s.allowed_enc_level \notin EncLevels \/ s.in_enc_policy \notin EncPolicies
       \/ s.out_enc_policy \notin EncPolicies
    THEN Unreadable
    ELSE [incoming |-> FromLt(Policies, s.in_enc_policy),
          outgoing |-> FromLt(Policies, s.out_enc_policy),
          methods |-> Levels[s.allowed_enc_level],
          prefer_rc4 |-> s.prefer_rc4,
          announce_support |-> s.announce_crypto_support]

read_peer_transports(s) ==
    [tcp |-> [incoming |-> s.enable_incoming_tcp, outgoing |-> s.enable_outgoing_tcp],
     utp |-> [incoming |-> s.enable_incoming_utp, outgoing |-> s.enable_outgoing_utp]]

read_outgoing_port_range(s) ==
    LET first == s.outgoing_port
        count == IF s.num_outgoing_ports < 0 THEN 0 ELSE s.num_outgoing_ports
    IN CASE first <= 0 -> Null
         [] first > MaxU16 -> Unreadable
         [] OTHER -> [first |-> first,
                      last |-> IF count > MaxU16 - first THEN MaxU16 ELSE first + count]

\* A read mode cannot be the write-only one; it reads as the normal mode.
read_disk_io_cache(s) ==
    IF {s.disk_io_read_mode, s.disk_io_write_mode} \subseteq IoBufferModes
    THEN [read |-> IF s.disk_io_read_mode = "WriteThrough" THEN "EnableOsCache"
                   ELSE s.disk_io_read_mode,
          write |-> s.disk_io_write_mode]
    ELSE Unreadable

ReadField(f, s) ==
    CASE f \in ScalarFields -> scalar_get(f, s)
      [] f = "user_agent" -> read_user_agent(s)
      [] f = "proxy" -> read_proxy(s)
      [] f = "i2p" -> read_i2p(s)
      [] f = "encryption" -> read_encryption(s)
      [] f = "peer_transports" -> read_peer_transports(s)
      [] f = "outgoing_port_range" -> read_outgoing_port_range(s)
      [] f = "disk_io_cache" -> read_disk_io_cache(s)
      [] f \in DOMAIN EnumFields -> FromLt(EnumFields[f], s[TheSetting(f)])
      [] OTHER -> Parsed(s[f])

(***************************************************************************)
(* The values the declared type of a field admits: GraphQL rejects an      *)
(* input that holds another one before any of the above sees it.  One      *)
(* record stands for the entries of the three lists, of which an outgoing  *)
(* interface uses the host, and a bootstrap node the host and the port.    *)
(***************************************************************************)
U16s == 0 .. MaxU16
U8s == 0 .. MaxU8
Hosts == [open : BOOLEAN, body : Bodies, close : BOOLEAN]

ProxySettings ==
    [protocol : ProxyTypes \ {"None"}, hostname : Hosts, port : U16s,
     username : Nat, password : Nat, resolve_hostnames : BOOLEAN,
     peer_connections : BOOLEAN, tracker_connections : BOOLEAN,
     socks5_udp_send_local_endpoint : BOOLEAN, send_hostname_in_connect : BOOLEAN]

I2pTunnel == [tunnels : U8s, hops : U8s, hop_variance : -128 .. 127]
I2pSettings == [hostname : Hosts, port : U16s, allow_mixed : BOOLEAN,
                inbound : I2pTunnel, outbound : I2pTunnel]

EncryptionSettings ==
    [incoming : DOMAIN Policies, outgoing : DOMAIN Policies,
     methods : SUBSET {"plaintext", "rc4"}, prefer_rc4 : BOOLEAN,
     announce_support : BOOLEAN]

TransportDirections == [incoming : BOOLEAN, outgoing : BOOLEAN]
PeerTransports == [tcp : TransportDirections, utp : TransportDirections]
PortRange == [first : U16s, last : U16s]
DiskIoCache == [read : IoBufferModes \ {"WriteThrough"}, write : IoBufferModes]
ListEntry == [host : Hosts, port : U16s, ssl : BOOLEAN, local : BOOLEAN]

ScalarSchema(ty) == CASE ty = "bool" -> BOOLEAN
                      [] ty \in {"String", "String checked"} -> Nat
                      [] ty = "u16" -> U16s
                      [] ty = "u8" -> U8s
                      [] OTHER -> MinI32 .. MaxI32

Schema(f) ==
    CASE f \in ScalarFields -> ScalarSchema(Scalars[f])
      [] f = "user_agent" -> UserAgents
      [] f = "proxy" -> ProxySettings
      [] f = "i2p" -> I2pSettings
      [] f = "encryption" -> EncryptionSettings
      [] f = "peer_transports" -> PeerTransports
      [] f = "outgoing_port_range" -> PortRange
      [] f = "disk_io_cache" -> DiskIoCache
      [] f \in DOMAIN EnumFields -> DOMAIN EnumFields[f]
      [] OTHER -> Seq(ListEntry)

\* The markers are no values, and an input has fields of the interface with
\* null or values of their types.
ASSUME MarkersAssumption ==
    /\ Null # Unreadable
    /\ \A f \in StructuredFields : Null \notin Schema(f) /\ Unreadable \notin Schema(f)
    /\ Default \notin BOOLEAN /\ Default \notin Int
ASSUME InputsAssumption ==
    \A i \in Inputs : \A f \in DOMAIN i :
        /\ f \in ScalarFields \cup StructuredFields
        /\ i[f] = Null \/ i[f] \in Schema(f)

\* A state file of other origin: libtorrent loads a setting by its type, so
\* the numbers may be any, an entry of a list may lack its port, and an
\* enumeration may be a number without a name.
StoredEntry == [host : Hosts, port : U16s \cup {NoPort}, ssl : BOOLEAN, local : BOOLEAN]
Storable(n, v) ==
    /\ n \in BoolSettings => v \in BOOLEAN
    /\ n \in {"proxy_hostname", "i2p_hostname"} => v \in Hosts
    /\ n \in {"proxy_username", "proxy_password"} => v \in Nat
    /\ n \in {"outgoing_port", "num_outgoing_ports", "proxy_port"} => v \in Int
    /\ n \in {"outgoing_interfaces", "listen_interfaces", "dht_bootstrap_nodes"} =>
         v \in Seq(StoredEntry)
ASSUME ForeignAssumption ==
    \A over \in Foreign : \A n \in DOMAIN over : Storable(n, over[n])

(***************************************************************************)
(* The state machine: inputs are validated as a whole, then merged.        *)
(***************************************************************************)
Valid(i) == \A f \in DOMAIN i : WriteField(f, i[f]).ok

\* The fields stage disjoint settings.
Merge(i) ==
    LET staged(f) == WriteField(f, i[f]).set
    IN [n \in UNION {DOMAIN staged(f) : f \in DOMAIN i} |->
          LET f == CHOOSE g \in DOMAIN i : n \in DOMAIN staged(g)
          IN staged(f)[n]]

Init ==
    /\ \E over \in Foreign \cup {<<>>} :
         /\ session = over ++ Defaults
         /\ foreign = DOMAIN over
         /\ changes = IF over = <<>> THEN 0 ELSE MaxChanges - 1
    /\ last = [input |-> <<>>, ok |-> TRUE]

\* Only accepted changes of structured fields meet in one session: a scalar
\* shares its setting with no other field, a rejected input leaves nothing.
Groups(i) == Valid(i) /\ DOMAIN i \subseteq StructuredFields

ApplySettings(i) ==
    /\ changes < MaxChanges
    /\ last' = [input |-> i, ok |-> Valid(i)]
    /\ LET delta == IF Valid(i) THEN Merge(i) ELSE <<>>
       IN /\ session' = delta ++ session
          /\ foreign' = foreign \ DOMAIN delta
    /\ changes' = IF Groups(i) THEN changes + 1 ELSE MaxChanges

Next == \E i \in Inputs : ApplySettings(i)

Spec == Init /\ [][Next]_vars

(***************************************************************************)
(* Properties.                                                             *)
(***************************************************************************)
\* What was accepted reads back as it was sent, with the brackets of a
\* proxy or i2p host taken off; a group set to null reads as null.
Canonical(f, v) ==
    IF f \in {"proxy", "i2p"} /\ v # Null
    THEN [v EXCEPT !.hostname = Stripped(v.hostname)] ELSE v
RoundTrip ==
    last.ok => \A f \in DOMAIN last.input :
        ReadField(f, session) = Canonical(f, last.input[f])

\* What is read can be sent back: it is a value of the field's type, and a
\* client that reads a field, edits nothing and sends it is accepted and
\* changes nothing.  Where another program wrote the settings the value may
\* be refused (an identity that is not recognized is read-only,
\* structured.rs:48); if it is accepted the daemon takes over the whole group
\* and the field still reads as it did.
WriteBack ==
    \A f \in StructuredFields :
        LET v == ReadField(f, session)
            w == WriteField(f, v)
        IN /\ v # Unreadable => v = Null \/ v \in Schema(f)
           /\ backing(f) \cap foreign = {} =>
                /\ v # Unreadable /\ w.ok
                /\ \A n \in DOMAIN w.set : w.set[n] = session[n]
           /\ (v # Unreadable /\ w.ok) =>
                /\ DOMAIN w.set = backing(f)
                /\ ReadField(f, w.set) = Canonical(f, v)

\* No credentials outlive the protocol that uses them: a password without
\* an authenticating proxy, or a name without a proxy, is never stored.
NoStaleCredentials ==
    PROXY_BACKING \cap foreign = {} =>
        /\ session.proxy_password # 0 => session.proxy_type \in {"Socks5Pw", "HttpPw"}
        /\ session.proxy_username # 0 =>
             session.proxy_type \in {"Socks4", "Socks5Pw", "HttpPw"}
=============================================================================
