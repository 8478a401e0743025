----------------------------- MODULE MCSettings -----------------------------
(* Boundary values of every scalar, and of every structured field the      *)
(* values its validation tells apart; inputs of one field and a pair.      *)
EXTENDS Settings, TLC

Near(lo, hi) == {lo, hi} \cup (IF lo > MinI32 THEN {lo - 1} ELSE {})
                        \cup (IF hi < MaxI32 THEN {hi + 1} ELSE {})

\* The schema's types keep what does not fit an integer type out.
ScalarValues(f) ==
    {Null} \cup
    CASE Scalars[f] = "bool" -> {TRUE}
      [] Scalars[f] = "String" -> {0, 255}
      [] Scalars[f] = "String checked" -> {0, 19, 20}
      [] Scalars[f] \in {"u16", "u8", "i32"} -> {Setters[f].lo, Setters[f].hi}
      [] OTHER -> Near(Setters[f].lo, Setters[f].hi)

HostValues == {NoHost, Plain("name"), Plain("ip6"), Plain("comma"), Bracketed("ip6"),
               Host(TRUE, "name", FALSE)}
Flags == {TRUE, FALSE}

Proxies ==
    [protocol : ProxyTypes \ {"None"},
     hostname : {Plain("name"), Bracketed("ip6"), Host(TRUE, "name", FALSE)},
     port : {0, 1080}, username : {0, 8}, password : {0, 8, 256},
     resolve_hostnames : Flags, peer_connections : {TRUE},
     tracker_connections : {FALSE}, socks5_udp_send_local_endpoint : Flags,
     send_hostname_in_connect : Flags]
Tunnel(q, h, v) == [tunnels |-> q, hops |-> h, hop_variance |-> v]
Tunnels == {Tunnel(1, 7, 7), Tunnel(16, 0, -7), Tunnel(0, 3, 0), Tunnel(17, 3, 0),
            Tunnel(3, 8, 0), Tunnel(3, 3, 8), Tunnel(3, 3, -8)}
I2ps == [hostname : HostValues, port : {0, 7656}, allow_mixed : {TRUE},
         inbound : Tunnels, outbound : {Tunnel(3, 3, 0), Tunnel(3, 3, 8)}]
Encryptions == [incoming : {"Forced", "Disabled"}, outgoing : {"Enabled"},
                methods : SUBSET {"plaintext", "rc4"}, prefer_rc4 : Flags,
                announce_support : {FALSE}]
Directions == [incoming : Flags, outgoing : Flags]
Transports == [tcp : Directions, utp : {[incoming |-> FALSE, outgoing |-> TRUE]}]
Ranges == [first : {0, 1, 65535}, last : {0, 1, 65535}]
Caches == [read : {"EnableOsCache", "DisableOsCache"}, write : IoBufferModes]
Entry(h, p) == [host |-> h, port |-> p, ssl |-> p = 0, local |-> FALSE]
Lists == {<<>>} \cup {<<Entry(h, p)>> : h \in HostValues, p \in {0, 6881}}
          \cup {<<Entry(Plain("name"), 6881), Entry(h, 6881)>> : h \in HostValues}

StructuredValues(f) ==
    {Null} \cup
    CASE f = "user_agent" -> UserAgents
      [] f = "proxy" -> Proxies
      [] f = "i2p" -> I2ps
      [] f = "encryption" -> Encryptions
      [] f = "peer_transports" -> Transports
      [] f = "outgoing_port_range" -> Ranges
      [] f = "disk_io_cache" -> Caches
      [] f \in DOMAIN EnumFields -> DOMAIN EnumFields[f]
      [] OTHER -> Lists

AllInputs ==
    UNION {{f :> v : v \in ScalarValues(f)} : f \in ScalarFields}
    \cup UNION {{f :> v : v \in StructuredValues(f)} : f \in StructuredFields}
    \cup {("tick_interval" :> v) @@ ("enable_dht" :> FALSE) : v \in {1, 1001}}
    \cup {("proxy" :> Null) @@ ("i2p" :> v) : v \in I2ps}

\* Numbers out of range, names that are unknown here, hosts in brackets, a
\* name beside a proxy that takes none, an entry without its port.
ForeignStates ==
    {"announce_port" :> 70000, "torrent_connect_boost" :> -1,
     "peer_dscp" :> 255, "disk_io_read_mode" :> "WriteThrough",
     "suggest_mode" :> "unknown", "i2p_port" :> 70000,
     "in_enc_policy" :> "unknown",
     "user_agent" :> UserAgentString("other", "1"),
     "user_agent" :> UserAgentString("rsbtd", "older"),
     ("proxy_type" :> "Socks5") @@ ("proxy_port" :> 70000),
     ("proxy_type" :> "Socks4") @@ ("proxy_port" :> 1080)
         @@ ("proxy_hostname" :> Bracketed("ip6")) @@ ("proxy_username" :> 8),
     ("proxy_type" :> "Http") @@ ("proxy_port" :> 1080)
         @@ ("proxy_hostname" :> Plain("name")) @@ ("proxy_password" :> 8),
     ("i2p_hostname" :> Bracketed("ip6")) @@ ("i2p_inbound_quantity" :> 16)
         @@ ("i2p_outbound_quantity" :> 1),
     ("i2p_hostname" :> Plain("name")) @@ ("i2p_inbound_quantity" :> 256),
     ("i2p_hostname" :> Plain("name")) @@ ("i2p_inbound_quantity" :> 17),
     ("outgoing_port" :> 65535) @@ ("num_outgoing_ports" :> MaxI32),
     ("outgoing_port" :> 1) @@ ("num_outgoing_ports" :> -1),
     "outgoing_port" :> 70000,
     "listen_interfaces" :> <<Entry(Plain("name"), NoPort)>>,
     "dht_bootstrap_nodes" :> <<Entry(Bracketed("ip6"), 0)>>}
=============================================================================
