---------------------------- MODULE SettingsTable ----------------------------
(***************************************************************************)
(* The settings of the session and who may write what: the generated table *)
(* of libtorrent's settings (rbtorrent/src/settings/table.rs), the typed   *)
(* setters with the values they accept (the other files of that           *)
(* directory), and the declarations of the public interface: the scalar    *)
(* fields (rsbtd/src/api/settings/catalog.rs), the structured fields       *)
(* (structured.rs) and the blacklist (mod.rs).                             *)
(*                                                                         *)
(* The three lists are kept by hand in three places of the source; here    *)
(* they are three tables over the settings' names.                         *)
(***************************************************************************)
EXTENDS Integers

\* One table of the tables in F, which have no name in common.
Assembled(F) == [n \in UNION {DOMAIN t : t \in F} |-> (CHOOSE t \in F : n \in DOMAIN t)[n]]

(***************************************************************************)
(* What a setter accepts.  The argument type of a setter is part of its    *)
(* domain: a u16 cannot hold a negative number.                            *)
(***************************************************************************)
MaxI32 == 2147483647
MinI32 == -2147483647 - 1
MaxU16 == 65535
MaxU8 == 255

InRange(lo, hi) == [kind |-> "Int", lo |-> lo, hi |-> hi]
I32 == InRange(MinI32, MaxI32)
U16 == InRange(0, MaxU16)
U8 == InRange(0, MaxU8)
Flag == [kind |-> "Bool"]
UpTo(n) == [kind |-> "Str", max |-> n]     \* at most n bytes
Str == UpTo(MaxI32)
OneOf(S) == [kind |-> "Enum", of |-> S]    \* stored as an integer
BareHosts == [kind |-> "Hosts"]            \* a list, joined by commas
Endpoints == [kind |-> "Hosts"]            \* a list of host:port

EncPolicies == {"PeForced", "PeEnabled", "PeDisabled"}
EncLevels == {"PePlaintext", "PeRc4", "PeBoth"}
ProxyTypes == {"None", "Socks4", "Socks5", "Socks5Pw", "Http", "HttpPw"}
MmapWriteModes == {"AlwaysPwrite", "AlwaysMmapWrite", "AutoMmapWrite"}
SuggestModes == {"NoPieceSuggestions", "SuggestReadCache"}
ChokingAlgorithms == {"FixedSlotsChoker", "RateBasedChoker"}
SeedChokingAlgorithms == {"RoundRobin", "FastestUpload", "AntiLeech"}
IoBufferModes == {"EnableOsCache", "DisableOsCache", "WriteThrough"}
BandwidthMixedAlgos == {"PreferTcp", "PeerProportional"}

(***************************************************************************)
(* The typed setters, in the order of their files.                         *)
(***************************************************************************)
tracker_identity ==
    [user_agent |-> Str, announce_ip |-> Str, handshake_client_version |-> Str,
     auto_manage_prefer_seeds |-> Flag, dont_count_slow_torrents |-> Flag,
     announce_to_all_tiers |-> Flag, announce_to_all_trackers |-> Flag,
     prefer_udp_trackers |-> Flag]

tracker_policy ==
    [incoming_starts_queued_torrents |-> Flag, always_send_user_agent |-> Flag,
     apply_ip_filter_to_trackers |-> Flag, announce_crypto_support |-> Flag,
     validate_https_trackers |-> Flag, ssrf_mitigation |-> Flag,
     allow_idna |-> Flag]

tracker_timeouts ==
    [tracker_completion_timeout |-> InRange(1, MaxI32),
     tracker_receive_timeout |-> InRange(1, MaxI32),
     stop_tracker_timeout |-> I32, num_want |-> I32, active_downloads |-> I32,
     active_seeds |-> I32, active_checking |-> I32, active_dht_limit |-> I32]

queue_limits ==
    [active_tracker_limit |-> I32, active_lsd_limit |-> I32,
     active_limit |-> I32, auto_manage_interval |-> I32,
     seed_time_limit |-> I32, auto_scrape_interval |-> I32,
     auto_scrape_min_interval |-> I32, min_announce_interval |-> I32,
     auto_manage_startup |-> I32]

announce_limits ==
    [udp_tracker_token_expiry |-> I32, tracker_backoff |-> InRange(0, 26630),
     share_ratio_limit |-> I32, seed_time_ratio_limit |-> I32,
     max_http_recv_buffer_size |-> I32,
     max_concurrent_http_announces |-> InRange(1, MaxI32),
     announce_port |-> U16]

listen_endpoints ==
    [outgoing_interfaces |-> BareHosts, listen_interfaces |-> Endpoints,
     peer_fingerprint |-> UpTo(19), allow_multiple_connections_per_ip |-> Flag]

transport_switches ==
    [use_parole_mode |-> Flag, close_redundant_connections |-> Flag,
     enable_outgoing_utp |-> Flag, enable_incoming_utp |-> Flag,
     enable_outgoing_tcp |-> Flag, enable_incoming_tcp |-> Flag,
     seeding_outgoing_connections |-> Flag,
     no_connect_privileged_ports |-> Flag]

connect_timing ==
    [smooth_connects |-> Flag, listen_system_port_fallback |-> Flag,
     allow_multiple_connections_per_pid |-> Flag,
     peer_timeout |-> InRange(1, 536870911),
     max_failcount |-> InRange(1, 16383),
     min_reconnect_time |-> InRange(0, 65535),
     peer_connect_timeout |-> InRange(1, 2147482623), connection_speed |-> I32]

outgoing_binding ==
    [inactivity_timeout |-> I32, handshake_timeout |-> InRange(1, 536870911),
     outgoing_port |-> I32, num_outgoing_ports |-> I32,
     peer_dscp |-> InRange(0, 63)]

peer_lists ==
    [max_peerlist_size |-> InRange(0, 22605091),
     max_paused_peerlist_size |-> InRange(0, 22605091),
     recv_socket_buffer_size |-> I32, send_socket_buffer_size |-> I32,
     max_peer_recv_buffer_size |-> InRange(16384, MaxI32),
     max_pex_peers |-> I32, connections_limit |-> I32]

peer_turnover_settings ==
    [connections_slack |-> I32, listen_queue_size |-> I32,
     torrent_connect_boost |-> U8, peer_turnover |-> InRange(0, 100),
     peer_turnover_cutoff |-> I32, peer_turnover_interval |-> I32,
     connect_seed_every_n_download |-> I32, max_retry_port_bind |-> I32]

proxy_hosts ==
    [proxy_hostname |-> Str, proxy_username |-> Str, proxy_password |-> Str,
     i2p_hostname |-> Str, allow_i2p_mixed |-> Flag, anonymous_mode |-> Flag,
     report_web_seed_downloads |-> Flag, ban_web_seeds |-> Flag,
     prefer_rc4 |-> Flag]

proxy_switches ==
    [proxy_hostnames |-> Flag, proxy_peer_connections |-> Flag,
     proxy_tracker_connections |-> Flag, socks5_udp_send_local_ep |-> Flag,
     proxy_send_host_in_connect |-> Flag, urlseed_timeout |-> I32,
     urlseed_wait_retry |-> I32, tick_interval |-> InRange(1, 1000)]

encryption_levels ==
    [alert_queue_size |-> InRange(1, MaxI32), alert_mask |-> I32,
     out_enc_policy |-> OneOf(EncPolicies),
     in_enc_policy |-> OneOf(EncPolicies),
     allowed_enc_level |-> OneOf(EncLevels), proxy_type |-> OneOf(ProxyTypes),
     proxy_port |-> I32, i2p_port |-> I32, urlseed_max_request_bytes |-> I32]

i2p_tunnels ==
    [web_seed_name_lookup_retry |-> I32, max_web_seed_connections |-> I32,
     resolver_cache_timeout |-> I32, i2p_inbound_quantity |-> I32,
     i2p_outbound_quantity |-> I32, i2p_inbound_length |-> I32,
     i2p_outbound_length |-> I32, i2p_inbound_length_variance |-> I32,
     i2p_outbound_length_variance |-> I32]

piece_policy ==
    [send_redundant_have |-> Flag, prioritize_partial_pieces |-> Flag,
     disable_hash_checks |-> Flag, no_atime_storage |-> Flag,
     report_true_downloaded |-> Flag, strict_end_game_mode |-> Flag,
     no_recheck_incomplete_resume |-> Flag, support_share_mode |-> Flag]

disk_policy ==
    [report_redundant_bytes |-> Flag, auto_sequential |-> Flag,
     piece_extent_affinity |-> Flag, enable_set_file_valid_data |-> Flag,
     disk_disable_copy_on_write |-> Flag, piece_timeout |-> I32,
     request_timeout |-> I32, request_queue_time |-> I32]

request_queues ==
    [max_allowed_in_request_queue |-> InRange(0, MaxI32),
     max_out_request_queue |-> I32, whole_pieces_threshold |-> I32,
     file_pool_size |-> InRange(1, MaxI32), initial_picker_threshold |-> I32,
     allowed_fast_set_size |-> I32, suggest_mode |-> OneOf(SuggestModes)]

disk_modes ==
    [max_queued_disk_bytes |-> InRange(0, MaxI32),
     disk_io_write_mode |-> OneOf(IoBufferModes),
     disk_io_read_mode |-> OneOf(IoBufferModes), seeding_piece_quota |-> I32,
     optimistic_disk_retry |-> I32, max_suggest_pieces |-> InRange(1, MaxI32),
     share_mode_target |-> I32]

disk_threads ==
    [max_metadata_size |-> InRange(1, MaxI32),
     hashing_threads |-> InRange(0, 1073741823),
     checking_mem_usage |-> InRange(1, 131071),
     predictive_piece_announce |-> I32, aio_threads |-> InRange(1, MaxI32),
     close_file_interval |-> I32, max_piece_count |-> InRange(1, 1073741823)]

mmap_settings ==
    [metadata_token_limit |-> InRange(1, MaxI32),
     disk_write_mode |-> OneOf(MmapWriteModes), mmap_file_size_cutoff |-> I32]

port_mapping ==
    [dht_bootstrap_nodes |-> Endpoints, natpmp_gateway |-> Str,
     use_dht_as_fallback |-> Flag, upnp_ignore_nonrouters |-> Flag,
     enable_upnp |-> Flag, enable_natpmp |-> Flag, enable_lsd |-> Flag]

dht_switches ==
    [enable_dht |-> Flag, enable_ip_notifier |-> Flag,
     dht_prefer_verified_node_ids |-> Flag, dht_restrict_routing_ips |-> Flag,
     dht_restrict_search_ips |-> Flag, dht_extended_routing_table |-> Flag,
     dht_aggressive_lookups |-> Flag, dht_privacy_lookups |-> Flag]

dht_intervals ==
    [dht_enforce_node_id |-> Flag, dht_ignore_dark_internet |-> Flag,
     dht_read_only |-> Flag,
     local_service_announce_interval |-> InRange(1, 2147483),
     dht_announce_interval |-> InRange(1, 2147483),
     dht_upload_rate_limit |-> I32,
     upnp_lease_duration |-> InRange(0, 715827882)]

dht_limits ==
    [dht_max_peers_reply |-> InRange(0, MaxI32),
     dht_search_branching |-> InRange(1, 127), dht_max_fail_count |-> I32,
     dht_max_torrents |-> I32, dht_max_dht_items |-> InRange(1, MaxI32),
     dht_max_peers |-> I32, dht_block_timeout |-> I32,
     dht_block_ratelimit |-> I32]

dht_items ==
    [dht_item_lifetime |-> I32,
     dht_sample_infohashes_interval |-> InRange(0, 21600),
     dht_max_infohashes_sample_count |-> I32, natpmp_lease_duration |-> I32]

unchoke_settings ==
    [rate_limit_ip_overhead |-> Flag, unchoke_interval |-> I32,
     optimistic_unchoke_interval |-> I32, send_buffer_low_watermark |-> I32,
     send_buffer_watermark |-> InRange(1, MaxI32),
     send_buffer_watermark_factor |-> I32,
     choking_algorithm |-> OneOf(ChokingAlgorithms)]

rate_limits ==
    [seed_choking_algorithm |-> OneOf(SeedChokingAlgorithms),
     num_optimistic_unchoke_slots |-> U16, upload_rate_limit |-> I32,
     download_rate_limit |-> I32, unchoke_slots_limit |-> I32,
     utp_target_delay |-> InRange(1, 2147483), utp_gain_factor |-> I32,
     utp_min_timeout |-> I32]

utp_resends ==
    [utp_syn_resends |-> I32, utp_fin_resends |-> I32, utp_num_resends |-> I32,
     utp_connect_timeout |-> InRange(1, MaxI32),
     utp_loss_multiplier |-> InRange(0, 100),
     mixed_mode_algorithm |-> OneOf(BandwidthMixedAlgos),
     inactive_down_rate |-> I32, inactive_up_rate |-> I32]

utp_windows ==
    [utp_cwnd_reduce_timer |-> I32, send_not_sent_low_watermark |-> I32,
     rate_choker_initial_threshold |-> I32]

Setters ==
    Assembled({
        tracker_identity, tracker_policy, tracker_timeouts,
        queue_limits, announce_limits, listen_endpoints,
        transport_switches, connect_timing, outgoing_binding,
        peer_lists, peer_turnover_settings, proxy_hosts, proxy_switches,
        encryption_levels, i2p_tunnels, piece_policy, disk_policy,
        request_queues, disk_modes, disk_threads, mmap_settings,
        port_mapping, dht_switches, dht_intervals, dht_limits,
        dht_items, unchoke_settings, rate_limits, utp_resends,
        utp_windows})

(***************************************************************************)
(* The generated table, by kind and in declaration order.                  *)
(***************************************************************************)
str_settings ==
    {"user_agent", "announce_ip", "handshake_client_version",
     "outgoing_interfaces", "listen_interfaces", "proxy_hostname",
     "proxy_username", "proxy_password", "i2p_hostname", "peer_fingerprint",
     "dht_bootstrap_nodes", "natpmp_gateway", "webtorrent_stun_server"}

bool_settings_1 ==
    {"allow_multiple_connections_per_ip", "send_redundant_have",
     "use_dht_as_fallback", "upnp_ignore_nonrouters", "use_parole_mode",
     "auto_manage_prefer_seeds", "dont_count_slow_torrents",
     "close_redundant_connections", "prioritize_partial_pieces",
     "rate_limit_ip_overhead", "announce_to_all_tiers",
     "announce_to_all_trackers", "prefer_udp_trackers", "disable_hash_checks",
     "allow_i2p_mixed", "no_atime_storage", "incoming_starts_queued_torrents",
     "report_true_downloaded", "strict_end_game_mode", "enable_outgoing_utp",
     "enable_incoming_utp", "enable_outgoing_tcp", "enable_incoming_tcp",
     "no_recheck_incomplete_resume", "anonymous_mode",
     "report_web_seed_downloads", "seeding_outgoing_connections",
     "no_connect_privileged_ports", "smooth_connects",
     "always_send_user_agent"}

bool_settings_2 ==
    {"apply_ip_filter_to_trackers", "ban_web_seeds", "support_share_mode",
     "report_redundant_bytes", "listen_system_port_fallback",
     "announce_crypto_support", "enable_upnp", "enable_natpmp", "enable_lsd",
     "enable_dht", "prefer_rc4", "proxy_hostnames", "proxy_peer_connections",
     "auto_sequential", "proxy_tracker_connections", "enable_ip_notifier",
     "dht_prefer_verified_node_ids", "dht_restrict_routing_ips",
     "dht_restrict_search_ips", "dht_extended_routing_table",
     "dht_aggressive_lookups", "dht_privacy_lookups", "dht_enforce_node_id",
     "dht_ignore_dark_internet", "dht_read_only", "piece_extent_affinity",
     "validate_https_trackers", "ssrf_mitigation", "allow_idna",
     "enable_set_file_valid_data"}

bool_settings_3 ==
    {"socks5_udp_send_local_ep", "proxy_send_host_in_connect",
     "disk_disable_copy_on_write", "allow_multiple_connections_per_pid"}

int_settings_1 ==
    {"tracker_completion_timeout", "tracker_receive_timeout",
     "stop_tracker_timeout", "tracker_maximum_response_length",
     "piece_timeout", "request_timeout", "request_queue_time",
     "max_allowed_in_request_queue", "max_out_request_queue",
     "whole_pieces_threshold", "peer_timeout", "urlseed_timeout",
     "urlseed_pipeline_size", "urlseed_wait_retry", "file_pool_size",
     "max_failcount", "min_reconnect_time", "peer_connect_timeout",
     "connection_speed", "inactivity_timeout", "unchoke_interval",
     "optimistic_unchoke_interval", "num_want", "initial_picker_threshold",
     "allowed_fast_set_size", "suggest_mode", "max_queued_disk_bytes",
     "handshake_timeout", "send_buffer_low_watermark", "send_buffer_watermark"}

int_settings_2 ==
    {"send_buffer_watermark_factor", "choking_algorithm",
     "seed_choking_algorithm", "disk_io_write_mode", "disk_io_read_mode",
     "outgoing_port", "num_outgoing_ports", "peer_dscp", "active_downloads",
     "active_seeds", "active_checking", "active_dht_limit",
     "active_tracker_limit", "active_lsd_limit", "active_limit",
     "auto_manage_interval", "seed_time_limit", "auto_scrape_interval",
     "auto_scrape_min_interval", "max_peerlist_size",
     "max_paused_peerlist_size", "min_announce_interval",
     "auto_manage_startup", "seeding_piece_quota", "max_rejects",
     "recv_socket_buffer_size", "send_socket_buffer_size",
     "max_peer_recv_buffer_size", "optimistic_disk_retry",
     "max_suggest_pieces"}

int_settings_3 ==
    {"local_service_announce_interval", "dht_announce_interval",
     "udp_tracker_token_expiry", "num_optimistic_unchoke_slots",
     "max_pex_peers", "tick_interval", "share_mode_target",
     "upload_rate_limit", "download_rate_limit", "dht_upload_rate_limit",
     "unchoke_slots_limit", "connections_limit", "connections_slack",
     "utp_target_delay", "utp_gain_factor", "utp_min_timeout",
     "utp_syn_resends", "utp_fin_resends", "utp_num_resends",
     "utp_connect_timeout", "utp_loss_multiplier", "mixed_mode_algorithm",
     "listen_queue_size", "torrent_connect_boost", "alert_queue_size",
     "max_metadata_size", "hashing_threads", "checking_mem_usage",
     "predictive_piece_announce", "aio_threads"}

int_settings_4 ==
    {"tracker_backoff", "share_ratio_limit", "seed_time_ratio_limit",
     "peer_turnover", "peer_turnover_cutoff", "peer_turnover_interval",
     "connect_seed_every_n_download", "max_http_recv_buffer_size",
     "max_retry_port_bind", "alert_mask", "out_enc_policy", "in_enc_policy",
     "allowed_enc_level", "inactive_down_rate", "inactive_up_rate",
     "proxy_type", "proxy_port", "i2p_port", "urlseed_max_request_bytes",
     "web_seed_name_lookup_retry", "close_file_interval",
     "utp_cwnd_reduce_timer", "max_web_seed_connections",
     "resolver_cache_timeout", "send_not_sent_low_watermark",
     "rate_choker_initial_threshold", "upnp_lease_duration",
     "max_concurrent_http_announces", "dht_max_peers_reply",
     "dht_search_branching"}

int_settings_5 ==
    {"dht_max_fail_count", "dht_max_torrents", "dht_max_dht_items",
     "dht_max_peers", "dht_max_torrent_search_reply", "dht_block_timeout",
     "dht_block_ratelimit", "dht_item_lifetime",
     "dht_sample_infohashes_interval", "dht_max_infohashes_sample_count",
     "max_piece_count", "metadata_token_limit", "disk_write_mode",
     "mmap_file_size_cutoff", "i2p_inbound_quantity", "i2p_outbound_quantity",
     "i2p_inbound_length", "i2p_outbound_length", "announce_port",
     "i2p_inbound_length_variance", "i2p_outbound_length_variance",
     "natpmp_lease_duration", "min_websocket_announce_interval",
     "webtorrent_connection_timeout"}

BoolSettings == bool_settings_1 \cup bool_settings_2 \cup bool_settings_3
IntSettings ==
    int_settings_1 \cup int_settings_2 \cup int_settings_3 \cup
    int_settings_4 \cup int_settings_5
ALL_SETTINGS == str_settings \cup BoolSettings \cup IntSettings

\* The kind the table gives a setting, and the one its setter implies.
SettingKind(n) == IF n \in str_settings THEN "Str"
                  ELSE IF n \in BoolSettings THEN "Bool" ELSE "Int"
KindOf(d) == CASE d.kind \in {"Str", "Hosts"} -> "Str"
               [] d.kind = "Bool" -> "Bool"
               [] OTHER -> "Int"

(***************************************************************************)
(* The scalar fields of the public interface and their declared types.     *)
(***************************************************************************)
catalog_1 ==
    [announce_ip |-> "String", handshake_client_version |-> "String",
     peer_fingerprint |-> "String checked", natpmp_gateway |-> "String",
     allow_multiple_connections_per_ip |-> "bool",
     send_redundant_have |-> "bool", use_dht_as_fallback |-> "bool",
     upnp_ignore_nonrouters |-> "bool", use_parole_mode |-> "bool",
     auto_manage_prefer_seeds |-> "bool", dont_count_slow_torrents |-> "bool",
     close_redundant_connections |-> "bool",
     prioritize_partial_pieces |-> "bool", rate_limit_ip_overhead |-> "bool",
     announce_to_all_tiers |-> "bool", announce_to_all_trackers |-> "bool",
     prefer_udp_trackers |-> "bool", no_atime_storage |-> "bool",
     incoming_starts_queued_torrents |-> "bool",
     report_true_downloaded |-> "bool", strict_end_game_mode |-> "bool",
     no_recheck_incomplete_resume |-> "bool", anonymous_mode |-> "bool",
     report_web_seed_downloads |-> "bool",
     seeding_outgoing_connections |-> "bool",
     no_connect_privileged_ports |-> "bool", smooth_connects |-> "bool",
     always_send_user_agent |-> "bool", apply_ip_filter_to_trackers |-> "bool",
     ban_web_seeds |-> "bool", support_share_mode |-> "bool",
     report_redundant_bytes |-> "bool", listen_system_port_fallback |-> "bool",
     enable_upnp |-> "bool"]

catalog_2 ==
    [enable_natpmp |-> "bool", enable_lsd |-> "bool", enable_dht |-> "bool",
     auto_sequential |-> "bool", enable_ip_notifier |-> "bool",
     dht_prefer_verified_node_ids |-> "bool",
     dht_restrict_routing_ips |-> "bool", dht_restrict_search_ips |-> "bool",
     dht_extended_routing_table |-> "bool", dht_aggressive_lookups |-> "bool",
     dht_privacy_lookups |-> "bool", dht_enforce_node_id |-> "bool",
     dht_ignore_dark_internet |-> "bool", dht_read_only |-> "bool",
     piece_extent_affinity |-> "bool", validate_https_trackers |-> "bool",
     ssrf_mitigation |-> "bool", allow_idna |-> "bool",
     disk_disable_copy_on_write |-> "bool",
     allow_multiple_connections_per_pid |-> "bool",
     tracker_completion_timeout |-> "i32 checked",
     tracker_receive_timeout |-> "i32 checked", stop_tracker_timeout |-> "i32",
     piece_timeout |-> "i32", request_timeout |-> "i32",
     request_queue_time |-> "i32",
     max_allowed_in_request_queue |-> "i32 checked",
     max_out_request_queue |-> "i32", whole_pieces_threshold |-> "i32",
     peer_timeout |-> "i32 checked", urlseed_timeout |-> "i32",
     urlseed_wait_retry |-> "i32", file_pool_size |-> "i32 checked",
     max_failcount |-> "i32 checked"]

catalog_3 ==
    [min_reconnect_time |-> "i32 checked",
     peer_connect_timeout |-> "i32 checked", connection_speed |-> "i32",
     inactivity_timeout |-> "i32", unchoke_interval |-> "i32",
     optimistic_unchoke_interval |-> "i32", num_want |-> "i32",
     initial_picker_threshold |-> "i32", allowed_fast_set_size |-> "i32",
     max_queued_disk_bytes |-> "i32 checked",
     handshake_timeout |-> "i32 checked", send_buffer_low_watermark |-> "i32",
     send_buffer_watermark |-> "i32 checked",
     send_buffer_watermark_factor |-> "i32", peer_dscp |-> "i32 dscp",
     active_downloads |-> "i32", active_seeds |-> "i32",
     active_checking |-> "i32", active_dht_limit |-> "i32",
     active_tracker_limit |-> "i32", active_lsd_limit |-> "i32",
     active_limit |-> "i32", auto_manage_interval |-> "i32",
     seed_time_limit |-> "i32", auto_scrape_interval |-> "i32",
     auto_scrape_min_interval |-> "i32", max_peerlist_size |-> "i32 checked",
     max_paused_peerlist_size |-> "i32 checked",
     min_announce_interval |-> "i32", auto_manage_startup |-> "i32",
     seeding_piece_quota |-> "i32", recv_socket_buffer_size |-> "i32",
     send_socket_buffer_size |-> "i32"]

catalog_4 ==
    [max_peer_recv_buffer_size |-> "i32 checked",
     optimistic_disk_retry |-> "i32", max_suggest_pieces |-> "i32 checked",
     local_service_announce_interval |-> "i32 checked",
     dht_announce_interval |-> "i32 checked",
     udp_tracker_token_expiry |-> "i32",
     num_optimistic_unchoke_slots |-> "u16", max_pex_peers |-> "i32",
     tick_interval |-> "i32 checked", share_mode_target |-> "i32",
     upload_rate_limit |-> "i32", download_rate_limit |-> "i32",
     dht_upload_rate_limit |-> "i32", unchoke_slots_limit |-> "i32",
     connections_limit |-> "i32", connections_slack |-> "i32",
     utp_target_delay |-> "i32 checked", utp_gain_factor |-> "i32",
     utp_min_timeout |-> "i32", utp_syn_resends |-> "i32",
     utp_fin_resends |-> "i32", utp_num_resends |-> "i32",
     utp_connect_timeout |-> "i32 checked",
     utp_loss_multiplier |-> "i32 checked", listen_queue_size |-> "i32",
     torrent_connect_boost |-> "u8", max_metadata_size |-> "i32 checked",
     hashing_threads |-> "i32 checked", checking_mem_usage |-> "i32 checked",
     predictive_piece_announce |-> "i32", aio_threads |-> "i32 checked",
     tracker_backoff |-> "i32 checked", share_ratio_limit |-> "i32",
     seed_time_ratio_limit |-> "i32"]

catalog_5 ==
    [peer_turnover |-> "i32 checked", peer_turnover_cutoff |-> "i32",
     peer_turnover_interval |-> "i32", connect_seed_every_n_download |-> "i32",
     max_http_recv_buffer_size |-> "i32", max_retry_port_bind |-> "i32",
     inactive_down_rate |-> "i32", inactive_up_rate |-> "i32",
     urlseed_max_request_bytes |-> "i32", web_seed_name_lookup_retry |-> "i32",
     close_file_interval |-> "i32", utp_cwnd_reduce_timer |-> "i32",
     max_web_seed_connections |-> "i32", resolver_cache_timeout |-> "i32",
     send_not_sent_low_watermark |-> "i32",
     rate_choker_initial_threshold |-> "i32",
     upnp_lease_duration |-> "i32 checked",
     max_concurrent_http_announces |-> "i32 checked",
     dht_max_peers_reply |-> "i32 checked",
     dht_search_branching |-> "i32 checked", dht_max_fail_count |-> "i32",
     dht_max_torrents |-> "i32", dht_max_dht_items |-> "i32 checked",
     dht_max_peers |-> "i32", dht_block_timeout |-> "i32",
     dht_block_ratelimit |-> "i32", dht_item_lifetime |-> "i32",
     dht_sample_infohashes_interval |-> "i32 checked",
     dht_max_infohashes_sample_count |-> "i32",
     max_piece_count |-> "i32 checked", metadata_token_limit |-> "i32 checked",
     mmap_file_size_cutoff |-> "i32", announce_port |-> "u16",
     natpmp_lease_duration |-> "i32"]

Scalars ==
    Assembled({catalog_1, catalog_2, catalog_3, catalog_4, catalog_5})

\* What the declared type says of the setter it is used with.
TypeFits(ty, d) ==
    \/ ty = "bool" /\ d = Flag
    \/ ty = "String" /\ d = Str
    \/ ty = "String checked" /\ d.kind = "Str" /\ d # Str
    \/ ty = "i32" /\ d = I32
    \/ /\ ty = "i32 checked" /\ d.kind = "Int" /\ d # I32
       /\ {d.lo, d.hi} \subseteq MinI32 .. MaxI32
    \/ ty = "i32 dscp" /\ d.kind = "Int" /\ {d.lo, d.hi} \subseteq 0 .. 63
    \/ ty = "u16" /\ d = U16
    \/ ty = "u8" /\ d = U8

(***************************************************************************)
(* The structured fields and the settings each of them owns, and what the  *)
(* interface does not expose.                                              *)
(***************************************************************************)
PROXY_BACKING ==
    {"proxy_type", "proxy_hostname", "proxy_port", "proxy_username",
     "proxy_password", "proxy_hostnames", "proxy_peer_connections",
     "proxy_tracker_connections", "socks5_udp_send_local_ep",
     "proxy_send_host_in_connect"}

I2P_BACKING ==
    {"i2p_hostname", "i2p_port", "allow_i2p_mixed", "i2p_inbound_quantity",
     "i2p_outbound_quantity", "i2p_inbound_length", "i2p_outbound_length",
     "i2p_inbound_length_variance", "i2p_outbound_length_variance"}

STRUCTURED_BACKING ==
    [user_agent |-> {"user_agent"},
     proxy |-> PROXY_BACKING,
     i2p |-> I2P_BACKING,
     encryption |-> {"out_enc_policy", "in_enc_policy", "allowed_enc_level",
                     "prefer_rc4", "announce_crypto_support"},
     peer_transports |-> {"enable_incoming_tcp", "enable_outgoing_tcp",
                          "enable_incoming_utp", "enable_outgoing_utp"},
     outgoing_port_range |-> {"outgoing_port", "num_outgoing_ports"},
     disk_io_cache |-> {"disk_io_read_mode", "disk_io_write_mode"},
     mmap_write_mode |-> {"disk_write_mode"},
     suggest_mode |-> {"suggest_mode"},
     choking_algorithm |-> {"choking_algorithm"},
     seed_choking_algorithm |-> {"seed_choking_algorithm"},
     mixed_mode_algorithm |-> {"mixed_mode_algorithm"},
     outgoing_interfaces |-> {"outgoing_interfaces"},
     listen_interfaces |-> {"listen_interfaces"},
     dht_bootstrap_nodes |-> {"dht_bootstrap_nodes"}]

BLACKLIST ==
    {"alert_mask", "alert_queue_size", "disable_hash_checks",
     "enable_set_file_valid_data", "max_rejects",
     "tracker_maximum_response_length", "urlseed_pipeline_size",
     "dht_max_torrent_search_reply", "webtorrent_stun_server",
     "min_websocket_announce_interval", "webtorrent_connection_timeout"}

ScalarFields == DOMAIN Scalars
StructuredFields == DOMAIN STRUCTURED_BACKING

backing(f) == IF f \in StructuredFields THEN STRUCTURED_BACKING[f] ELSE {f}

\* The field tables partition the entire settings table.
ASSUME Partition ==
    /\ \A n \in ALL_SETTINGS :
         \/ n \in BLACKLIST
         \/ \E f \in ScalarFields \cup StructuredFields : n \in backing(f)
    /\ \A f \in ScalarFields \cup StructuredFields :
         /\ backing(f) \subseteq ALL_SETTINGS \ BLACKLIST
         /\ \A g \in StructuredFields \ {f} : backing(f) \cap backing(g) = {}
    /\ ScalarFields \cap StructuredFields = {}

\* Every exposed setting has a setter, of the kind the table gives it, and
\* every scalar is declared with the type its setter takes; the traffic
\* class is the one that is stored otherwise than it is sent.
ASSUME Agreement ==
    /\ \A n \in DOMAIN Setters : KindOf(Setters[n]) = SettingKind(n)
    /\ \A f \in ScalarFields : /\ TypeFits(Scalars[f], Setters[f])
                               /\ Scalars[f] = "i32 dscp" <=> f = "peer_dscp"
    /\ \A n \in ALL_SETTINGS : n \in DOMAIN Setters \/ n \in BLACKLIST
=============================================================================
