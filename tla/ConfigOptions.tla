---------------------------- MODULE ConfigOptions ----------------------------
(***************************************************************************)
(* What SrsConfig reads of the tree: the getters, the names that           *)
(* check_config allows, and the dumps of the tree for the HTTP API.        *)
(***************************************************************************)
EXTENDS ConfigTree

(* What a getter reads: the option at a path (below the root, the vhost or *)
(* a directive that the caller passes), how its argument is converted, the *)
(* default, and whether an empty argument counts as none.                  *)
Getter(path, as, default) == [path |-> path, as |-> as, default |-> default, orEmpty |-> TRUE]

GetterArg(path, as, default) == [Getter(path, as, default) EXCEPT !.orEmpty = FALSE]

(* A getter that gives the directive itself, for all its arguments.        *)
Directive(path) == GetterArg(path, "args", <<>>)

(* The numbers among the words that the model writes.                      *)
Numbers == ("0" :> 0) @@ ("1" :> 1) @@ ("7" :> 7) @@ ("50" :> 50) @@ ("1935" :> 1935)

atoi(w) == IF w \in DOMAIN Numbers THEN Numbers[w] ELSE 0

(* _srs_time_jitter_string2int: everything but full and zero is off.       *)
time_jitter(w) == CASE w = "full" -> "full" [] w = "zero" -> "zero" [] OTHER -> "off"

(* The conversions of the first argument: SRS_CONF_PERFER_FALSE,           *)
(* SRS_CONF_PERFER_TRUE, atoi, seconds to milliseconds, and the words.     *)
Converted(as, d) ==
    LET w == arg0(d)
    IN  CASE as = "on" -> w = "on"
          [] as = "not off" -> w # "off"
          [] as = "integer" -> atoi(w)
          [] as = "ms" -> 1000 * atoi(w)
          [] as = "jitter" -> time_jitter(w)
          [] as = "remote" -> w = "remote"
          [] as = "not console" -> w # "console"
          [] as = "string" -> w
          [] as = "args" -> d.args
          [] as = "options" -> [i \in DOMAIN d.directives |-> <<d.directives[i].name, arg0(d.directives[i])>>]

(* The directive below d along a path.                                     *)
Follow(d, path) == FoldLeft(LAMBDA c, name : IF c = NULL THEN NULL ELSE get(c, name), d, path)

Value(getter, d) ==
    LET Read(c) == IF c = NULL \/ (getter.orEmpty /\ arg0(c) = "") THEN getter.default ELSE Converted(getter.as, c)
    IN  Read(Follow(d, getter.path))

-----------------------------------------------------------------------------
(* The getters of the root                                                 *)

GlobalGetters == [
    get_deamon          |-> Getter(<<"daemon">>, "not off", TRUE),
    get_max_connections |-> Getter(<<"max_connections">>, "integer", 1000),
    get_listens         |-> Directive(<<"listen">>),
    get_pid_file        |-> Getter(<<"pid">>, "string", "./objs/srs.pid"),
    get_pithy_print_ms  |-> Getter(<<"pithy_print_ms">>, "integer", 10000),
    get_utc_time        |-> Getter(<<"utc_time">>, "on", FALSE),
    get_work_dir        |-> Getter(<<"work_dir">>, "string", "./"),
    get_asprocess       |-> Getter(<<"asprocess">>, "on", FALSE)]

KafkaGetters == [
    get_kafka_enabled |-> Getter(<<"kafka", "enabled">>, "on", FALSE),
    get_kafka_brokers |-> Directive(<<"kafka", "brokers">>),
    get_kafka_topic   |-> Getter(<<"kafka", "topic">>, "string", "srs")]

ChunkSizeGetters == [get_global_chunk_size |-> Getter(<<"chunk_size">>, "integer", 60000)]

LogGetters == [
    get_log_tank_file  |-> Getter(<<"srs_log_tank">>, "not console", TRUE),
    get_log_level      |-> Getter(<<"srs_log_level">>, "string", "trace"),
    get_log_file       |-> Getter(<<"srs_log_file">>, "string", "./objs/srs.log"),
    get_ffmpeg_log_dir |-> Getter(<<"ff_log_dir">>, "string", "./objs")]

HttpApiGetters == [
    get_http_api_enabled     |-> Getter(<<"http_api", "enabled">>, "on", FALSE),
    get_http_api_listen      |-> Getter(<<"http_api", "listen">>, "string", "1985"),
    get_http_api_crossdomain |-> Getter(<<"http_api", "crossdomain">>, "not off", TRUE),
    get_raw_api              |-> Getter(<<"http_api", "raw_api", "enabled">>, "on", FALSE),
    get_raw_api_allow_reload |-> Getter(<<"http_api", "raw_api", "allow_reload">>, "on", FALSE),
    get_raw_api_allow_query  |-> Getter(<<"http_api", "raw_api", "allow_query">>, "on", FALSE),
    get_raw_api_allow_update |-> Getter(<<"http_api", "raw_api", "allow_update">>, "on", FALSE)]

HttpStreamGetters == [
    get_http_stream_enabled     |-> Getter(<<"http_server", "enabled">>, "on", FALSE),
    get_http_stream_listen      |-> Getter(<<"http_server", "listen">>, "string", "8080"),
    get_http_stream_dir         |-> Getter(<<"http_server", "dir">>, "string", "./objs/nginx/html"),
    get_http_stream_crossdomain |-> Getter(<<"http_server", "crossdomain">>, "not off", TRUE)]

HeartbeatGetters == [
    get_heartbeat_enabled   |-> Getter(<<"heartbeat", "enabled">>, "on", FALSE),
    get_heartbeat_interval  |-> Getter(<<"heartbeat", "interval">>, "ms", 9900),
    get_heartbeat_url       |-> Getter(<<"heartbeat", "url">>, "string", "http://127.0.0.1:8085/api/v1/servers"),
    get_heartbeat_device_id |-> Getter(<<"heartbeat", "device_id">>, "string", ""),
    get_heartbeat_summaries |-> Getter(<<"heartbeat", "summaries">>, "on", FALSE),
    get_stats_network       |-> Getter(<<"stats", "network">>, "integer", 0),
    get_stats_disk_device   |-> Directive(<<"stats", "disk">>)]

RootGetters == GlobalGetters @@ KafkaGetters @@ ChunkSizeGetters @@ LogGetters @@ HttpApiGetters
               @@ HttpStreamGetters @@ HeartbeatGetters

-----------------------------------------------------------------------------
(* The getters of a vhost                                                  *)

PlayGetters == [
    get_vhost_enabled    |-> Getter(<<"enabled">>, "not off", TRUE),
    get_gop_cache        |-> Getter(<<"play", "gop_cache">>, "not off", TRUE),
    get_debug_srs_upnode |-> Getter(<<"cluster", "debug_srs_upnode">>, "not off", TRUE),
    get_atc              |-> Getter(<<"play", "atc">>, "on", FALSE),
    get_atc_auto         |-> Getter(<<"play", "atc_auto">>, "on", FALSE),
    get_time_jitter      |-> Getter(<<"play", "time_jitter">>, "jitter", "full"),
    get_mix_correct      |-> Getter(<<"play", "mix_correct">>, "on", FALSE)]

ReferGetters == [
    get_queue_length  |-> Getter(<<"play", "queue_length">>, "integer", 30),
    get_refer_enabled |-> Getter(<<"refer", "enabled">>, "on", FALSE),
    get_refer_all     |-> Directive(<<"refer", "all">>),
    get_refer_play    |-> Directive(<<"refer", "play">>),
    get_refer_publish |-> Directive(<<"refer", "publish">>),
    get_in_ack_size   |-> Getter(<<"in_ack_size">>, "integer", 0),
    get_out_ack_size  |-> Getter(<<"out_ack_size">>, "integer", 2500000)]

LatencyGetters == [
    get_parse_sps        |-> Getter(<<"publish", "parse_sps">>, "not off", TRUE),
    get_mr_enabled       |-> Getter(<<"publish", "mr">>, "on", FALSE),
    get_mr_sleep_ms      |-> Getter(<<"publish", "mr_latency">>, "integer", 350),
    get_mw_sleep_ms      |-> Getter(<<"play", "mw_latency">>, "integer", 350),
    get_realtime_enabled |-> Getter(<<"min_latency">>, "on", FALSE),
    get_tcp_nodelay      |-> Getter(<<"tcp_nodelay">>, "on", FALSE)]

PublishGetters == [
    get_send_min_interval      |-> Getter(<<"play", "send_min_interval">>, "integer", 0),
    get_reduce_sequence_header |-> Getter(<<"play", "reduce_sequence_header">>, "on", FALSE),
    get_publish_1stpkt_timeout |-> Getter(<<"publish", "firstpkt_timeout">>, "integer", 20000),
    get_publish_normal_timeout |-> Getter(<<"publish", "normal_timeout">>, "integer", 5000)]

ForwardGetters == [
    get_forward_enabled |-> Getter(<<"forward", "enabled">>, "on", FALSE),
    get_forwards        |-> Directive(<<"forward", "destination">>)]

HookGetters == [
    get_vhost_http_hooks_enabled |-> Getter(<<"http_hooks", "enabled">>, "on", FALSE),
    get_vhost_on_connect         |-> Directive(<<"http_hooks", "on_connect">>),
    get_vhost_on_close           |-> Directive(<<"http_hooks", "on_close">>),
    get_vhost_on_publish         |-> Directive(<<"http_hooks", "on_publish">>),
    get_vhost_on_unpublish       |-> Directive(<<"http_hooks", "on_unpublish">>),
    get_vhost_on_play            |-> Directive(<<"http_hooks", "on_play">>),
    get_vhost_on_stop            |-> Directive(<<"http_hooks", "on_stop">>),
    get_vhost_on_dvr             |-> Directive(<<"http_hooks", "on_dvr">>),
    get_vhost_on_hls             |-> Directive(<<"http_hooks", "on_hls">>),
    get_vhost_on_hls_notify      |-> Directive(<<"http_hooks", "on_hls_notify">>)]

BandcheckGetters == [
    get_bw_check_enabled     |-> Getter(<<"bandcheck", "enabled">>, "on", FALSE),
    get_bw_check_key         |-> Getter(<<"bandcheck", "key">>, "string", ""),
    get_bw_check_interval_ms |-> GetterArg(<<"bandcheck", "interval">>, "ms", 30000),
    get_bw_check_limit_kbps  |-> GetterArg(<<"bandcheck", "limit_kbps">>, "integer", 1000)]

ClusterGetters == [
    get_vhost_is_edge              |-> Getter(<<"cluster", "mode">>, "remote", FALSE),
    get_vhost_edge_origin          |-> Directive(<<"cluster", "origin">>),
    get_vhost_edge_token_traverse  |-> Getter(<<"cluster", "token_traverse">>, "on", FALSE),
    get_vhost_edge_transform_vhost |-> Getter(<<"cluster", "vhost">>, "string", "[vhost]"),
    get_security_enabled           |-> Getter(<<"security", "enabled">>, "on", FALSE)]

DashGetters == [
    get_dash_enabled       |-> Getter(<<"dash", "enabled">>, "on", FALSE),
    get_dash_fragment      |-> Getter(<<"dash", "dash_fragment">>, "ms", 3000),
    get_dash_update_period |-> Getter(<<"dash", "dash_update_period">>, "ms", 30000),
    get_dash_timeshift     |-> Getter(<<"dash", "dash_timeshift">>, "ms", 60000),
    get_dash_path          |-> Getter(<<"dash", "dash_path">>, "string", "./objs/nginx/html"),
    get_dash_mpd_file      |-> Getter(<<"dash", "dash_mpd_file">>, "string", "[app]/[stream].mpd")]

HlsFileGetters == [
    get_hls_enabled      |-> Getter(<<"hls", "enabled">>, "on", FALSE),
    get_hls_entry_prefix |-> GetterArg(<<"hls", "hls_entry_prefix">>, "string", ""),
    get_hls_path         |-> Getter(<<"hls", "hls_path">>, "string", "./objs/nginx/html"),
    get_hls_m3u8_file    |-> Getter(<<"hls", "hls_m3u8_file">>, "string", "[app]/[stream].m3u8"),
    get_hls_ts_file      |-> Getter(<<"hls", "hls_ts_file">>, "string", "[app]/[stream]-[seq].ts"),
    get_hls_ts_floor     |-> Getter(<<"hls", "hls_ts_floor">>, "on", FALSE),
    get_hls_fragment     |-> Getter(<<"hls", "hls_fragment">>, "integer", 10)]

(* The default ratios are 1.5 and 2.0, here in tenths.                     *)
HlsGetters == [
    get_hls_td_ratio        |-> Getter(<<"hls", "hls_td_ratio">>, "integer", 15),
    get_hls_aof_ratio       |-> Getter(<<"hls", "hls_aof_ratio">>, "integer", 20),
    get_hls_window          |-> Getter(<<"hls", "hls_window">>, "integer", 60),
    get_hls_on_error        |-> Getter(<<"hls", "hls_on_error">>, "string", "continue"),
    get_hls_acodec          |-> Getter(<<"hls", "hls_acodec">>, "string", "aac"),
    get_hls_vcodec          |-> Getter(<<"hls", "hls_vcodec">>, "string", "h264"),
    get_vhost_hls_nb_notify |-> Getter(<<"hls", "hls_nb_notify">>, "integer", 64),
    get_hls_cleanup         |-> Getter(<<"hls", "hls_cleanup">>, "not off", TRUE)]

HdsGetters == [
    get_hls_dispose       |-> Getter(<<"hls", "hls_dispose">>, "integer", 0),
    get_hls_wait_keyframe |-> Getter(<<"hls", "hls_wait_keyframe">>, "not off", TRUE),
    get_hds_enabled       |-> Getter(<<"hds", "enabled">>, "on", FALSE),
    get_hds_path          |-> Getter(<<"hds", "hds_path">>, "string", "./objs/nginx/html"),
    get_hds_fragment      |-> Getter(<<"hds", "hds_fragment">>, "integer", 10),
    get_hds_window        |-> Getter(<<"hds", "hds_window">>, "integer", 60)]

DvrGetters == [
    get_dvr_enabled       |-> Getter(<<"dvr", "enabled">>, "on", FALSE),
    get_dvr_apply         |-> [Directive(<<"dvr", "dvr_apply">>) EXCEPT !.orEmpty = TRUE],
    get_dvr_path          |-> Getter(<<"dvr", "dvr_path">>, "string", "./objs/nginx/html/[app]/[stream].[timestamp].flv"),
    get_dvr_plan          |-> Getter(<<"dvr", "dvr_plan">>, "string", "session"),
    get_dvr_duration      |-> Getter(<<"dvr", "dvr_duration">>, "integer", 30),
    get_dvr_wait_keyframe |-> Getter(<<"dvr", "dvr_wait_keyframe">>, "not off", TRUE),
    get_dvr_time_jitter   |-> Getter(<<"dvr", "time_jitter">>, "jitter", "full")]

RemuxGetters == [
    get_vhost_http_enabled          |-> Getter(<<"http_static", "enabled">>, "on", FALSE),
    get_vhost_http_mount            |-> Getter(<<"http_static", "mount">>, "string", "[vhost]/"),
    get_vhost_http_dir              |-> Getter(<<"http_static", "dir">>, "string", "./objs/nginx/html"),
    get_vhost_http_remux_enabled    |-> Getter(<<"http_remux", "enabled">>, "on", FALSE),
    get_vhost_http_remux_fast_cache |-> Getter(<<"http_remux", "fast_cache">>, "integer", 0),
    get_vhost_http_remux_mount      |-> Getter(<<"http_remux", "mount">>, "string", "[vhost]/[app]/[stream].flv")]

ExecGetters == [get_exec_enabled |-> Getter(<<"exec", "enabled">>, "on", FALSE)]

VhostGetters == PlayGetters @@ ReferGetters @@ LatencyGetters @@ PublishGetters @@ ForwardGetters @@ HookGetters
                @@ BandcheckGetters @@ ClusterGetters @@ DashGetters @@ HlsFileGetters @@ HlsGetters @@ HdsGetters
                @@ DvrGetters @@ RemuxGetters @@ ExecGetters

-----------------------------------------------------------------------------
(* The getters of a directive the caller passes: a stream_caster, an       *)
(* ingest, a transcode or the engine of one                                *)

CasterGetters == [
    get_stream_caster_enabled      |-> Getter(<<"enabled">>, "on", FALSE),
    get_stream_caster_engine       |-> Getter(<<"caster">>, "string", ""),
    get_stream_caster_output       |-> Getter(<<"output">>, "string", ""),
    get_stream_caster_listen       |-> Getter(<<"listen">>, "integer", 0),
    get_stream_caster_rtp_port_min |-> Getter(<<"rtp_port_min">>, "integer", 0),
    get_stream_caster_rtp_port_max |-> Getter(<<"rtp_port_max">>, "integer", 0)]

TranscodeGetters == [
    get_transcode_enabled |-> Getter(<<"enabled">>, "on", FALSE),
    get_transcode_ffmpeg  |-> Getter(<<"ffmpeg">>, "string", "")]

EngineVideoGetters == [
    get_engine_enabled  |-> Getter(<<"enabled">>, "on", FALSE),
    get_engine_perfile  |-> GetterArg(<<"perfile">>, "options", <<>>),
    get_engine_iformat  |-> Getter(<<"iformat">>, "string", "flv"),
    get_engine_vfilter  |-> GetterArg(<<"vfilter">>, "options", <<>>),
    get_engine_vcodec   |-> GetterArg(<<"vcodec">>, "string", ""),
    get_engine_vbitrate |-> Getter(<<"vbitrate">>, "integer", 0),
    get_engine_vfps     |-> Getter(<<"vfps">>, "integer", 0)]

EngineSizeGetters == [
    get_engine_vwidth   |-> Getter(<<"vwidth">>, "integer", 0),
    get_engine_vheight  |-> Getter(<<"vheight">>, "integer", 0),
    get_engine_vthreads |-> Getter(<<"vthreads">>, "integer", 1),
    get_engine_vprofile |-> GetterArg(<<"vprofile">>, "string", ""),
    get_engine_vpreset  |-> GetterArg(<<"vpreset">>, "string", ""),
    get_engine_vparams  |-> GetterArg(<<"vparams">>, "options", <<>>)]

EngineAudioGetters == [
    get_engine_acodec       |-> Getter(<<"acodec">>, "string", ""),
    get_engine_abitrate     |-> Getter(<<"abitrate">>, "integer", 0),
    get_engine_asample_rate |-> Getter(<<"asample_rate">>, "integer", 0),
    get_engine_achannels    |-> Getter(<<"achannels">>, "integer", 0),
    get_engine_aparams      |-> GetterArg(<<"aparams">>, "options", <<>>),
    get_engine_oformat      |-> Getter(<<"oformat">>, "string", "flv"),
    get_engine_output       |-> Getter(<<"output">>, "string", "")]

IngestGetters == [
    get_ingest_enabled    |-> Getter(<<"enabled">>, "on", FALSE),
    get_ingest_ffmpeg     |-> GetterArg(<<"ffmpeg">>, "string", ""),
    get_ingest_input_type |-> Getter(<<"input", "type">>, "string", "file"),
    get_ingest_input_url  |-> Getter(<<"input", "url">>, "string", "")]

(* By the name of the directive that is passed.                            *)
PassedGetters == [
    stream_caster |-> CasterGetters, transcode |-> TranscodeGetters, ingest |-> IngestGetters,
    engine |-> EngineVideoGetters @@ EngineSizeGetters @@ EngineAudioGetters]

-----------------------------------------------------------------------------
(* Finding the directives                                                  *)

DefaultVhost == "__defaultVhost__"

(* get_vhosts, get_stream_casters, get_ingesters, get_transcode_engines,   *)
(* get_exec_publishs: all of a name, in order.                             *)
AllOf(d, name) == SelectSeq(d.directives, LAMBDA e : e.name = name)

(* get_vhost: the vhost of that name, or else the default one.             *)
get_vhost(root, vhost) ==
    IF get_arg(root, "vhost", vhost) # NULL THEN get_arg(root, "vhost", vhost)
    ELSE get_arg(root, "vhost", DefaultVhost)

(* The getter of that name for a vhost; there is nothing to read when no   *)
(* vhost is found, and such a vhost is not enabled.                        *)
OfVhost(root, name, vhost) ==
    IF name = "get_vhost_enabled" /\ get_vhost(root, vhost) = NULL THEN FALSE
    ELSE Value(VhostGetters[name], get_vhost(root, vhost))

OfRoot(root, name) == Value(RootGetters[name], root)

(* get_vhost_enabled of a directive, get_vhost_is_edge of a directive.     *)
get_vhost_enabled(d) == d # NULL /\ Value(PlayGetters.get_vhost_enabled, d)

get_vhost_is_edge(d) == Value(ClusterGetters.get_vhost_is_edge, d)

(* get_chunk_size: of the vhost, or else the global one.                   *)
get_chunk_size(root, vhost) ==
    LET c == Follow(get_vhost(root, vhost), <<"chunk_size">>)
    IN  IF vhost = "" \/ c = NULL \/ arg0(c) = "" THEN OfRoot(root, "get_global_chunk_size") ELSE atoi(arg0(c))

(* get_transcode: the first of the vhost, when it has that scope.          *)
get_transcode(root, vhost, scope) ==
    LET c == Follow(get_vhost(root, vhost), <<"transcode">>) IN IF arg0(c) = scope THEN c ELSE NULL

(* srs_config_apply_filter: is the stream to be recorded?                  *)
srs_config_apply_filter(args, stream) == args = <<>> \/ args = <<"all">> \/ stream \in ToSet(args)

-----------------------------------------------------------------------------
(* check_config                                                            *)

LegalOfRoot == {"listen", "pid", "chunk_size", "ff_log_dir", "srs_log_tank", "srs_log_level", "srs_log_file",
    "max_connections", "daemon", "heartbeat", "http_api", "stats", "vhost", "pithy_print_ms", "http_server",
    "stream_caster", "kafka", "utc_time", "work_dir", "asprocess"}

LegalOfSection == [
    http_api    |-> {"enabled", "listen", "crossdomain", "raw_api"},
    http_server |-> {"enabled", "listen", "dir", "crossdomain"},
    kafka       |-> {"enabled", "brokers", "topic"},
    heartbeat   |-> {"enabled", "interval", "url", "device_id", "summaries"},
    stats       |-> {"network", "disk"}]

LegalOfRawApi == {"enabled", "allow_reload", "allow_query", "allow_update"}

LegalOfCaster == {"enabled", "caster", "output", "listen", "rtp_port_min", "rtp_port_max"}

LegalOfVhost == {"enabled", "chunk_size", "min_latency", "tcp_nodelay", "dvr", "ingest", "hls", "http_hooks", "refer",
    "forward", "transcode", "bandcheck", "play", "publish", "cluster", "security", "http_remux", "dash", "http_static",
    "hds", "exec", "in_ack_size", "out_ack_size"}

LegalOfStreaming == [
    dvr     |-> {"enabled", "dvr_apply", "dvr_path", "dvr_plan", "dvr_duration", "dvr_wait_keyframe", "time_jitter"},
    refer   |-> {"enabled", "all", "publish", "play"},
    exec    |-> {"enabled", "publish"},
    play    |-> {"time_jitter", "mix_correct", "atc", "atc_auto", "mw_latency", "gop_cache", "queue_length",
                 "send_min_interval", "reduce_sequence_header"},
    cluster |-> {"mode", "origin", "token_traverse", "vhost", "debug_srs_upnode"},
    publish |-> {"mr", "mr_latency", "firstpkt_timeout", "normal_timeout", "parse_sps"},
    ingest  |-> {"enabled", "input", "ffmpeg", "engine"}]

LegalOfDelivery == [
    http_static |-> {"enabled", "mount", "dir"},
    http_remux  |-> {"enabled", "mount", "fast_cache"},
    dash        |-> {"enabled", "dash_fragment", "dash_update_period", "dash_timeshift", "dash_path", "dash_mpd_file"},
    hls         |-> {"enabled", "hls_entry_prefix", "hls_path", "hls_fragment", "hls_window", "hls_on_error",
                     "hls_storage", "hls_mount", "hls_td_ratio", "hls_aof_ratio", "hls_acodec", "hls_vcodec",
                     "hls_m3u8_file", "hls_ts_file", "hls_ts_floor", "hls_cleanup", "hls_nb_notify",
                     "hls_wait_keyframe", "hls_dispose"},
    http_hooks  |-> {"enabled", "on_connect", "on_close", "on_publish", "on_unpublish", "on_play", "on_stop",
                     "on_dvr", "on_hls", "on_hls_notify"},
    forward     |-> {"enabled", "destination"},
    security    |-> {"enabled", "deny", "allow"},
    transcode   |-> {"enabled", "ffmpeg", "engine"},
    bandcheck   |-> {"enabled", "key", "interval", "limit_kbps"}]

(* Only the engines of a transcode are looked into, not those of ingests.  *)
LegalOfEngine == {"enabled", "vfilter", "vcodec", "vbitrate", "vfps", "vwidth", "vheight", "vthreads", "vprofile",
    "vpreset", "vparams", "acodec", "abitrate", "asample_rate", "achannels", "aparams", "output", "perfile",
    "iformat", "oformat"}

Legal(d, names) == \A i \in DOMAIN d.directives : d.directives[i].name \in names

(* The addresses of the host, and the files it may open.                   *)
LocalIps == 1

MaxOpenFiles == 100

(* The ids of a vhost's ingests are different.                             *)
DistinctIngests(vhost) ==
    LET ids == [i \in DOMAIN AllOf(vhost, "ingest") |-> arg0(AllOf(vhost, "ingest")[i])] IN IsInjective(ids)

LegalVhost(vhost) ==
    /\ Legal(vhost, LegalOfVhost)
    /\ \A i \in DOMAIN vhost.directives :
          LET conf == vhost.directives[i]
              names == LegalOfStreaming @@ LegalOfDelivery
          IN  /\ conf.name \in DOMAIN names => Legal(conf, names[conf.name])
              /\ conf.name = "transcode" =>
                    \A k \in DOMAIN AllOf(conf, "engine") : Legal(AllOf(conf, "engine")[k], LegalOfEngine)

check_normal_config(root) ==
    /\ root.directives # <<>>
    /\ Legal(root, LegalOfRoot)
    /\ \A s \in DOMAIN LegalOfSection : Legal(get(root, s), LegalOfSection[s])
    /\ \A i \in DOMAIN AllOf(get(root, "http_api"), "raw_api") :
          Legal(AllOf(get(root, "http_api"), "raw_api")[i], LegalOfRawApi)
    /\ OfRoot(root, "get_listens") # <<>>
    /\ \A i \in DOMAIN OfRoot(root, "get_listens") : atoi(OfRoot(root, "get_listens")[i]) > 0
    /\ OfRoot(root, "get_heartbeat_interval") > 0
    /\ OfRoot(root, "get_stats_network") \in 0..(LocalIps - 1)
    /\ \A i \in DOMAIN AllOf(root, "stream_caster") : Legal(AllOf(root, "stream_caster")[i], LegalOfCaster)
    /\ \A i \in DOMAIN AllOf(root, "vhost") :
          LegalVhost(AllOf(root, "vhost")[i]) /\ DistinctIngests(AllOf(root, "vhost")[i])
    /\ ~(OfRoot(root, "get_asprocess") /\ OfRoot(root, "get_deamon"))

(* The listeners, the HTTP API, the HTTP server, the log and three others  *)
(* take a file each.                                                       *)
check_number_connections(root) ==
    LET files == Len(OfRoot(root, "get_listens")) + 2 + (IF OfRoot(root, "get_log_tank_file") THEN 1 ELSE 0) + 3
    IN  /\ OfRoot(root, "get_max_connections") > 0
        /\ OfRoot(root, "get_max_connections") + files < MaxOpenFiles

check_config(root) == check_normal_config(root) /\ check_number_connections(root)
=============================================================================
