----------------------------- MODULE ConfigDump -----------------------------
(***************************************************************************)
(* The configuration as the HTTP API shows it: what each option is dumped  *)
(* as.  A dump is a function from the path of a member to its value.       *)
(***************************************************************************)
EXTENDS ConfigOptions

(* Mutant: what is on is said to be true.                                *)
Dumped_true(as, d) ==
    CASE as = "string" -> arg0(d)
      [] as = "integer" -> atoi(arg0(d))
      [] as = "boolean" -> arg0(d) = "true"
      [] as = "args" -> d.args
      [] as = "options" -> Converted("options", d)

(* dumps_arg0_to_str, _integer, _number and _boolean, dumps_args.          *)
Dumped(as, d) ==
    CASE as = "string" -> arg0(d)
      [] as = "integer" -> atoi(arg0(d))
      [] as = "boolean" -> arg0(d) = "on"
      [] as = "args" -> d.args
      [] as = "options" -> Converted("options", d)

(* The members of a section that a loop dumps (of two directives with the  *)
(* same name the last one stays), and of one that is asked for each name.  *)
LoopMembers(d, table) ==
    [name \in {n \in DOMAIN table : get(d, n) # NULL} |-> Dumped(table[name], Last(AllOf(d, name)))]

GetMembers(d, table) ==
    [name \in {n \in DOMAIN table : get(d, n) # NULL} |-> Dumped(table[name], get(d, name))]

DumpOfEngine == [
    iformat |-> "string", vfilter |-> "options", vcodec |-> "string", vbitrate |-> "integer", vfps |-> "integer",
    vwidth |-> "integer", vheight |-> "integer", vthreads |-> "integer", vprofile |-> "string", vpreset |-> "string",
    vparams |-> "options", acodec |-> "string", abitrate |-> "integer", asample_rate |-> "integer",
    achannels |-> "integer", aparams |-> "options", oformat |-> "string", output |-> "string"]

DumpOfRoot == [
    listen |-> "args", pid |-> "string", chunk_size |-> "integer", ff_log_dir |-> "string", srs_log_tank |-> "string",
    srs_log_level |-> "string", srs_log_file |-> "string", max_connections |-> "integer", daemon |-> "boolean",
    utc_time |-> "boolean", pithy_print_ms |-> "integer"]

DumpOfSection == [
    heartbeat |-> [enabled |-> "boolean", interval |-> "integer", url |-> "string", device_id |-> "string",
                   summaries |-> "boolean"],
    stats |-> [network |-> "integer", disk |-> "args"],
    http_api |-> [enabled |-> "boolean", listen |-> "string", crossdomain |-> "boolean"],
    http_server |-> [enabled |-> "boolean", listen |-> "string", dir |-> "string"],
    kafka |-> [enabled |-> "boolean", brokers |-> "args", topic |-> "string"],
    stream_caster |-> [enabled |-> "boolean", caster |-> "string", output |-> "string", listen |-> "string",
                       rtp_port_min |-> "integer", rtp_port_max |-> "integer"]]

DumpOfRawApi == [enabled |-> "boolean", allow_reload |-> "boolean", allow_query |-> "boolean",
                 allow_update |-> "boolean"]

(* What global_to_json asks of each vhost: <<member, getter>>.             *)
SummaryOfVhost == <<
    <<"enabled", "get_vhost_enabled">>, <<"dvr", "get_dvr_enabled">>, <<"http_static", "get_vhost_http_enabled">>,
    <<"http_remux", "get_vhost_http_remux_enabled">>, <<"hls", "get_hls_enabled">>, <<"hds", "get_hds_enabled">>,
    <<"exec", "get_exec_enabled">>, <<"bandcheck", "get_bw_check_enabled">>, <<"forward", "get_forward_enabled">>,
    <<"security", "get_security_enabled">>, <<"refer", "get_refer_enabled">>, <<"mr", "get_mr_enabled">>,
    <<"min_latency", "get_realtime_enabled">>, <<"gop_cache", "get_gop_cache">>, <<"tcp_nodelay", "get_tcp_nodelay">>,
    <<"mix_correct", "get_mix_correct">>, <<"atc", "get_atc">>>>

DumpOfStreaming == [
    cluster |-> [mode |-> "string", origin |-> "string", token_traverse |-> "boolean", vhost |-> "string",
                 debug_srs_upnode |-> "boolean"],
    forward |-> [destination |-> "args"],
    play |-> [time_jitter |-> "string", mix_correct |-> "boolean", atc |-> "boolean", atc_auto |-> "boolean",
              mw_latency |-> "integer", gop_cache |-> "boolean", queue_length |-> "integer",
              reduce_sequence_header |-> "boolean", send_min_interval |-> "integer"],
    publish |-> [mr |-> "boolean", mr_latency |-> "integer", firstpkt_timeout |-> "integer",
                 normal_timeout |-> "integer"],
    refer |-> [all |-> "args", publish |-> "args", play |-> "args"],
    bandcheck |-> [key |-> "string", interval |-> "integer", limit_kbps |-> "integer"]]

DumpOfDelivery == [
    http_static |-> [mount |-> "string", dir |-> "string"],
    http_remux |-> [fast_cache |-> "integer", mount |-> "string"],
    http_hooks |-> [on_connect |-> "args", on_close |-> "args", on_publish |-> "args", on_unpublish |-> "args",
                    on_play |-> "args", on_stop |-> "args", on_dvr |-> "args", on_hls |-> "args",
                    on_hls_notify |-> "string"],
    hls |-> [hls_fragment |-> "integer", hls_td_ratio |-> "integer", hls_aof_ratio |-> "integer",
             hls_window |-> "integer", hls_on_error |-> "string", hls_storage |-> "string", hls_path |-> "string",
             hls_m3u8_file |-> "string", hls_ts_file |-> "string", hls_ts_floor |-> "boolean",
             hls_entry_prefix |-> "string", hls_mount |-> "string", hls_acodec |-> "string", hls_vcodec |-> "string",
             hls_cleanup |-> "boolean", hls_dispose |-> "integer", hls_nb_notify |-> "integer",
             hls_wait_keyframe |-> "boolean"]]

DumpOfRecording == [
    hds |-> [hds_fragment |-> "integer", hds_window |-> "integer", hds_path |-> "string"],
    dvr |-> [dvr_plan |-> "string", dvr_apply |-> "args", dvr_path |-> "string", dvr_duration |-> "integer",
             dvr_wait_keyframe |-> "boolean", time_jitter |-> "string"],
    exec |-> [publish |-> "args"]]

(* The sections whose "enabled" is dumped by calling a getter.             *)
EnabledOfSection == [
    forward |-> "get_forward_enabled", refer |-> "get_refer_enabled", bandcheck |-> "get_bw_check_enabled",
    security |-> "get_security_enabled", http_static |-> "get_vhost_http_enabled",
    http_remux |-> "get_vhost_http_remux_enabled", http_hooks |-> "get_vhost_http_hooks_enabled",
    hls |-> "get_hls_enabled", hds |-> "get_hds_enabled", dvr |-> "get_dvr_enabled", exec |-> "get_exec_enabled"]

(* security: its rules, in order.                                          *)
DumpOfRules(d, action) == [i \in DOMAIN AllOf(d, action) |-> AllOf(d, action)[i].args]

-----------------------------------------------------------------------------
(* vhost_to_json: each section that is there.  The getters of "enabled"    *)
(* are called with vhost->name, which is the word "vhost".                 *)
vhost_to_json(root, vhost) ==
    LET tables == DumpOfStreaming @@ DumpOfDelivery @@ DumpOfRecording
        there  == {s \in DOMAIN tables \cup {"security"} : get(vhost, s) # NULL}
        Rules(s) == IF s = "security"
                    THEN [allows |-> DumpOfRules(get(vhost, s), "allow"), denies |-> DumpOfRules(get(vhost, s), "deny")]
                    ELSE LoopMembers(get(vhost, s), tables[s])
    IN  GetMembers(vhost, [chunk_size |-> "integer", min_latency |-> "boolean", tcp_nodelay |-> "boolean"])
        @@ ("enabled" :> get_vhost_enabled(vhost))
        @@ [s \in there |->
              Rules(s) @@ (IF s \in DOMAIN EnabledOfSection
                           THEN "enabled" :> OfVhost(root, EnabledOfSection[s], vhost.name)
                           ELSE <<>>)]

(* The ingests and the transcodes of a vhost, which are lists.             *)
IngestDump(d) ==
    [id |-> arg0(d), enabled |-> Value(IngestGetters.get_ingest_enabled, d),
     type |-> arg0(Follow(d, <<"input", "type">>)), url |-> arg0(Follow(d, <<"input", "url">>)),
     ffmpeg |-> arg0(get(d, "ffmpeg")), engine |-> GetMembers(get(d, "engine"), DumpOfEngine)]

TranscodeDump(d) ==
    [apply |-> arg0(d), enabled |-> Value(TranscodeGetters.get_transcode_enabled, d), ffmpeg |-> arg0(get(d, "ffmpeg")),
     engines |-> [i \in DOMAIN AllOf(d, "engine") |-> GetMembers(AllOf(d, "engine")[i], DumpOfEngine)]]

(* global_to_json: the options of the root, its sections, and what is      *)
(* switched on in each vhost.                                              *)
global_to_json(root) ==
    LoopMembers(root, DumpOfRoot)
    @@ [s \in {t \in DOMAIN DumpOfSection : get(root, t) # NULL} |->
          LoopMembers(Last(AllOf(root, s)), DumpOfSection[s])]
    @@ ("raw_api" :> LoopMembers(get(get(root, "http_api"), "raw_api"), DumpOfRawApi))
    @@ ("vhosts" :> [v \in {arg0(AllOf(root, "vhost")[i]) : i \in DOMAIN AllOf(root, "vhost")} |->
          {SummaryOfVhost[k][1] : k \in {j \in DOMAIN SummaryOfVhost : OfVhost(root, SummaryOfVhost[j][2], v)}}])

(* raw_to_json: how the HTTP API is configured.                            *)
raw_to_json(root) ==
    [name \in {"get_http_api_enabled", "get_http_api_listen", "get_http_api_crossdomain", "get_raw_api",
               "get_raw_api_allow_reload", "get_raw_api_allow_query", "get_raw_api_allow_update"} |->
        OfRoot(root, name)]
=============================================================================
