------------------------------- MODULE Config -------------------------------
(***************************************************************************)
(* SrsConfig at run time: the file on disk and the tree in memory, reload  *)
(* and the subscribers it calls back, the changes that the HTTP raw API    *)
(* makes, and writing the tree back to the file, with crashes.             *)
(***************************************************************************)
EXTENDS ConfigDump

CONSTANTS
    Files,      \* the texts that an operator gives the file
    Vhosts,     \* the names of vhosts
    Streams,    \* the names of streams, for dvr_apply
    Handlers,   \* the reload handlers
    RawOptions, \* the global options that raw API calls set
    MaxChanges  \* bound: edits of the file and raw API calls

ASSUME ConfigAssumption ==
    /\ MaxChanges \in Nat
    /\ "none" \notin Streams /\ "all" \notin Streams
    /\ RawOptions \subseteq {"pid", "chunk_size", "ff_log_dir", "srs_log_tank", "srs_log_level", "srs_log_file",
                             "max_connections", "utc_time", "pithy_print_ms"}

VARIABLES
    disk,       \* config_file and the temporary file beside it
    root,       \* the tree in memory
    subscribes, \* the subscribers, in order: who, for which vhost, what it has read
    calls,      \* the callbacks of the last operation: <<callback, vhost, ingest>>
    saving,     \* the directives that persistence() has written, NotSaving when it does not run
    probe,      \* the option that the file under test sets
    clean,      \* no reload has failed since the start
    changes     \* edits and raw calls so far

vars == <<disk, root, subscribes, calls, saving, probe, clean, changes>>

NotSaving == -1

-----------------------------------------------------------------------------
(* Reload: which callbacks                                                 *)

GlobalCallbacks == <<
    <<"listen", "on_reload_listen">>, <<"pid", "on_reload_pid">>, <<"srs_log_tank", "on_reload_log_tank">>,
    <<"srs_log_level", "on_reload_log_level">>, <<"srs_log_file", "on_reload_log_file">>,
    <<"max_connections", "on_reload_max_conns">>, <<"utc_time", "on_reload_utc_time">>,
    <<"pithy_print_ms", "on_reload_pithy_print">>>>

(* The callbacks of a table whose directive differs.                       *)
Changed(table, new, old, arg) ==
    LET differs == SelectSeq(table, LAMBDA e : ~srs_directive_equals(get(new, e[1]), get(old, e[1])))
    IN  [i \in DOMAIN differs |-> <<differs[i][2], arg, "">>]

Call(callback, vhost) == <<<<callback, vhost, "">>>>

CallIf(condition, callback, vhost) == IF condition THEN Call(callback, vhost) ELSE <<>>

(* reload_http_api and reload_http_stream: a server that is switched on,   *)
(* switched off, or changed while it is on.                                *)
reload_http(new, old, getters, enabled, disabled, updated, details) ==
    LET on(d) == Value([getters EXCEPT !.path = Tail(@)], d)
    IN  CallIf(~on(old) /\ on(new), enabled, "") \o CallIf(on(old) /\ ~on(new), disabled, "")
        \o (IF on(old) /\ on(new) /\ ~srs_directive_equals(old, new)
            THEN Call(updated, "") \o Changed(details, new, old, "") ELSE <<>>)

reload_http_api(new_root, old_root) ==
    reload_http(get(new_root, "http_api"), get(old_root, "http_api"), HttpApiGetters.get_http_api_enabled,
        "on_reload_http_api_enabled", "on_reload_http_api_disabled", "on_reload_http_api_enabled",
        <<<<"crossdomain", "on_reload_http_api_crossdomain">>, <<"raw_api", "on_reload_http_api_raw_api">>>>)

reload_http_stream(new_root, old_root) ==
    reload_http(get(new_root, "http_server"), get(old_root, "http_server"), HttpStreamGetters.get_http_stream_enabled,
        "on_reload_http_stream_enabled", "on_reload_http_stream_disabled", "on_reload_http_stream_updated",
        <<<<"crossdomain", "on_reload_http_stream_crossdomain">>>>)

(* reload_transcode: one gone, one new, or one changed.                    *)
reload_transcode(new, old) ==
    LET Differs(a, b) == \E i \in DOMAIN AllOf(a, "transcode") :
            LET t == AllOf(a, "transcode")[i] IN ~srs_directive_equals(t, get_arg(b, "transcode", arg0(t)))
        Gone == \E i \in DOMAIN AllOf(old, "transcode") :
            get_arg(new, "transcode", arg0(AllOf(old, "transcode")[i])) = NULL
    IN  CallIf(Gone \/ Differs(new, old), "on_reload_vhost_transcode", arg0(new))

get_ingest_enabled(d) == Value(IngestGetters.get_ingest_enabled, d)

(* reload_ingest: the ingests switched off, then on, then changed.         *)
reload_ingest(new, old) ==
    LET Calls(of, callback, Test(_, _)) ==
            LET those == SelectSeq(AllOf(of, "ingest"), LAMBDA d :
                    Test(get_arg(new, "ingest", arg0(d)), get_arg(old, "ingest", arg0(d))))
            IN  [i \in DOMAIN those |-> <<callback, arg0(new), arg0(those[i])>>]
    IN  Calls(old, "on_reload_ingest_removed", LAMBDA n, o : get_ingest_enabled(o) /\ ~get_ingest_enabled(n))
        \o Calls(new, "on_reload_ingest_added", LAMBDA n, o : ~get_ingest_enabled(o) /\ get_ingest_enabled(n))
        \o Calls(new, "on_reload_ingest_updated", LAMBDA n, o :
               get_ingest_enabled(o) /\ get_ingest_enabled(n) /\ ~srs_directive_equals(n, o))

BeforeDvr == <<
    <<"chunk_size", "on_reload_vhost_chunk_size">>, <<"tcp_nodelay", "on_reload_vhost_tcp_nodelay">>,
    <<"min_latency", "on_reload_vhost_realtime">>, <<"play", "on_reload_vhost_play">>,
    <<"forward", "on_reload_vhost_forward">>, <<"dash", "on_reload_vhost_dash">>, <<"hls", "on_reload_vhost_hls">>,
    <<"hds", "on_reload_vhost_hds">>>>

(* Mutant: a change of publish is not called back.                       *)
AfterDvr_but_publish == <<
    <<"exec", "on_reload_vhost_exec">>,
    <<"http_static", "on_reload_vhost_http_updated">>, <<"http_remux", "on_reload_vhost_http_remux_updated">>>>

AfterDvr == <<
    <<"exec", "on_reload_vhost_exec">>, <<"publish", "on_reload_vhost_publish">>,
    <<"http_static", "on_reload_vhost_http_updated">>, <<"http_remux", "on_reload_vhost_http_remux_updated">>>>

(* A vhost that is enabled before and after.                               *)
reload_modified(new, old) ==
    LET v == arg0(new)
    IN  Changed(BeforeDvr, new, old, v)
        \o CallIf(~srs_directive_equals_except(get(new, "dvr"), get(old, "dvr"), "dvr_apply"), "on_reload_vhost_dvr", v)
        \o CallIf(~srs_directive_equals(Follow(new, <<"dvr", "dvr_apply">>), Follow(old, <<"dvr", "dvr_apply">>)),
                  "on_reload_vhost_dvr_apply", v)
        \o Changed(AfterDvr, new, old, v)
        \o reload_transcode(new, old)
        \o reload_ingest(new, old)

(* reload_vhost: the vhosts of the new tree, then those only in the old    *)
(* one.  A change of cluster.mode ends it: the vhosts after it are left.   *)
reload_vhost(new_root, old_root) ==
    LET Names(r) == [i \in DOMAIN AllOf(r, "vhost") |-> arg0(AllOf(r, "vhost")[i])]
        vhosts   == Names(new_root)
                    \o SelectSeq(Names(old_root), LAMBDA v : get_arg(new_root, "vhost", v) = NULL)
        New(v)   == get_arg(new_root, "vhost", v)
        Old(v)   == get_arg(old_root, "vhost", v)
        Step(done, v) ==
            CASE ~done.ok -> done
              [] ~get_vhost_enabled(Old(v)) /\ get_vhost_enabled(New(v)) ->
                   [done EXCEPT !.calls = @ \o Call("on_reload_vhost_added", v)]
              [] get_vhost_enabled(Old(v)) /\ ~get_vhost_enabled(New(v)) ->
                   [done EXCEPT !.calls = @ \o Call("on_reload_vhost_removed", v)]
              [] get_vhost_is_edge(Old(v)) # get_vhost_is_edge(New(v)) -> [done EXCEPT !.ok = FALSE]
              [] get_vhost_enabled(New(v)) -> [done EXCEPT !.calls = @ \o reload_modified(New(v), Old(v))]
              [] OTHER -> done
    IN  FoldLeft(Step, [ok |-> TRUE, calls |-> <<>>], vhosts)

(* reload_conf: the globals, the two HTTP servers and the vhosts.          *)
reload_conf(new_root, old_root) ==
    LET vhosts == reload_vhost(new_root, old_root)
    IN  [vhosts EXCEPT !.calls = Changed(GlobalCallbacks, new_root, old_root, "") \o reload_http_api(new_root, old_root)
                                 \o reload_http_stream(new_root, old_root) \o @]

-----------------------------------------------------------------------------
(* Subscribers                                                             *)

(* The section that a callback is about; a subscriber reads its options    *)
(* again (SrsPublishRecvThread::on_reload_vhost_publish and _realtime, and *)
(* on_reload_vhost_play, _publish, _tcp_nodelay of SrsRtmpConn).           *)
SectionOf == [
    on_reload_vhost_tcp_nodelay |-> "tcp_nodelay", on_reload_vhost_realtime |-> "min_latency",
    on_reload_vhost_play |-> "play", on_reload_vhost_forward |-> "forward", on_reload_vhost_dash |-> "dash",
    on_reload_vhost_hls |-> "hls", on_reload_vhost_hds |-> "hds", on_reload_vhost_dvr |-> "dvr",
    on_reload_vhost_exec |-> "exec", on_reload_vhost_publish |-> "publish",
    on_reload_vhost_http_updated |-> "http_static", on_reload_vhost_http_remux_updated |-> "http_remux"]

Sections == {SectionOf[c] : c \in DOMAIN SectionOf}

(* The getters of those sections.                                          *)
Cached == {g \in DOMAIN VhostGetters : VhostGetters[g].path[1] \in Sections}

Fresh(tree, vhost) == [g \in Cached |-> OfVhost(tree, g, vhost)]

(* The ingests that run, by id.                                            *)
FreshIngests(tree, vhost) ==
    LET v   == get_vhost(tree, vhost)
        ids == {arg0(AllOf(v, "ingest")[i]) : i \in DOMAIN AllOf(v, "ingest")}
    IN  [id \in {i \in ids : get_ingest_enabled(get_arg(v, "ingest", i))} |-> get_arg(v, "ingest", id)]

Reads(tree, vhost) == [options |-> Fresh(tree, vhost), ingests |-> FreshIngests(tree, vhost)]

(* One callback, received by the subscriber s.                             *)
Called(s, c, tree) ==
    LET About(g) == IF c[1] = "on_reload_vhost_dvr_apply" THEN g = "get_dvr_apply"
                    ELSE c[1] \in DOMAIN SectionOf /\ VhostGetters[g].path[1] = SectionOf[c[1]] /\ g # "get_dvr_apply"
    IN  IF c[2] # s.vhost THEN s
        ELSE CASE c[1] = "on_reload_vhost_added" -> [s EXCEPT !.read = Reads(tree, s.vhost), !.closed = FALSE]
               [] c[1] = "on_reload_vhost_removed" -> [s EXCEPT !.closed = TRUE]
               [] c[1] = "on_reload_ingest_removed" ->
                    [s EXCEPT !.read.ingests = [id \in DOMAIN @ \ {c[3]} |-> @[id]]]
               [] c[1] \in {"on_reload_ingest_added", "on_reload_ingest_updated"} ->
                    [s EXCEPT !.read.ingests = (c[3] :> get_arg(get_vhost(tree, s.vhost), "ingest", c[3])) @@ @]
               [] OTHER -> [s EXCEPT !.read.options =
                               [g \in Cached |-> IF About(g) THEN OfVhost(tree, g, s.vhost) ELSE @[g]]]

(* The callbacks, each made to every subscriber.                           *)
Notify(cs, tree) ==
    /\ calls' = cs
    /\ subscribes' = [i \in DOMAIN subscribes |-> FoldLeft(LAMBDA s, c : Called(s, c, tree), subscribes[i], cs)]

Subscribed == {subscribes[i].id : i \in DOMAIN subscribes}

(* subscribe, by a handler that reads its options when it is made.         *)
subscribe(h, vhost) ==
    /\ saving = NotSaving /\ root # NULL
    /\ h \notin Subscribed
    /\ get_vhost_enabled(get_arg(root, "vhost", vhost))
    /\ subscribes' = Append(subscribes, [id |-> h, vhost |-> vhost, read |-> Reads(root, vhost), closed |-> FALSE])
    /\ UNCHANGED <<disk, root, calls, saving, probe, clean, changes>>

unsubscribe(h) ==
    /\ saving = NotSaving
    /\ h \in Subscribed
    /\ subscribes' = SelectSeq(subscribes, LAMBDA s : s.id # h)
    /\ UNCHANGED <<disk, root, calls, saving, probe, clean, changes>>

-----------------------------------------------------------------------------
(* The operator and the raw API                                            *)

(* The file is written by an operator; p is the option it is there for,    *)
(* and such a file is the only change.                                     *)
Edit(text, p) ==
    /\ saving = NotSaving /\ changes < MaxChanges
    /\ text # disk.conf
    /\ disk' = [disk EXCEPT !.conf = text]
    /\ probe' = p
    /\ changes' = IF p = "none" THEN changes + 1 ELSE MaxChanges
    /\ calls' = <<>>
    /\ UNCHANGED <<root, subscribes, saving, clean>>

Loaded(text) ==
    LET Transformed(tree) == IF tree = NULL THEN NULL ELSE srs_config_transform_vhost(tree)
    IN  Transformed(parse(text))

(* reload: a file that is not accepted changes nothing.  Otherwise the     *)
(* tree is replaced, whatever becomes of the callbacks.                    *)
reload ==
    /\ saving = NotSaving /\ root # NULL
    /\ \E new \in {Loaded(disk.conf)} :
           IF new = NULL \/ ~check_config(new)
           THEN UNCHANGED <<root, subscribes, clean>> /\ calls' = <<<<"refused", "", "">>>>
           ELSE /\ root' = new
                /\ \E done \in {reload_conf(new, root)} : Notify(done.calls, new) /\ clean' = (clean /\ done.ok)
    /\ UNCHANGED <<disk, saving, probe, changes>>

(* A change of the tree by the raw API, with its callbacks.                *)
Raw(new, cs) ==
    /\ saving = NotSaving /\ root # NULL /\ changes < MaxChanges
    /\ root' = new
    /\ Notify(cs, new)
    /\ changes' = changes + 1
    /\ probe' = "none"
    /\ UNCHANGED <<disk, saving, clean>>

(* raw_set_listen: args equal as sets are no change.                       *)
raw_set_listen(eps) ==
    /\ root # NULL /\ get(root, "listen") # NULL
    /\ ToSet(get(root, "listen").args) # ToSet(eps)
    /\ Raw(Within(root, "listen", LAMBDA d : SetArgs(d, eps)), Call("on_reload_listen", ""))

(* raw_set_pid, _chunk_size, _ff_log_dir, _srs_log_tank, _srs_log_level:   *)
(* the option is set and, for those that reload can apply, called back.    *)
RawSetLog == [pid |-> "on_reload_pid", chunk_size |-> "", ff_log_dir |-> "", srs_log_tank |-> "on_reload_log_tank",
              srs_log_level |-> "on_reload_log_level"]

(* raw_set_srs_log_file, _max_connections, _utc_time, _pithy_print_ms.     *)
RawSetOther == [srs_log_file |-> "on_reload_log_file", max_connections |-> "on_reload_max_conns",
                utc_time |-> "on_reload_utc_time", pithy_print_ms |-> "on_reload_pithy_print"]

raw_set(option, word) ==
    LET callback == (RawSetLog @@ RawSetOther)[option]
    IN  /\ root # NULL /\ arg0(get(root, option)) # word
        /\ Raw(Within(root, option, LAMBDA d : SetArgs(d, <<word>>)), CallIf(callback # "", callback, ""))

Switch(tree, vhost, word) ==
    WithinArg(tree, "vhost", vhost, LAMBDA v : Within(v, "enabled", LAMBDA e : set_arg0(e, word)))

(* raw_create_vhost: of a name that is not there yet.                      *)
raw_create_vhost(vhost) ==
    /\ root # NULL /\ get_arg(root, "vhost", vhost) = NULL
    /\ Raw(Switch(root, vhost, "on"), Call("on_reload_vhost_added", vhost))

(* raw_update_vhost: gives a disabled vhost a new name.                    *)
raw_update_vhost(vhost, name) ==
    /\ root # NULL /\ get_arg(root, "vhost", vhost) # NULL /\ get_arg(root, "vhost", name) = NULL
    /\ ~get_vhost_enabled(get_arg(root, "vhost", vhost))
    /\ Raw(WithinArg(root, "vhost", vhost, LAMBDA v : set_arg0(v, name)), <<>>)

(* raw_delete_vhost: of a disabled vhost.                                  *)
raw_delete_vhost(vhost) ==
    /\ root # NULL /\ get_arg(root, "vhost", vhost) # NULL
    /\ ~get_vhost_enabled(get_arg(root, "vhost", vhost))
    /\ Raw([root EXCEPT !.directives = RemoveAt(@, IndexOfArg(root, "vhost", vhost))], <<>>)

raw_disable_vhost(vhost) ==
    /\ root # NULL /\ get_vhost_enabled(get_arg(root, "vhost", vhost))
    /\ Raw(Switch(root, vhost, "off"), Call("on_reload_vhost_removed", vhost))

raw_enable_vhost(vhost) ==
    /\ root # NULL /\ get_arg(root, "vhost", vhost) # NULL /\ ~get_vhost_enabled(get_arg(root, "vhost", vhost))
    /\ Raw(Switch(root, vhost, "on"), Call("on_reload_vhost_added", vhost))

(* The tree with the arguments of the vhost's dvr_apply changed by Op.     *)
WithApply(tree, vhost, Op(_)) ==
    WithinArg(tree, "vhost", vhost, LAMBDA v :
        Within(v, "dvr", LAMBDA d : Within(d, "dvr_apply", LAMBDA a : SetArgs(a, Op(a.args)))))

(* raw_enable_dvr: the stream is added, in place of all or none.           *)
EnabledFor(args, stream) ==
    LET named == IF args \in {<<"all">>, <<"none">>} THEN <<>> ELSE args
    IN  IF stream \in ToSet(named) THEN named ELSE Append(named, stream)

(* raw_disable_dvr: the stream is taken out; none when nothing is left.    *)
DisabledFor(args, stream) ==
    LET left == IF stream \in ToSet(args) THEN RemoveAt(args, SelectInSeq(args, LAMBDA a : a = stream)) ELSE args
    IN  IF left = <<>> THEN <<"none">> ELSE left

raw_enable_dvr(vhost, stream) ==
    /\ root # NULL /\ get_vhost_enabled(get_arg(root, "vhost", vhost))
    /\ Raw(WithApply(root, vhost, LAMBDA args : EnabledFor(args, stream)), Call("on_reload_vhost_dvr_apply", vhost))

raw_disable_dvr(vhost, stream) ==
    /\ root # NULL /\ get_vhost_enabled(get_arg(root, "vhost", vhost))
    /\ Raw(WithApply(root, vhost, LAMBDA args : DisabledFor(args, stream)), Call("on_reload_vhost_dvr_apply", vhost))

-----------------------------------------------------------------------------
(* Writing the file, crashing, starting                                    *)

(* persistence opens the temporary file.                                   *)
PersistOpen ==
    /\ saving = NotSaving /\ root # NULL
    /\ persistence(root, 0) # disk.conf
    /\ saving' = 0
    /\ disk' = [disk EXCEPT !.tmp = <<>>]
    /\ UNCHANGED <<root, subscribes, calls, probe, clean, changes>>

(* One more directive of the root is written to it.                        *)
PersistWrite ==
    /\ saving # NotSaving /\ saving < Len(root.directives)
    /\ saving' = saving + 1
    /\ disk' = [disk EXCEPT !.tmp = @ \o persistence(root.directives[saving + 1], 1)]
    /\ UNCHANGED <<root, subscribes, calls, probe, clean, changes>>

(* A write fails: the temporary file is removed.                           *)
PersistFails ==
    /\ saving # NotSaving
    /\ saving' = NotSaving
    /\ disk' = [disk EXCEPT !.tmp = <<>>]
    /\ UNCHANGED <<root, subscribes, calls, probe, clean, changes>>

(* Mutant: the file is replaced when most of it is written.              *)
PersistRename_early ==
    /\ saving # NotSaving /\ saving >= Len(root.directives) - 1
    /\ saving' = NotSaving
    /\ disk' = [conf |-> disk.tmp, tmp |-> <<>>]
    /\ UNCHANGED <<root, subscribes, calls, probe, clean, changes>>

(* The temporary file takes the place of the file.                         *)
PersistRename ==
    /\ saving # NotSaving /\ saving = Len(root.directives)
    /\ saving' = NotSaving
    /\ disk' = [conf |-> disk.tmp, tmp |-> <<>>]
    /\ UNCHANGED <<root, subscribes, calls, probe, clean, changes>>

(* The process ends at any moment; parse_options of the next one reads the *)
(* file, and there is no tree (and no server) when that is refused.        *)
Restart ==
    /\ root' = Loaded(disk.conf)
    /\ saving' = NotSaving
    /\ subscribes' = <<>> /\ calls' = <<>> /\ clean' = TRUE
    /\ UNCHANGED <<disk, probe, changes>>

Init ==
    /\ disk \in {[conf |-> f, tmp |-> <<>>] : f \in Files}
    /\ root = Loaded(disk.conf)
    /\ subscribes = <<>> /\ calls = <<>> /\ saving = NotSaving /\ probe = "none" /\ clean = TRUE /\ changes = 0

-----------------------------------------------------------------------------
(* Files that set one option                                               *)

(* The argument that shows that the option is read.                        *)
WordFor(as) ==
    CASE as = "on" -> <<"on">>
      [] as = "not off" -> <<"off">>
      [] as \in {"integer", "ms"} -> <<"7">>
      [] as = "jitter" -> <<"zero">>
      [] as = "remote" -> <<"remote">>
      [] as = "not console" -> <<"console">>
      [] as = "string" -> <<"word">>
      [] as = "args" -> <<"1935", "7">>
      [] as = "options" -> <<>>

(* The option of that path below a directive.                              *)
Nested(path, args, inner) ==
    FoldRight(LAMBDA name, d : Dir(name, <<>>, <<d>>), Front(path), Dir(Last(path), args, inner))

OptionDir(path, as) ==
    Nested(path, WordFor(as), IF as = "options" THEN <<Dir("word", <<"7">>, <<>>)>> ELSE <<>>)

Base == <<Dir("listen", <<"1935">>, <<>>), Dir("max_connections", <<"50">>, <<>>)>>

(* The text of a file with the directives ds, those of Base that are not   *)
(* among them coming first.                                                *)
WithBase(ds) ==
    persistence(Dir("root", <<>>,
        SelectSeq(Base, LAMBDA b : \A i \in DOMAIN ds : ds[i].name # b.name) \o ds), 0)

InVhost(ds) == <<Dir("vhost", <<"v1">>, ds)>>

(* The old places of options: <<getter, path in the vhost>>.               *)
OldStyle ==
    {<<"get_time_jitter", <<"time_jitter">>>>, <<"get_mix_correct", <<"mix_correct">>>>, <<"get_atc", <<"atc">>>>, <<"get_atc_auto", <<"atc_auto">>>>,
     <<"get_mw_sleep_ms", <<"mw_latency">>>>, <<"get_gop_cache", <<"gop_cache">>>>,
          <<"get_queue_length", <<"queue_length">>>>, <<"get_send_min_interval", <<"send_min_interval">>>>,
          <<"get_reduce_sequence_header", <<"reduce_sequence_header">>>>, <<"get_vhost_is_edge", <<"mode">>>>,
          <<"get_vhost_edge_origin", <<"origin">>>>, <<"get_vhost_edge_token_traverse", <<"token_traverse">>>>,
          <<"get_vhost_edge_transform_vhost", <<"vhost">>>>, <<"get_debug_srs_upnode", <<"debug_srs_upnode">>>>,
          <<"get_mr_enabled", <<"mr", "enabled">>>>, <<"get_mr_sleep_ms", <<"mr", "latency">>>>,
          <<"get_publish_1stpkt_timeout", <<"publish_1stpkt_timeout">>>>,
          <<"get_publish_normal_timeout", <<"publish_normal_timeout">>>>, <<"get_vhost_http_dir", <<"http", "dir">>>>,
          <<"get_refer_all", <<"refer">>>>, <<"get_refer_play", <<"refer_play">>>>,
          <<"get_refer_publish", <<"refer_publish">>>>, <<"get_forwards", <<"forward">>>>}

(* <<text, getter>>: for each getter of the root and of a vhost, the file  *)
(* that sets its option, in the present style and in the old one.          *)
Probes ==
    {<<WithBase(<<OptionDir(RootGetters[g].path, RootGetters[g].as)>>), g>> : g \in DOMAIN RootGetters}
    \cup {<<WithBase(InVhost(<<OptionDir(VhostGetters[g].path, VhostGetters[g].as)>>)), g>> : g \in DOMAIN VhostGetters}
    \cup {<<WithBase(InVhost(<<OptionDir(o[2], VhostGetters[o[1]].as)>>)), o[1]>> : o \in OldStyle}

(* A file under test meets a reload and a restart, nothing else.           *)
Next ==
    \/ \E p \in Probes : changes = 0 /\ subscribes = <<>> /\ Edit(p[1], p[2])
    \/ reload
    \/ Restart
    \/ /\ probe = "none"
       /\ \/ \E h \in Handlers, v \in Vhosts : subscribe(h, v)
          \/ \E h \in Handlers : unsubscribe(h)
          \/ \E f \in Files : Edit(f, "none")
          \/ \E eps \in {<<"1935", "7">>, <<"7", "1935">>} : raw_set_listen(eps)
          \/ \E o \in RawOptions : raw_set(o, "7")
          \/ \E v \in Vhosts :
                \/ raw_create_vhost(v) \/ raw_delete_vhost(v) \/ raw_disable_vhost(v) \/ raw_enable_vhost(v)
                \/ \E n \in Vhosts : raw_update_vhost(v, n)
                \/ \E s \in Streams : raw_enable_dvr(v, s) \/ raw_disable_dvr(v, s)
          \/ PersistOpen \/ PersistWrite \/ PersistFails \/ PersistRename

Spec == Init /\ [][Next]_vars

-----------------------------------------------------------------------------
(* Properties                                                              *)

(* What is read of the tree now, of the root and of vhost v1.              *)
Now == [g \in DOMAIN RootGetters |-> OfRoot(root, g)] @@ [g \in DOMAIN VhostGetters |-> OfVhost(root, g, "v1")]

GetterOf == RootGetters @@ VhostGetters

(* The options that a file under test sets besides the one it is for.      *)
Beside ==
    {"get_listens", "get_max_connections"}
    \cup (IF probe \in {"get_refer_all", "get_refer_play", "get_refer_publish"} THEN {"get_refer_enabled"} ELSE {})
    \cup (IF probe = "get_forwards" THEN {"get_forward_enabled"} ELSE {})

(* An option in the file, in the present style or in an old one, is        *)
(* accepted, its getter gives what the file says and every other getter    *)
(* its default: parse_conf, srs_config_transform_vhost, check_config and   *)
(* the getters agree on where options are.  (Running as a daemon and as a  *)
(* child, and a network that is not there, are refused for their values.)  *)
OptionRead ==
    probe # "none" =>
        /\ calls # <<<<"refused", "", "">>>> \/ probe \in {"get_asprocess", "get_stats_network"}
        /\ root # NULL /\ root = Loaded(disk.conf) => \A now \in {Now} :
              /\ now[probe] = Converted(GetterOf[probe].as, Dir("", WordFor(GetterOf[probe].as), <<>>))
              /\ \A g \in DOMAIN GetterOf \ ({probe} \cup Beside) :
                    now[g] = GetterOf[g].default \/ (g = "get_vhost_enabled" /\ get_vhost(root, "v1") = NULL)

Open == {i \in DOMAIN subscribes : ~subscribes[i].closed}

(* While no reload has been cut short by a change of cluster.mode, what a  *)
(* subscriber has read of the sections that are called back is what the    *)
(* configuration says now, and the ingests that run are those that are     *)
(* enabled, as they are configured now: reload_vhost, reload_ingest and    *)
(* the raw API miss no change.  Left out is dvr: where the new block has   *)
(* dvr_apply nothing is compared, also when the old one has another option *)
(* there.                                                                  *)
SubscribersCurrent ==
    clean => \A i \in Open :
        /\ \A g \in Cached : VhostGetters[g].path[1] # "dvr" =>
              subscribes[i].read.options[g] = OfVhost(root, g, subscribes[i].vhost)
        /\ subscribes[i].read.ingests = FreshIngests(root, subscribes[i].vhost)

(* A subscriber is closed exactly while its vhost is not enabled.          *)
ClosedWhenRemoved ==
    clean => \A i \in DOMAIN subscribes :
        subscribes[i].closed <=> ~get_vhost_enabled(get_arg(root, "vhost", subscribes[i].vhost))

(* A dump shows what the getters give, for the options that both know with *)
(* the same type.                                                          *)
Agrees(json, getters, tree) ==
    \A g \in DOMAIN getters :
        LET p  == getters[g].path
            shown == IF Len(p) = 2 THEN p[1] \in DOMAIN json /\ p[2] \in DOMAIN json[p[1]] \ {"enabled"}
                     ELSE Len(p) = 1 /\ p[1] \in DOMAIN json
            value == IF Len(p) = 2 THEN json[p[1]][p[2]] ELSE json[p[1]]
        IN  shown /\ getters[g].as \in {"on", "not off", "integer"} => value = Value(getters[g], tree)

(* The dumps of a vhost and of the globals for the HTTP API agree with the *)
(* getters: vhost_to_json and global_to_json look where the getters do.    *)
DumpAgrees ==
    root # NULL =>
        /\ \A json \in {global_to_json(root)} : Agrees(json, RootGetters, root)
        /\ \A k \in DOMAIN AllOf(root, "vhost") : \A json \in {vhost_to_json(root, AllOf(root, "vhost")[k])} :
              Agrees(json, VhostGetters, AllOf(root, "vhost")[k])

(* persistence() replaces the file by one that says all that the tree in   *)
(* memory does, or leaves it; no crash leaves it half written.             *)
SavedWhole == [][disk'.conf # disk.conf => changes' # changes \/ Loaded(disk'.conf) = root]_vars

(* Through reloads and changes by the raw API a subscriber knows whether   *)
(* its vhost is there, and what the configuration says of it.              *)
SubscribersFollow == SubscribersCurrent /\ ClosedWhenRemoved
=============================================================================
