------------------------------ MODULE MCParts -------------------------------
(***************************************************************************)
(* Parts of the server that share no state: the configuration and its      *)
(* files, a recording, the threads of a playing connection, the array      *)
(* under its queue.  A behaviour is about one part and leaves the others   *)
(* alone.                                                                  *)
(***************************************************************************)
EXTENDS Config, Mp4File, PlaySession, FastVector

VARIABLE part

(* Files for SrsConfig: two vhosts, every section that reload compares.    *)
O(name, word) == Dir(name, <<word>>, <<>>)

B(name, ds) == Dir(name, <<>>, ds)

VH(name, ds) == Dir("vhost", <<name>>, ds)

Ingest(id, on, ffmpeg) == Dir("ingest", <<id>>, <<O("enabled", on), O("ffmpeg", ffmpeg)>>)

Plain == WithBase(<<VH("v1", <<B("play", <<O("gop_cache", "off"), O("mw_latency", "7")>>), B("publish", <<O("mr", "on")>>),
                         B("dvr", <<O("enabled", "on"), O("dvr_plan", "segment")>>), Ingest("a", "on", "x")>>),
                    VH("v2", <<B("hls", <<O("enabled", "on"), O("hls_fragment", "7")>>), O("min_latency", "on")>>)>>)

(* The same vhosts with every section changed, v2 first.                   *)
Other == WithBase(<<VH("v2", <<B("hls", <<O("enabled", "off")>>), O("tcp_nodelay", "on"), B("exec", <<O("enabled", "on")>>)>>),
                    VH("v1", <<B("publish", <<O("mr_latency", "7")>>), B("dvr", <<O("dvr_apply", "all"), O("dvr_plan", "segment")>>),
                              Ingest("b", "on", "x"), Ingest("a", "on", "y"), B("forward", <<O("enabled", "on")>>)>>)>>)

(* v1 is off, v2 has become an edge.                                       *)
Edge == WithBase(<<VH("v1", <<O("enabled", "off"), Ingest("a", "off", "x")>>),
                   VH("v2", <<B("cluster", <<O("mode", "remote")>>), B("http_static", <<O("enabled", "on")>>)>>)>>)

(* Old styles, comments and quotes.                                        *)
Old == <<"#", "old", ";", "\n", "listen", " ", "'", "1935", "'", ";", "max_connections", "\n", "50", " ", ";",
         "http_stream", "{", "enabled", " ", "on", ";", "}",
         "vhost", " ", "v1", "{", "refer", " ", "a", " ", "b", ";", "mr", "{", "latency", " ", "7", ";", "}",
         "forward", " ", "a", ";", "http_remux", "{", "hstrs", " ", "on", ";", "}", "refer_play", ";",
         "gop_cache", " ", "off", ";", "play", "{", "atc", " ", "on", ";", "}", "}", "#", "end">>

(* Files that are refused: a block that does not end, a name that is not   *)
(* known, the same ingest twice.                                           *)
Open1 == Front(Front(Plain))

Illegal == WithBase(<<VH("v1", <<B("play", <<O("gop_cashe", "off")>>)>>)>>)

Twice == WithBase(<<VH("v1", <<Ingest("a", "on", "x"), Ingest("a", "on", "y")>>)>>)

MCFiles == {Plain, Other, Edge, Old, Open1, Illegal, Twice}

-----------------------------------------------------------------------------
partsVars == <<part, vars, mp4Vars, playVars, vectorVars>>

PartsInit ==
    /\ part \in {"config", "recording", "playing", "vector"}
    /\ Init /\ Mp4Init /\ PlayInit /\ VectorInit
    /\ part # "config" => disk.conf = Open1

PartsNext ==
    \/ part = "config" /\ Next /\ UNCHANGED <<part, mp4Vars, playVars, vectorVars>>
    \/ part = "recording" /\ Mp4Next /\ UNCHANGED <<part, vars, playVars, vectorVars>>
    \/ part = "playing" /\ PlayNext /\ UNCHANGED <<part, vars, mp4Vars, vectorVars>>
    \/ part = "vector" /\ SerialNext /\ UNCHANGED <<part, vars, mp4Vars, playVars>>
    \/ part \in {"config", "vector"} /\ UNCHANGED partsVars  \* their bounds stop them

(* The fairness of PlayFairSpec, of the behaviours that are about it.      *)
PartsSpec ==
    /\ PartsInit /\ [][PartsNext]_partsVars
    /\ WF_playVars(part = "playing" /\ ConnNext)
    /\ WF_playVars(part = "playing" /\ RecvNext)
    /\ SF_playVars(part = "playing" /\ Written)
==============================================================================
