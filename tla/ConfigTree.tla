----------------------------- MODULE ConfigTree -----------------------------
(***************************************************************************)
(* SrsConfDirective: the tree a configuration file is parsed to, its text, *)
(* its comparison, and the rewriting of old styles to the present one.     *)
(*                                                                         *)
(* A text is a sequence of lexemes: a maximal run of ordinary characters   *)
(* is one string, each of the characters in Special is one of its own.     *)
(***************************************************************************)
EXTENDS Integers, Sequences, SequencesExt, FiniteSets, TLC

(* A directive: name, args and the directives in its block.  NULL is the   *)
(* pointer that get() returns when there is none.                          *)
Dir(name, args, directives) == [name |-> name, args |-> args, directives |-> directives]

NULL == Dir("(null)", <<>>, <<>>)

(* arg0(): the first argument, empty when there is none.                   *)
arg0(d) == IF Len(d.args) > 0 THEN d.args[1] ELSE ""

IndexOf(d, name) == SelectInSeq(d.directives, LAMBDA e : e.name = name)

IndexOfArg(d, name, a0) == SelectInSeq(d.directives, LAMBDA e : e.name = name /\ arg0(e) = a0)

(* get(name) and get(name, arg0): the first match.                         *)
get(d, name) == IF IndexOf(d, name) = 0 THEN NULL ELSE d.directives[IndexOf(d, name)]

get_arg(d, name, a0) ==
    IF IndexOfArg(d, name, a0) = 0 THEN NULL ELSE d.directives[IndexOfArg(d, name, a0)]

(* set_arg0: replaces the first argument and keeps the others.             *)
set_arg0(d, a0) ==
    IF arg0(d) = a0 THEN d ELSE [d EXCEPT !.args = <<a0>> \o (IF @ = <<>> THEN <<>> ELSE Tail(@))]

(* get_or_create(name), the directive found or made being changed by Op.   *)
Within(d, name, Op(_)) ==
    LET i == IndexOf(d, name)
    IN  IF i = 0
        THEN [d EXCEPT !.directives = Append(@, Op(Dir(name, <<>>, <<>>)))]
        ELSE [d EXCEPT !.directives[i] = Op(@)]

(* get_or_create(name, arg0), likewise.                                    *)
WithinArg(d, name, a0, Op(_)) ==
    LET i == IndexOfArg(d, name, a0)
    IN  IF i = 0
        THEN [d EXCEPT !.directives = Append(@, Op(Dir(name, <<a0>>, <<>>)))]
        ELSE [d EXCEPT !.directives[i] = Op(@)]

SetArgs(d, args) == [d EXCEPT !.args = args]

(* remove: the directive with that name, if there is one.                  *)
remove(d, name) ==
    IF IndexOf(d, name) = 0 THEN d ELSE [d EXCEPT !.directives = RemoveAt(@, IndexOf(d, name))]

-----------------------------------------------------------------------------
(* Comparison                                                              *)

(* srs_directive_equals_self: the two without what is in their blocks.     *)
srs_directive_equals_self(a, b) ==
    /\ a.name = b.name
    /\ a.args = b.args
    /\ Len(a.directives) = Len(b.directives)

(* srs_directive_equals: the same directives in the same order.            *)
srs_directive_equals(a, b) == a = b

RECURSIVE srs_directive_equals_except(_, _, _)

(* srs_directive_equals with an exception: the places where a has a        *)
(* directive of that name are not compared.                                *)
srs_directive_equals_except(a, b, except) ==
    /\ srs_directive_equals_self(a, b)
    /\ \A i \in DOMAIN a.directives :
          \/ a.directives[i].name = except
          \/ srs_directive_equals_except(a.directives[i], b.directives[i], except)

-----------------------------------------------------------------------------
(* Text                                                                    *)

Space == {" ", "\n"}

Special == Space \cup {";", "{", "}", "#", "\"", "'"}

(* An argument that holds a space stands for any text that cannot be       *)
(* written without quotes.                                                 *)
Spelling(word) == IF word = "two words" THEN <<"two", " ", "words">> ELSE <<word>>

Spelled(lexemes) == FoldLeft(LAMBDA s, x : s \o x, "", lexemes)

Words(seq) == FlattenSeq([i \in DOMAIN seq |-> <<" ">> \o Spelling(seq[i])])

RECURSIVE persistence(_, _)

(* persistence: the name, the arguments as they are, then ";" or the block *)
(* when there is one.  The root (level 0) has neither name nor block.      *)
persistence(d, level) ==
    LET inner == FlattenSeq([i \in DOMAIN d.directives |-> persistence(d.directives[i], level + 1)])
        head  == <<d.name>> \o Words(d.args)
    IN  IF level = 0 THEN inner
        ELSE IF d.directives = <<>> THEN head \o <<";", "\n">>
        ELSE head \o <<" ", "{", "\n">> \o inner \o <<"}", "\n">>

RECURSIVE read_token(_, _, _, _, _)

(* read_token from position pos: mode is "space" (last_space), "comment",  *)
(* "word", "d" or "s" (in quotes) or "need" (need_space); word holds the   *)
(* lexemes of the word that is being read.  Gives how the token ended, the *)
(* words and the position after it.                                        *)
read_token(text, pos, mode, word, args) ==
    LET Ended(kind, as) == [kind |-> kind, args |-> as, pos |-> pos + 1]
        ch    == text[pos + 1]
        words == IF word = <<>> THEN args ELSE Append(args, Spelled(word))
        More(m, w, as) == read_token(text, pos + 1, m, w, as)
        OnlyIf(ok, kind) == Ended(IF ok THEN kind ELSE "invalid", args)
    IN  IF pos >= Len(text) THEN Ended(IF args = <<>> /\ mode \in {"space", "comment"} THEN "eof" ELSE "invalid", args)
        ELSE CASE mode = "comment" -> More(IF ch = "\n" THEN "space" ELSE "comment", <<>>, args)
               [] mode = "need" ->
                    IF ch \in Space THEN More("space", <<>>, args)
                    ELSE Ended(CASE ch = ";" -> "directive" [] ch = "{" -> "block_start" [] OTHER -> "invalid", args)
               [] mode = "space" ->
                    CASE ch \in Space -> More("space", <<>>, args)
                      [] ch = ";" -> OnlyIf(args # <<>>, "directive")
                      [] ch = "{" -> OnlyIf(args # <<>>, "block_start")
                      [] ch = "}" -> OnlyIf(args = <<>>, "block_end")
                      [] ch = "#" -> More("comment", <<>>, args)
                      [] ch = "\"" -> More("d", <<>>, args)
                      [] ch = "'" -> More("s", <<>>, args)
                      [] OTHER -> More("word", <<ch>>, args)
               [] mode = "word" ->
                    CASE ch \in Space -> More("space", <<>>, words)
                      [] ch = ";" -> Ended("directive", words)
                      [] ch = "{" -> Ended("block_start", words)
                      [] OTHER -> More("word", Append(word, ch), args)
               [] OTHER ->
                    IF ch = (IF mode = "d" THEN "\"" ELSE "'") THEN More("need", <<>>, words)
                    ELSE More(mode, Append(word, ch), args)

RECURSIVE parse_conf(_, _, _, _), parse_token(_, _, _, _)

(* parse_conf: the directives of a file or of a block, from position pos.  *)
parse_conf(text, pos, block, ds) == parse_token(text, block, ds, read_token(text, pos, "space", <<>>, <<>>))

(* One round of its loop, with the token t.                                *)
parse_token(text, block, ds, t) ==
    LET d == Dir(t.args[1], Tail(t.args), <<>>)
        Refused == [ok |-> FALSE, directives |-> ds, pos |-> t.pos]
        AfterBlock(inner) ==
            IF ~inner.ok THEN Refused
            ELSE parse_conf(text, inner.pos, block, Append(ds, [d EXCEPT !.directives = inner.directives]))
    IN  CASE t.kind = "invalid" -> Refused
          [] t.kind = "block_end" -> [ok |-> block, directives |-> ds, pos |-> t.pos]
          [] t.kind = "eof" -> [ok |-> ~block, directives |-> ds, pos |-> t.pos]
          [] t.args = <<>> -> Refused
          [] t.kind = "directive" -> parse_conf(text, t.pos, block, Append(ds, d))
          [] OTHER -> AfterBlock(parse_conf(text, t.pos, TRUE, <<>>))

(* parse: the whole file, NULL when it is refused.                         *)
parse(text) ==
    LET RootOf(p) == IF p.ok THEN Dir("root", <<>>, p.directives) ELSE NULL
    IN  RootOf(parse_conf(text, 0, FALSE, <<>>))

-----------------------------------------------------------------------------
(* Old styles                                                              *)

(* Mutant: the time jitter stays where it was.                           *)
ToPlay_but_jitter == {"mix_correct", "atc", "atc_auto", "mw_latency", "gop_cache", "queue_length",
           "send_min_interval", "reduce_sequence_header"}

ToPlay == {"time_jitter", "mix_correct", "atc", "atc_auto", "mw_latency", "gop_cache", "queue_length",
           "send_min_interval", "reduce_sequence_header"}

ToCluster == {"mode", "origin", "token_traverse", "vhost", "debug_srs_upnode"}

(* The option of publish an old option of the vhost has become.            *)
ToPublish == [publish_1stpkt_timeout |-> "firstpkt_timeout", publish_normal_timeout |-> "normal_timeout"]

(* The section (made when there is none) gets option name with args.       *)
Moved(vhost, section, name, args) ==
    Within(vhost, section, LAMBDA s : Within(s, name, LAMBDA o : SetArgs(o, args)))

refer_moved(vhost, conf) ==
    LET to == [refer |-> "all", refer_play |-> "play", refer_publish |-> "publish"]
    IN  Within(vhost, "refer", LAMBDA r :
            Within(WithinArg(r, "enabled", "on", LAMBDA e : e), to[conf.name], LAMBDA o : SetArgs(o, conf.args)))

mr_moved(vhost, conf) ==
    LET Option(p, old, new) ==
            IF get(conf, old) = NULL THEN p ELSE Within(p, new, LAMBDA o : SetArgs(o, get(conf, old).args))
    IN  Within(vhost, "publish", LAMBDA p : Option(Option(p, "enabled", "mr"), "latency", "mr_latency"))

forward_moved(conf) ==
    [Within(Within(conf, "enabled", LAMBDA e : set_arg0(e, "on")),
            "destination", LAMBDA o : SetArgs(o, conf.args)) EXCEPT !.args = <<>>]

RECURSIVE transform_from(_, _)

(* The directives of a vhost from the i-th on.  One that moves is erased   *)
(* and what it becomes is found in, or added to the end of, the others.    *)
transform_from(vhost, i) ==
    IF i > Len(vhost.directives) THEN vhost ELSE
    LET conf   == vhost.directives[i]
        n      == conf.name
        Rest   == [vhost EXCEPT !.directives = RemoveAt(@, i)]
        Keep(c) == transform_from([vhost EXCEPT !.directives[i] = c], i + 1)
    IN  CASE n = "http" -> Keep([conf EXCEPT !.name = "http_static"])
          [] n = "http_remux" -> Keep(remove(conf, "hstrs"))
          [] (n = "refer" /\ conf.directives = <<>>) \/ n \in {"refer_play", "refer_publish"} ->
               transform_from(refer_moved(Rest, conf), i)
          [] n = "mr" -> transform_from(mr_moved(Rest, conf), i)
          [] n \in DOMAIN ToPublish -> transform_from(Moved(Rest, "publish", ToPublish[n], conf.args), i)
          [] n \in ToPlay -> transform_from(Moved(Rest, "play", n, conf.args), i)
          [] n = "forward" /\ conf.directives = <<>> /\ conf.args # <<>> -> Keep(forward_moved(conf))
          [] n \in ToCluster -> transform_from(Moved(Rest, "cluster", n, conf.args), i)
          [] OTHER -> Keep(conf)

srs_config_transform_vhost(root) ==
    [root EXCEPT !.directives = [i \in DOMAIN @ |->
        CASE @[i].name = "http_stream" -> [@[i] EXCEPT !.name = "http_server"]
          [] @[i].name = "vhost" -> transform_from(@[i], 1)
          [] OTHER -> @[i]]]
=============================================================================
