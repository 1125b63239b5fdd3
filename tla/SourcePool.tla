----------------------------- MODULE SourcePool -----------------------------
(***************************************************************************)
(* The pool of sources (SrsSource::pool), a map from stream url to source  *)
(* that every connection's thread looks up and fills in fetch_or_create.   *)
(* There is no lock: the steps of two threads interleave.  A source is     *)
(* named by the connection that created it; nothing removes one (the       *)
(* cleanup in do_cycle_all is compiled out).                               *)
(***************************************************************************)
EXTENDS Naturals

CONSTANTS Conn, Url, None

ASSUME PoolAssumption == None \notin Conn \cup Url

VARIABLES
    pool,     \* url -> the source, or None
    thread,   \* program counter of each connection in fetch_or_create
    url,      \* the stream it asks for
    source    \* the source it was given, or None

poolVars == <<pool, thread, url, source>>

PoolTypeOK ==
    /\ pool \in [Url -> Conn \cup {None}]
    /\ thread \in [Conn -> {"idle", "fetch", "assert", "insert", "serve", "aborted"}]
    /\ url \in [Conn -> Url \cup {None}]
    /\ source \in [Conn -> Conn \cup {None}]

PoolInit ==
    /\ pool = [u \in Url |-> None]
    /\ thread = [c \in Conn |-> "idle"]
    /\ url = [c \in Conn |-> None]
    /\ source = [c \in Conn |-> None]

Goto(c, from, to) == thread[c] = from /\ thread' = [thread EXCEPT ![c] = to]

\* fetch: the source of the url, when there is one.
fetch(c) ==
    /\ Goto(c, "fetch", IF pool[url[c]] = None THEN "assert" ELSE "serve")
    /\ source' = [source EXCEPT ![c] = pool[url[c]]]
    /\ UNCHANGED <<pool, url>>

\* srs_assert(pool.find(stream_url) == pool.end()): a failure aborts the
\* process, or is not noticed where the build defines NDEBUG.
assert_absent(c) ==
    /\ \/ Goto(c, "assert", "insert")
       \/ pool[url[c]] # None /\ Goto(c, "assert", "aborted")
    /\ UNCHANGED <<pool, url, source>>

\* A new source, initialized and put into the pool, over whatever is there.
insert(c) ==
    /\ Goto(c, "insert", "serve")
    /\ pool' = [pool EXCEPT ![url[c]] = c]
    /\ source' = [source EXCEPT ![c] = c]
    /\ UNCHANGED url

\* The connection asks for a stream.
request(c, u) ==
    /\ Goto(c, "idle", "fetch")
    /\ url' = [url EXCEPT ![c] = u]
    /\ UNCHANGED <<pool, source>>

fetch_or_create(c) == fetch(c) \/ assert_absent(c) \/ insert(c)

\* The process with all its threads.
Alive == \A c \in Conn : thread[c] # "aborted"

\* "should always not exists for create a source": between the lookup of one
\* connection and its new source no other one creates the source of that stream.
AbsentForCreate ==
    \A c \in Conn : thread[c] = "assert" => pool[url[c]] = None
=============================================================================
