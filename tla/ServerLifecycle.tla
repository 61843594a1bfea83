-------------------------- MODULE ServerLifecycle --------------------------
(***************************************************************************)
(* Start and Shutdown of the server (server/server.go) and the process     *)
(* around them (cmd/easyss-server/main.go): a signal may stop a server     *)
(* whose certificates are still being obtained.  Every certmagic cache     *)
(* runs a goroutine until Stop, and a second Stop panics.                  *)
(***************************************************************************)
EXTENDS Naturals

CONSTANT Stoppers  \* callers of Shutdown

VARIABLES
  manual,     \* the certificate comes from files
  start,      \* how far Start is
  certCache,  \* the cache Start holds: 0 none, 1 the first, 2 that of the retry
  cache,      \* of a cache: not there, live, stopped, or stopped twice
  published,  \* what Start has published: the cache, a server and a stats channel, or nothing
  stopped,    \* s.stopped
  shutdown,   \* of a caller: where its Shutdown is
  taken,      \* of a caller: what it took over
  stats,      \* the stats loop
  listener    \* the HTTP server: not there, made, serving, shut down

serverVars == <<manual, start, certCache, cache, published, stopped, shutdown, taken, stats, listener>>

Caches == {1, 2}
Nothing == [any |-> FALSE, cache |-> 0]

ServerTypeOK ==
  /\ manual \in BOOLEAN /\ stopped \in BOOLEAN /\ certCache \in {0, 1, 2}
  /\ start \in {"tls", "retry", "setup", "publish", "undo", "serve", "listen", "returned", "failed"}
  /\ cache \in [Caches -> {"none", "live", "stopped", "stopped_twice"}]
  /\ published \in [any : BOOLEAN, cache : {0, 1, 2}]
  /\ shutdown \in [Stoppers -> {"idle", "stats", "cache", "http", "done"}]
  /\ taken \in [Stoppers -> [any : BOOLEAN, cache : {0, 1, 2}]]
  /\ stats \in {"off", "running", "told", "ended"} /\ listener \in {"none", "made", "serving", "down"}

ServerInit ==
  /\ manual \in BOOLEAN /\ start = "tls" /\ certCache = 0 /\ cache = [c \in Caches |-> "none"]
  /\ published = Nothing /\ stopped = FALSE /\ shutdown = [p \in Stoppers |-> "idle"]
  /\ taken = [p \in Stoppers |-> Nothing] /\ stats = "off" /\ listener = "none"

-----------------------------------------------------------------------------
Stop(c) ==
  cache' = IF c = 0 THEN cache
           ELSE [cache EXCEPT ![c] = IF @ = "live" THEN "stopped" ELSE "stopped_twice"]

(* The first attempt to get a certificate: success, an error that a fresh  *)
(* certificate cures (its cache is stopped), or another error.             *)
initTLS ==
  /\ start = "tls"
  /\ \/ manual /\ start' \in {"setup", "failed"} /\ UNCHANGED <<certCache, cache>>
     \/ ~manual /\ start' = "setup" /\ certCache' = 1 /\ cache' = [cache EXCEPT ![1] = "live"]
     \/ ~manual /\ start' \in {"retry", "failed"} /\ cache' = [cache EXCEPT ![1] = "stopped"] /\ UNCHANGED certCache
     \/ ~manual /\ start' = "failed" /\ UNCHANGED <<certCache, cache>>  \* no storage
  /\ UNCHANGED <<manual, published, stopped, shutdown, taken, stats, listener>>

manageCertAgain ==
  /\ start = "retry"
  /\ \/ start' = "setup" /\ certCache' = 2 /\ cache' = [cache EXCEPT ![2] = "live"]
     \/ start' = "failed" /\ cache' = [cache EXCEPT ![2] = "stopped"] /\ UNCHANGED certCache
  /\ UNCHANGED <<manual, published, stopped, shutdown, taken, stats, listener>>

(* The fallback site, the keys, the next proxy and the handlers.           *)
Setup ==
  /\ start = "setup" /\ start' \in {"publish", "undo"}
  /\ UNCHANGED <<manual, certCache, cache, published, stopped, shutdown, taken, stats, listener>>

(* Mutant: the server is published without a look at stopped.              *)
PublishAlways ==
  /\ start = "publish"
  /\ start' = "serve" /\ published' = [any |-> TRUE, cache |-> certCache] /\ listener' = "made"
  /\ UNCHANGED <<manual, certCache, cache, stopped, shutdown, taken, stats>>

(* Under the lock: stopped already, or what Start made is the server's.    *)
Publish ==
  /\ start = "publish"
  /\ IF stopped
       THEN start' = "undo" /\ UNCHANGED <<published, listener>>
       ELSE /\ start' = "serve" /\ published' = [any |-> TRUE, cache |-> certCache]
            /\ listener' = "made"
  /\ UNCHANGED <<manual, certCache, cache, stopped, shutdown, taken, stats>>

(* Mutant: the deferred function cache the cache of a published server.    *)
ReturnStops ==
  \/ /\ start = "undo" /\ start' = "failed" /\ Stop(certCache)
     /\ UNCHANGED <<manual, certCache, published, stopped, shutdown, taken, stats, listener>>
  \/ /\ start = "listen" /\ start' = "returned" /\ Stop(certCache)
     /\ UNCHANGED <<manual, certCache, published, stopped, shutdown, taken, stats, listener>>

(* Start returns early: the cache is still its own.                        *)
Undo ==
  /\ start = "undo" /\ start' = "failed" /\ Stop(certCache)
  /\ UNCHANGED <<manual, certCache, published, stopped, shutdown, taken, stats, listener>>

Serve ==
  /\ start = "serve" /\ start' = "listen" /\ stats' = (IF stats = "told" THEN "ended" ELSE "running")
  /\ UNCHANGED <<manual, certCache, cache, published, stopped, shutdown, taken, listener>>

(* ListenAndServeTLS runs until the server is shut down, or fails.         *)
Listen ==
  /\ start = "listen"
  /\ \/ listener = "made" /\ listener' = "serving" /\ UNCHANGED start
     \/ start' = "returned" /\ UNCHANGED listener
  /\ UNCHANGED <<manual, certCache, cache, published, stopped, shutdown, taken, stats>>

-----------------------------------------------------------------------------
(* Shutdown: the first caller takes what is published, then closes it.     *)
Shutdown(p) ==
  /\ shutdown[p] = "idle" /\ stopped' = TRUE
  /\ IF stopped
       THEN shutdown' = [shutdown EXCEPT ![p] = "done"] /\ UNCHANGED <<taken, published>>
       ELSE /\ shutdown' = [shutdown EXCEPT ![p] = "stats"]
            /\ taken' = [taken EXCEPT ![p] = published] /\ published' = Nothing
  /\ UNCHANGED <<manual, start, certCache, cache, stats, listener>>

CloseStats(p) ==
  /\ shutdown[p] = "stats" /\ shutdown' = [shutdown EXCEPT ![p] = "cache"]
  /\ stats' = IF ~taken[p].any THEN stats ELSE IF stats = "off" THEN "told" ELSE "ended"
  /\ UNCHANGED <<manual, start, certCache, cache, published, stopped, taken, listener>>

StopCache(p) ==
  /\ shutdown[p] = "cache" /\ shutdown' = [shutdown EXCEPT ![p] = "http"]
  /\ Stop(taken[p].cache)
  /\ UNCHANGED <<manual, start, certCache, published, stopped, taken, stats, listener>>

ShutdownHTTP(p) ==
  /\ shutdown[p] = "http" /\ shutdown' = [shutdown EXCEPT ![p] = "done"]
  /\ listener' = IF taken[p].any THEN "down" ELSE listener
  /\ UNCHANGED <<manual, start, certCache, cache, published, stopped, taken, stats>>

ServerNext ==
  \/ initTLS \/ manageCertAgain \/ Setup \/ Publish \/ Undo \/ Serve \/ Listen
  \/ \E p \in Stoppers : Shutdown(p) \/ CloseStats(p) \/ StopCache(p) \/ ShutdownHTTP(p)

ServerSpec == ServerInit /\ [][ServerNext]_serverVars

-----------------------------------------------------------------------------
(* However Start and Shutdown overlap, no cache is stopped twice, and when *)
(* both are over no cache runs, no stats loop runs and nothing listens.    *)
StoppedOnce ==
  LET over == start \in {"returned", "failed"}
      live == {c \in Caches : cache[c] = "live"} IN
  /\ \A c \in Caches : cache[c] # "stopped_twice"
  /\ start = "failed" => live = {}
  /\ over /\ stopped /\ (\A p \in Stoppers : shutdown[p] \in {"idle", "done"}) =>
       live = {} /\ stats # "running" /\ listener # "serving" /\ ~published.any
=============================================================================
