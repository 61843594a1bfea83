------------------------------ MODULE Fallback ------------------------------
(***************************************************************************)
(* The site a stranger sees (server/handler/fallback.go and                *)
(* fallback_http.go): one of four modes, chosen once, and for generated    *)
(* pages a bounded cache filled outside its lock, with conditional         *)
(* requests.  A path is its segments and the slashes it ends with.         *)
(***************************************************************************)
EXTENDS Naturals, Sequences, FiniteSets

CONSTANTS Visitors, Paths, maxCachedFallbackPages

VARIABLES
  mode,        \* what SetTarget left: proxy, pages and page404, custom, or none of them
  pages,       \* in directory mode: the paths with a page
  page404,     \* in directory mode: there is a 404.html
  cache,       \* cleaned paths with a generated page, and the page
  cacheCount,
  visit,       \* of a visitor: where its request is
  asked,       \* of a visitor: the path, Accept: text/html, an ETag, and a date the site is not newer than
  got,         \* of a visitor: the last answer
  shown        \* for every path: the generated pages visitors have shown for it

fallbackVars == <<mode, pages, page404, cache, cacheCount, visit, asked, got, shown>>

Root == [segs |-> <<>>, slashes |-> 1]
cleanPath(p) == IF p.segs = <<>> /\ p.slashes <= 1 THEN Root ELSE [p EXCEPT !.slashes = 0]
CleanPaths == {cleanPath(p) : p \in Paths} \cup {Root}

(* A family is open to sub-paths; support, help and pricing are not.       *)
detectPageType(p) ==
  CASE p.segs = <<>> -> "home"
    [] p.segs # <<>> /\ Head(p.segs) \in {"about", "contact", "services", "blog"} -> Head(p.segs)
    [] p.segs \in {<<"support">>, <<"help">>} -> "contact"
    [] p.segs = <<"pricing">> -> "services"
    [] OTHER -> "generic"

(* Mutant: the pages draw from one random source, in the order of renders. *)
renderPageShared(p) == <<p, cacheCount>>

(* The page is drawn from a source derived from the seed and the path.     *)
renderPage(p) == <<p, 0>>

Bodies == {<<p, n>> : p \in CleanPaths, n \in 0..maxCachedFallbackPages}
None == <<>>

(* Mutant: a date is looked at even when an ETag was sent.                 *)
isNotModifiedEither(r, body) == r.etag = body \/ r.current

(* If-None-Match, when sent, decides alone.                                *)
isNotModified(r, body) ==
  IF r.etag # None THEN r.etag = body ELSE r.current

generatedStatus(r) ==
  IF detectPageType(cleanPath(r.path)) = "generic" /\ r.html THEN 404 ELSE 200

-----------------------------------------------------------------------------
PageRequests == [path : Paths, html : BOOLEAN, etag : Bodies \cup {None}, current : BOOLEAN]
Answers == [status : {0, 200, 304, 404}, body : Bodies \cup {None, <<"own">>, <<"proxied">>}]
Nothing == [status |-> 0, body |-> None]

FallbackTypeOK ==
  /\ mode \in {"proxy", "dir", "custom", "generated"} /\ pages \subseteq CleanPaths /\ page404 \in BOOLEAN
  /\ DOMAIN cache \subseteq CleanPaths /\ \A p \in DOMAIN cache : cache[p] \in Bodies
  /\ cacheCount \in 0..maxCachedFallbackPages
  /\ visit \in [Visitors -> {"idle", "look", "render", "send"}]
  /\ asked \in [Visitors -> PageRequests] /\ got \in [Visitors -> Answers]
  /\ shown \in [CleanPaths -> SUBSET Bodies]

(* SetTarget clears every mode and sets one; a directory may hold no page. *)
SetTarget ==
  \/ mode \in {"proxy", "custom", "generated"} /\ pages = {} /\ page404 = FALSE
  \/ mode = "dir" /\ pages \in {{}, {Root}, CleanPaths \ {Root}} /\ page404 \in BOOLEAN

NoRequest == [path |-> CHOOSE p \in Paths : TRUE, html |-> FALSE, etag |-> None, current |-> FALSE]

FallbackInit ==
  /\ SetTarget /\ cache = <<>> /\ cacheCount = 0
  /\ visit = [v \in Visitors |-> "idle"] /\ asked = [v \in Visitors |-> NoRequest]
  /\ got = [v \in Visitors |-> Nothing] /\ shown = [p \in CleanPaths |-> {}]

Answer(v, status, body) ==
  /\ visit' = [visit EXCEPT ![v] = "idle"] /\ asked' = [asked EXCEPT ![v] = NoRequest]
  /\ got' = [got EXCEPT ![v] = [status |-> status, body |-> body]]

(* A visitor may revalidate a page it was sent.                            *)
Ask(v) ==
  /\ visit[v] = "idle"
  /\ \E r \in [path : Paths, html : BOOLEAN, current : BOOLEAN,
                etag : {None} \cup ({got[v].body} \cap Bodies)] :
       asked' = [asked EXCEPT ![v] = r]
  /\ visit' = [visit EXCEPT ![v] = "look"] /\ got' = [got EXCEPT ![v] = Nothing]
  /\ UNCHANGED <<mode, pages, page404, cache, cacheCount, shown>>

(* Serve in the modes the operator provides the site for.                  *)
ServeOwn(v) ==
  LET path == cleanPath(asked[v].path)
      paged == mode = "dir" /\ pages # {} /\ (path \in pages \/ page404 \/ Root \in pages) IN
  /\ visit[v] = "look"
  /\ \/ mode = "proxy" /\ Answer(v, 200, <<"proxied">>)
     \/ mode = "custom" /\ Answer(v, 200, <<"own">>)
     \/ paged /\ Answer(v, 200, <<"own">>)
  /\ UNCHANGED <<mode, pages, page404, cache, cacheCount, shown>>

(* getOrRenderHTML: the look into the cache, under the lock.               *)
LookUp(v) ==
  LET path == cleanPath(asked[v].path) IN
  /\ visit[v] = "look"
  /\ mode = "generated" \/ (mode = "dir" /\ ~(pages # {} /\ (path \in pages \/ page404 \/ Root \in pages)))
  /\ IF path \in DOMAIN cache
       THEN visit' = [visit EXCEPT ![v] = "send"] /\ got' = [got EXCEPT ![v] = [status |-> 0, body |-> cache[path]]]
       ELSE visit' = [visit EXCEPT ![v] = "render"] /\ got' = [got EXCEPT ![v] = [status |-> 0, body |-> renderPage(path)]]
  /\ UNCHANGED <<mode, pages, page404, cache, cacheCount, asked, shown>>

(* Mutant: the limit is not looked at.                                     *)
storableAny(path) == path \notin DOMAIN cache

storable(path) == path \notin DOMAIN cache /\ cacheCount < maxCachedFallbackPages

(* The rendered page is stored unless another request did, or the cache is *)
(* full.                                                                   *)
Store(v) ==
  LET path == cleanPath(asked[v].path) IN
  /\ visit[v] = "render" /\ visit' = [visit EXCEPT ![v] = "send"]
  /\ IF storable(path)
       THEN /\ cache' = [p \in DOMAIN cache \cup {path} |-> IF p = path THEN got[v].body ELSE cache[p]]
            /\ cacheCount' = cacheCount + 1
       ELSE UNCHANGED <<cache, cacheCount>>
  /\ UNCHANGED <<mode, pages, page404, asked, got, shown>>

(* prepareFallbackResponse: 304 without a body, upon which the visitor     *)
(* shows the page whose ETag it sent, or the page.                         *)
Send(v) ==
  LET body == got[v].body
      path == cleanPath(asked[v].path)
      show(b) == shown' = [shown EXCEPT ![path] = @ \cup ({b} \cap Bodies)] IN
  /\ visit[v] = "send"
  /\ IF isNotModified(asked[v], body)
       THEN Answer(v, 304, asked[v].etag) /\ show(asked[v].etag)
       ELSE Answer(v, generatedStatus(asked[v]), body) /\ show(body)
  /\ UNCHANGED <<mode, pages, page404, cache, cacheCount>>

FallbackNext == \E v \in Visitors : Ask(v) \/ ServeOwn(v) \/ LookUp(v) \/ Store(v) \/ Send(v)
FallbackSpec == FallbackInit /\ [][FallbackNext]_fallbackVars

-----------------------------------------------------------------------------
(* A path has one page: whoever renders it, from the cache or not, and     *)
(* also when the visitor goes on showing the copy a 304 told it to keep.   *)
OnePage == \A p \in CleanPaths : Cardinality(shown[p]) <= 1

-----------------------------------------------------------------------------
(***************************************************************************)
(* The reverse proxy mode of the fallback site                             *)
(* (server/handler/fallback_proxy.go): requests are sent to the upstream   *)
(* site or, under /__cdn__/<host>/, to a CDN host; in responses the URLs   *)
(* of those hosts are rewritten so that the browser comes back through the *)
(* proxy.  A host is its labels.  A URL names no port: a URL with a port   *)
(* is rewritten in a page but matches no configured host on its way back.  *)
(***************************************************************************)

CONSTANTS
  Hosts,       \* hosts the pages name
  targetHost,  \* the upstream site
  cdnHosts,    \* configured CDN domains
  origHost     \* the host the browser knows the proxy by

VARIABLES
  browser,  \* what the browser is doing
  url,      \* the URL it follows: the host, the /__cdn__/ host in the path, and whether there is a path
  meant,    \* the host the author of that URL meant
  reached,  \* the upstream the request arrived at
  resp      \* the response: encodings, what was read, and how it was framed

proxyVars == <<browser, url, meant, reached, resp>>

NoHost == <<>>

(* The host's text goes on after that of the site: replacing the site's    *)
(* address at its head yields another host.                                *)
Beyond(h) == Len(h) > Len(targetHost) /\ SubSeq(h, 1, Len(targetHost)) = targetHost
Glued(h) == origHost \o SubSeq(h, Len(targetHost) + 1, Len(h))
Named == Hosts \cup {Glued(h) : h \in Hosts}

URLs == [host : Named \cup {origHost}, cdn : Named \cup {NoHost}, path : BOOLEAN]
Origin == [host |-> origHost, cdn |-> NoHost, path |-> TRUE]

NoResp == [enc |-> "identity", bytes |-> "identity", header |-> "identity", sized |-> TRUE]
Encodings == {"identity", "gzip", "br"}

ProxyTypeOK ==
  /\ browser \in {"asks", "waits", "page"} /\ url \in URLs
  /\ meant \in Hosts /\ reached \in Named \cup {NoHost}
  /\ resp \in [enc : Encodings, bytes : Encodings, header : Encodings, sized : BOOLEAN]

ProxyInit ==
  browser = "asks" /\ url = Origin /\ meant = targetHost /\ reached = NoHost /\ resp = NoResp

-----------------------------------------------------------------------------
Parents(h) == {SubSeq(h, i, Len(h)) : i \in 2..(Len(h) - 1)}
cdnHostMatches(h) == h \in cdnHosts \/ Parents(h) \cap cdnHosts # {}

(* Mutant: a CDN host must be configured itself, not one of its parents.   *)
routeCDNExact(u) == IF u.cdn \in cdnHosts THEN u.cdn ELSE targetHost

routeCDN(u) == IF u.cdn # NoHost /\ cdnHostMatches(u.cdn) THEN u.cdn ELSE targetHost

(* The request passes the proxy when it is for the host the browser knows. *)
Request ==
  /\ browser = "asks" /\ browser' = "waits"
  /\ reached' = IF url.host = origHost THEN routeCDN(url) ELSE url.host
  /\ UNCHANGED <<url, meant, resp>>

(* Mutant: the host is read off the request the browser sent.              *)
effectiveHostAsked == IF url.cdn # NoHost THEN reached ELSE targetHost

(* ModifyResponse looks for the CDN host in the path of the request sent   *)
(* upstream, from which routeCDN has cut the prefix: it finds none.        *)
effectiveHost == targetHost

rewriteLocationHeader(u) ==
  IF u.host = effectiveHost
    THEN [u EXCEPT !.host = origHost]
    ELSE IF cdnHostMatches(u.host) THEN [u EXCEPT !.host = origHost, !.cdn = u.host] ELSE u

(* In a page a CDN host is recognised by the slash that follows it.        *)
rewriteCDNURLs(u) ==
  IF cdnHostMatches(u.host) /\ u.path THEN [u EXCEPT !.host = origHost, !.cdn = u.host] ELSE u

(* The site's address is replaced as text, also at the head of another     *)
(* host.                                                                   *)
rewriteBodyContent(u) ==
  IF u.host = effectiveHost THEN [u EXCEPT !.host = origHost]
  ELSE rewriteCDNURLs(IF Beyond(u.host) THEN [u EXCEPT !.host = Glued(u.host)] ELSE u)

Passes == url.host = origHost

(* A redirect, which the browser follows.                                  *)
Redirected ==
  /\ browser = "waits" /\ browser' = "asks" /\ Passes
  /\ \E h \in Hosts, path \in BOOLEAN :
       /\ url' = rewriteLocationHeader([host |-> h, cdn |-> NoHost, path |-> path]) /\ meant' = h
  /\ UNCHANGED <<reached, resp>>

(* A redirect without a host is left alone and stays on the host the       *)
(* browser knows, so its path is one of the upstream site.  A CDN that     *)
(* redirects this way is sent astray and is left out.                      *)
RedirectedRelative ==
  /\ browser = "waits" /\ browser' = "asks" /\ Passes /\ url.cdn = NoHost
  /\ url' = Origin /\ meant' = targetHost
  /\ UNCHANGED <<reached, resp>>

-----------------------------------------------------------------------------
(* setAcceptEncoding: gzip is offered upstream only if the browser takes   *)
(* it; an upstream may still answer with anything.                         *)
clientAcceptsGzip == {TRUE, FALSE}

(* Mutant: the encoding stays in the header when the body cannot be read.  *)
restoreFailedBodyKeeps(enc) == [enc |-> enc, bytes |-> "identity", header |-> enc, sized |-> TRUE]

(* What could be read is sent as it is, with its own length.               *)
restoreFailedBody(enc) == [enc |-> enc, bytes |-> "identity", header |-> "identity", sized |-> TRUE]

(* Mutant: the page is compressed again, the length is the page's.         *)
recompressUnsized(gzip) ==
  IF gzip THEN [enc |-> "identity", bytes |-> "gzip", header |-> "gzip", sized |-> FALSE] ELSE NoResp

recompress(gzip) ==
  IF gzip THEN [enc |-> "identity", bytes |-> "gzip", header |-> "gzip", sized |-> TRUE] ELSE NoResp

(* rewriteResponseBody: a page in an encoding it reads is rewritten, or    *)
(* replaced by what could be read of it; anything else passes as it came.  *)
PageArrives ==
  /\ browser = "waits" /\ browser' = "page" /\ Passes
  /\ \E enc \in Encodings, html \in BOOLEAN, fails \in BOOLEAN, gzip \in clientAcceptsGzip :
       resp' = IF ~html \/ enc = "br"
                 THEN [enc |-> enc, bytes |-> enc, header |-> enc, sized |-> TRUE]
                 ELSE IF fails THEN restoreFailedBody(enc) ELSE recompress(gzip)
  /\ UNCHANGED <<url, meant, reached>>

(* The browser follows a URL of the page.                                  *)
Click ==
  /\ browser = "page" /\ browser' = "asks"
  /\ \E h \in Hosts, path \in BOOLEAN :
       /\ url' = rewriteBodyContent([host |-> h, cdn |-> NoHost, path |-> path]) /\ meant' = h
  /\ UNCHANGED <<reached, resp>>

ProxyNext == Request \/ Redirected \/ RedirectedRelative \/ PageArrives \/ Click
ProxySpec == ProxyInit /\ [][ProxyNext]_proxyVars

-----------------------------------------------------------------------------
(* However often the browser is redirected or follows a link, it reaches   *)
(* the host that was meant, and for the upstream site and for a CDN host   *)
(* with a path it does so through the proxy; a host that only begins with  *)
(* the site's name is the one exception.  What it is sent is in the        *)
(* encoding and of the length the headers say.                             *)
ComesBack ==
  /\ browser \in {"waits", "page"} => reached = meant \/ Beyond(meant)
  /\ browser = "waits" /\ (meant = targetHost \/ (cdnHostMatches(meant) /\ url.path)) =>
       Passes \/ Beyond(meant)
  /\ browser = "page" => resp.bytes = resp.header /\ resp.sized
=============================================================================
