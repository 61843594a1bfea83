------------------------------ MODULE MCServer ------------------------------
(***************************************************************************)
(* The parts of the server for TLC.  A request that passes the rate limit  *)
(* is served; the session it gets resolves and dials a target, perhaps     *)
(* through the next proxy, or relays datagrams; a visitor who is no client *)
(* gets the fallback site.  These parts share no state but their results,  *)
(* so one of them moves and the others stay as they began.                 *)
(***************************************************************************)
EXTENDS RateLimit, ServerUDP, TLC, TLAPS

-----------------------------------------------------------------------------
(***************************************************************************)
(* The sweep of the rate limiter loses nothing, for any number of source   *)
(* addresses, any rate, burst and limits, as long as the TTL is enough to  *)
(* fill an empty bucket (RateAssumption).                                  *)
(*                                                                         *)
(* SweepForgetsNothing compares the buckets at this moment only.  What is  *)
(* inductive is that the bucket of an address and the one it would have in *)
(* a map never swept agree from now on (Agree), for which no bucket may    *)
(* have been used in the future (Past).                                    *)
(***************************************************************************)

Times == {t \in Nat : t >= now}

(* From now on an address in E has the tokens of its ideal bucket, and the *)
(* ideal bucket of any other is full.                                      *)
Agree(E) ==
  \A i \in IPs, t \in Times :
    Tokens(ideal[i], t) = IF i \in E THEN Tokens(bucket[i], t) ELSE handshakeBurst

(* A bucket was last used no later than its address was last seen.         *)
Past ==
  \A i \in IPs : bucket[i].last <= bucket[i].seen /\ bucket[i].seen <= now /\ ideal[i].last <= now

RateInv == RateTypeOK /\ Past /\ Agree(entries)

-----------------------------------------------------------------------------

(* Time limits for the leaves below.                                       *)
USE SMTT(30), ZenonT(30)

(* A longer time brings at least as many tokens.                           *)
LEMMA MoreTime ==
  ASSUME NEW a \in Nat, NEW b \in Nat, NEW r \in Nat, a >= b
  PROVE  a * r \in Nat /\ b * r \in Nat /\ a * r >= b * r
<1>1. PICK d \in Nat : a = b + d
  <2>1. a - b \in Nat /\ a = b + (a - b)
    OBVIOUS
  <2> QED  BY <2>1
<1>2. a * r = b * r + d * r
  BY <1>1
<1>3. a * r \in Nat /\ b * r \in Nat /\ d * r \in Nat
  OBVIOUS
<1> QED  BY <1>2, <1>3

(* A bucket holds between none and handshakeBurst tokens.                  *)
LEMMA TokensRange ==
  ASSUME NEW b \in Bucket, NEW t \in Nat, b.last <= t
  PROVE  Tokens(b, t) \in 0 .. handshakeBurst
<1>1. b.tokens \in 0 .. handshakeBurst /\ t - b.last \in Nat /\ handshakeRate \in Nat /\ handshakeBurst \in Nat
  BY RateAssumption DEF Bucket
<1>2. (t - b.last) * handshakeRate \in Nat
  BY <1>1, MoreTime
<1> QED  BY <1>1, <1>2 DEF Tokens

(* An address not seen for the TTL has a full bucket.                      *)
LEMMA IdleIsFull ==
  ASSUME NEW b \in Bucket, NEW t \in Nat, b.last <= t, t - b.last >= ipCleanupTTL
  PROVE  Tokens(b, t) = handshakeBurst
<1>1. b.tokens \in Nat /\ t - b.last \in Nat /\ handshakeRate \in Nat /\ handshakeBurst \in Nat /\ ipCleanupTTL \in Nat
      /\ ipCleanupTTL * handshakeRate >= handshakeBurst
  BY RateAssumption DEF Bucket
<1>2. /\ (t - b.last) * handshakeRate \in Nat /\ ipCleanupTTL * handshakeRate \in Nat
      /\ (t - b.last) * handshakeRate >= ipCleanupTTL * handshakeRate
  BY <1>1, MoreTime
<1> QED  BY <1>1, <1>2 DEF Tokens

(* A bucket just made is full from then on.                                *)
LEMMA NewIsFull ==
  ASSUME NEW m \in 0 .. MaxTime, NEW t \in Nat, m <= t
  PROVE  Full(m) \in Bucket /\ Tokens(Full(m), t) = handshakeBurst
<1>1. handshakeBurst \in Nat /\ handshakeRate \in Nat /\ m \in Nat /\ t - m \in Nat
  BY RateAssumption
<1>2. (t - m) * handshakeRate \in Nat
  BY <1>1, MoreTime
<1> QED  BY <1>1, <1>2 DEF Full, Bucket, Tokens

(* A request leaves a bucket of the right type, last used and seen now.    *)
LEMMA AllowType ==
  ASSUME NEW b \in Bucket, NEW m \in 0 .. MaxTime, b.last <= m
  PROVE  /\ AllowN(b, m) \in Bucket
         /\ AllowN(b, m).last <= m /\ AllowN(b, m).seen = m
<1>1. m \in Nat /\ Tokens(b, m) \in 0 .. handshakeBurst /\ handshakeBurst \in Nat
  <2>1. MaxTime \in Nat /\ handshakeBurst \in Nat
    BY RateAssumption
  <2>2. m \in Nat
    BY <2>1
  <2> QED  BY <2>1, <2>2, TokensRange
<1>2. CASE Tokens(b, m) >= 1
  BY <1>1, <1>2 DEF AllowN, Bucket
<1>3. CASE ~(Tokens(b, m) >= 1)
  BY <1>1, <1>3 DEF AllowN, Bucket
<1> QED  BY <1>2, <1>3

(* Two buckets that agree from now on still do after a request to both.    *)
LEMMA AllowAgrees ==
  ASSUME NEW b \in Bucket, NEW c \in Bucket, NEW m \in 0 .. MaxTime, b.last <= m, c.last <= m,
         \A t \in Nat : t >= m => Tokens(b, t) = Tokens(c, t),
         NEW t \in Nat, t >= m
  PROVE  Tokens(AllowN(b, m), t) = Tokens(AllowN(c, m), t)
<1>1. m \in Nat /\ Tokens(b, m) = Tokens(c, m)
  BY RateAssumption
<1>2. CASE Tokens(b, m) >= 1
  BY <1>1, <1>2 DEF AllowN
<1>3. CASE ~(Tokens(b, m) >= 1)
  <2>1. AllowN(b, m) = [b EXCEPT !.seen = m] /\ AllowN(c, m) = [c EXCEPT !.seen = m]
    BY <1>1, <1>3 DEF AllowN
  <2>2. /\ AllowN(b, m).tokens = b.tokens /\ AllowN(b, m).last = b.last
        /\ AllowN(c, m).tokens = c.tokens /\ AllowN(c, m).last = c.last
    BY <2>1 DEF Bucket
  <2>3. Tokens(AllowN(b, m), t) = Tokens(b, t) /\ Tokens(AllowN(c, m), t) = Tokens(c, t)
    BY <2>2 DEF Tokens
  <2> QED  BY <2>3
<1> QED  BY <1>2, <1>3

(* cleanupLocked: what it removes is full, so nothing is lost with it.     *)
LEMMA SweepAgrees ==
  ASSUME RateTypeOK, Past, NEW E \in SUBSET IPs, Agree(E)
  PROVE  cleanupLocked(E) \in SUBSET E /\ Agree(cleanupLocked(E))
<1>1. cleanupLocked(E) \in SUBSET E
  BY DEF cleanupLocked
<1>2. ASSUME NEW i \in IPs, NEW t \in Times
      PROVE  Tokens(ideal[i], t) = IF i \in cleanupLocked(E) THEN Tokens(bucket[i], t) ELSE handshakeBurst
  <2>1. CASE i \in cleanupLocked(E) \/ i \notin E
    BY <1>1, <2>1 DEF Agree
  <2>2. CASE i \in E /\ i \notin cleanupLocked(E)
    <3>1. /\ bucket[i] \in Bucket /\ bucket[i].last \in Nat /\ bucket[i].seen \in Nat
          /\ now \in Nat /\ ipCleanupTTL \in Nat /\ t \in Nat /\ t >= now
      BY RateAssumption DEF RateTypeOK, Bucket, Times
    <3>2. bucket[i].last <= bucket[i].seen /\ bucket[i].seen <= now
      BY DEF Past
    <3>3. now - bucket[i].seen > ipCleanupTTL
      BY <2>2, <3>1 DEF cleanupLocked
    <3>4. bucket[i].last <= t /\ t - bucket[i].last >= ipCleanupTTL
      BY <3>1, <3>2, <3>3
    <3>5. Tokens(bucket[i], t) = handshakeBurst
      BY Zenon, <3>1, <3>4, IdleIsFull
    <3> QED  BY <2>2, <3>5 DEF Agree
  <2> QED  BY <2>1, <2>2
<1> QED  BY <1>1, <1>2 DEF Agree

(* Allow: the sweeps lose nothing, and the request takes from both buckets *)
(* alike.                                                                  *)
LEMMA AllowStep ==
  ASSUME RateInv, NEW i \in IPs, Allow(i)
  PROVE  RateInv'
<1> DEFINE due == Cardinality(entries) >= ipCleanupThreshold /\ now - lastCleanup >= ipCleanupInterval
           swept == IF due THEN cleanupLocked(entries) ELSE entries
           capped == i \notin swept /\ Cardinality(swept) >= ipHardCap
           kept == IF capped THEN cleanupLocked(swept) ELSE swept
           open == i \notin kept /\ Cardinality(kept) >= ipHardCap
           b == IF i \in kept THEN bucket[i] ELSE Full(now)
<1>1. /\ lastCleanup' = IF due \/ capped THEN now ELSE lastCleanup
      /\ entries' = IF open THEN kept ELSE kept \cup {i}
      /\ bucket' = IF open THEN bucket ELSE [bucket EXCEPT ![i] = AllowN(b, now)]
      /\ ideal' = IF open THEN ideal ELSE [ideal EXCEPT ![i] = AllowN(@, now)]
      /\ now' = now
  BY DEF Allow
<1>2. /\ RateTypeOK /\ Past /\ Agree(entries) /\ entries \in SUBSET IPs
      /\ now \in 0 .. MaxTime /\ now \in Nat
  BY RateAssumption DEF RateInv, RateTypeOK
<1>3. swept \in SUBSET entries /\ Agree(swept)
  BY <1>2, SweepAgrees
<1>4. kept \in SUBSET entries /\ Agree(kept)
  BY <1>2, <1>3, SweepAgrees
<1>6. CASE open
  <2>1. entries' = kept /\ bucket' = bucket /\ ideal' = ideal /\ now' = now /\ lastCleanup' \in {now, lastCleanup}
    BY Zenon, <1>1, <1>6
  <2>2. RateTypeOK' /\ Past'
    BY Zenon, <1>2, <1>4, <2>1 DEF RateTypeOK, Past
  <2>3. Agree(entries)'
    BY <1>4, <2>1 DEF Agree, Times
  <2> QED  BY Zenon, <2>2, <2>3 DEF RateInv
<1>7. CASE ~open
  <2>1. /\ entries' = kept \cup {i} /\ lastCleanup' \in {now, lastCleanup} /\ now' = now
        /\ bucket' = [bucket EXCEPT ![i] = AllowN(b, now)]
        /\ ideal' = [ideal EXCEPT ![i] = AllowN(ideal[i], now)]
    BY <1>1, <1>7
  <2>2. bucket \in [IPs -> Bucket] /\ ideal \in [IPs -> Bucket]
    BY <1>2 DEF RateTypeOK
  <2>3. ideal[i] \in Bucket /\ ideal[i].last <= now
    BY Zenon, <1>2, <2>2 DEF Past
  <2>4. b \in Bucket /\ b.last <= now
    <3>1. CASE i \in kept
      <4>1. bucket[i] \in Bucket /\ bucket[i].last \in Nat /\ bucket[i].seen \in Nat
        BY <2>2, RateAssumption DEF Bucket
      <4>2. bucket[i].last <= bucket[i].seen /\ bucket[i].seen <= now
        BY Zenon, <1>2 DEF Past
      <4> QED  BY <1>2, <3>1, <4>1, <4>2
    <3>2. CASE i \notin kept
      BY <1>2, <3>2, NewIsFull DEF Full
    <3> QED  BY Zenon, <3>1, <3>2
  <2>5. \A t \in Nat : t >= now => Tokens(b, t) = Tokens(ideal[i], t)
    <3> SUFFICES ASSUME NEW t \in Nat, t >= now PROVE Tokens(b, t) = Tokens(ideal[i], t)
      OBVIOUS
    <3>1. t \in Times
      BY Zenon DEF Times
    <3>2. CASE i \in kept
      BY Zenon, <1>4, <3>1, <3>2 DEF Agree
    <3>3. CASE i \notin kept
      <4>1. Tokens(Full(now), t) = handshakeBurst
        BY <1>2, NewIsFull
      <4> QED  BY <1>4, <3>1, <3>3, <4>1 DEF Agree
    <3> QED  BY Zenon, <3>2, <3>3
  <2> HIDE DEF b, kept
  <2>6. /\ AllowN(b, now) \in Bucket /\ AllowN(b, now).last <= now /\ AllowN(b, now).seen = now
        /\ AllowN(ideal[i], now) \in Bucket /\ AllowN(ideal[i], now).last <= now
    BY <1>2, <2>3, <2>4, AllowType
  <2>7. RateTypeOK'
    BY Zenon, <1>2, <1>4, <2>1, <2>2, <2>6 DEF RateTypeOK
  <2>8. Past'
    BY <1>2, <2>1, <2>2, <2>6 DEF Past
  <2>10. Agree(entries)'
    <3> SUFFICES ASSUME NEW j \in IPs, NEW t \in Nat, t >= now
                 PROVE  Tokens(ideal'[j], t) = IF j \in entries' THEN Tokens(bucket'[j], t) ELSE handshakeBurst
      BY <2>1 DEF Agree, Times, Tokens
    <3>1. CASE j = i
      <4>1. Tokens(AllowN(b, now), t) = Tokens(AllowN(ideal[i], now), t)
        BY <1>2, <2>3, <2>4, <2>5, AllowAgrees
      <4>2. bucket'[j] = AllowN(b, now) /\ ideal'[j] = AllowN(ideal[i], now) /\ j \in entries'
        BY <2>1, <2>2, <3>1
      <4> QED  BY Zenon, <4>1, <4>2
    <3>2. CASE j # i
      <4>1. bucket'[j] = bucket[j] /\ ideal'[j] = ideal[j] /\ (j \in entries' <=> j \in kept)
        BY <2>1, <2>2, <3>2
      <4>2. t \in Times
        BY DEF Times
      <4>3. Tokens(ideal[j], t) = IF j \in kept THEN Tokens(bucket[j], t) ELSE handshakeBurst
        BY <1>4, <4>2 DEF Agree
      <4> QED  BY <4>1, <4>3
    <3> QED  BY Zenon, <3>1, <3>2
  <2> QED  BY Zenon, <2>7, <2>8, <2>10 DEF RateInv
<1> QED  BY Zenon, <1>6, <1>7

(* At the start the map is empty and every bucket is full.                 *)
LEMMA InitAgrees == RateInit => RateInv
<1> SUFFICES ASSUME RateInit PROVE RateInv
  OBVIOUS
<1>1. /\ now = 0 /\ entries = {} /\ lastCleanup = 0 /\ MaxTime \in Nat /\ 0 \in 0 .. MaxTime
      /\ bucket = [i \in IPs |-> Full(0)] /\ ideal = [i \in IPs |-> Full(0)]
  BY RateAssumption DEF RateInit
<1>2. Full(0) \in Bucket /\ \A t \in Nat : Tokens(Full(0), t) = handshakeBurst
  BY <1>1, NewIsFull
<1>3. RateTypeOK
  BY <1>1, <1>2 DEF RateTypeOK
<1>4. Past
  BY <1>1 DEF Past, Full
<1>6. Agree(entries)
  BY <1>1, <1>2 DEF Agree, Times
<1> QED  BY <1>3, <1>4, <1>6 DEF RateInv

(* Every step keeps the inductive invariant.                               *)
LEMMA StepAgrees == RateInv /\ [RateNext]_rateVars => RateInv'
<1> SUFFICES ASSUME RateInv, [RateNext]_rateVars PROVE RateInv'
  OBVIOUS
<1>1. CASE Tick
  <2>1. /\ now \in Nat /\ MaxTime \in Nat /\ now' = now + 1 /\ now' \in 0 .. MaxTime
        /\ UNCHANGED <<entries, bucket, lastCleanup, ideal>>
    BY <1>1, RateAssumption DEF Tick, RateInv, RateTypeOK
  <2>2. RateTypeOK'
    BY <2>1 DEF RateInv, RateTypeOK
  <2>3. Past'
    <3>1. ASSUME NEW i \in IPs
          PROVE  bucket[i].seen \in Nat /\ ideal[i].last \in Nat
      BY RateAssumption DEF RateInv, RateTypeOK, Bucket
    <3> QED  BY <2>1, <3>1 DEF RateInv, Past
  <2>4. \A t \in Nat : t >= now' => t \in Times
    BY <2>1 DEF Times
  <2>5. Agree(entries)'
    BY <2>1, <2>4 DEF RateInv, Agree, Times, Tokens
  <2> QED  BY <2>2, <2>3, <2>5 DEF RateInv
<1>2. ASSUME NEW i \in IPs, Allow(i) PROVE RateInv'
  BY Zenon, <1>2, AllowStep
<1>3. CASE UNCHANGED rateVars
  BY <1>3 DEF RateInv, RateTypeOK, Past, Agree, Times, Tokens, rateVars
<1> QED  BY <1>1, <1>2, <1>3 DEF RateNext

-----------------------------------------------------------------------------
(***************************************************************************)
(* Fallback for any number of visitors and any size of the cache.          *)
(***************************************************************************)
CONSTANTS Visitors, maxCachedFallbackPages

ASSUME SiteAssumption == maxCachedFallbackPages \in Nat

VARIABLES mode, pages, page404, pageCache, cacheCount, visit, asked, got, shown,
          browser, url, meant, reached, resp

fvars == <<mode, pages, page404, pageCache, cacheCount, visit, asked, got, shown>>
pvars == <<browser, url, meant, reached, resp>>

(* The fallback site: two paths, one of a known page; its hosts.           *)
SitePaths == {[segs |-> <<"about">>, slashes |-> 1], [segs |-> <<"x">>, slashes |-> 0]}
SiteHosts == {<<"t","a","c">>, <<"t","a","c","b","d">>, <<"a","c">>, <<"b","d">>, <<"w","b","d">>, <<"e","w","b","d">>, <<"x","d">>}

F == INSTANCE Fallback
     WITH Paths <- SitePaths, cache <- pageCache, Hosts <- SiteHosts, targetHost <- <<"t","a","c">>, cdnHosts <- {<<"b","d">>, <<"a","c">>},
          origHost <- <<"o","d">>

(* The path of a visitor's request, and its page.                          *)
PathOf(v) == F!cleanPath(asked[v].path)

VisitTypes ==
  /\ visit \in [Visitors -> {"idle", "look", "render", "send"}]
  /\ asked \in [Visitors -> F!PageRequests] /\ got \in [Visitors -> F!Answers]
  /\ shown \in [F!CleanPaths -> SUBSET F!Bodies] /\ cacheCount \in 0..maxCachedFallbackPages

(* Every page that is kept, held by a handler or shown is the one page of  *)
(* its path.                                                               *)
PagesRight ==
  /\ \A p \in DOMAIN pageCache : p \in F!CleanPaths /\ pageCache[p] = F!renderPage(p)
  /\ \A v \in Visitors : visit[v] \in {"render", "send"} => got[v].body = F!renderPage(PathOf(v))
  /\ \A p \in F!CleanPaths : shown[p] \subseteq {F!renderPage(p)}

SiteInv == VisitTypes /\ PagesRight

LEMMA PathsKnown ==
  /\ \A r \in F!PageRequests : F!cleanPath(r.path) \in F!CleanPaths
  /\ \A p \in F!CleanPaths : F!renderPage(p) \in F!Bodies
  /\ F!None \notin F!Bodies /\ F!NoRequest \in F!PageRequests /\ F!Nothing \in F!Answers
<1>1. \A r \in F!PageRequests : F!cleanPath(r.path) \in F!CleanPaths
  BY DEF F!PageRequests, F!CleanPaths
<1>2. \A p \in F!CleanPaths : F!renderPage(p) \in F!Bodies
  BY SiteAssumption DEF F!renderPage, F!Bodies
<1>3. F!None \notin F!Bodies
  <2>1. \A p, n : <<p, n>> # <<>>
    BY Zenon
  <2> QED  BY <2>1 DEF F!None, F!Bodies
<1>4. F!NoRequest \in F!PageRequests
  <2>1. (CHOOSE p \in SitePaths : TRUE) \in SitePaths
    BY DEF SitePaths
  <2> QED  BY <2>1 DEF F!NoRequest, F!PageRequests
<1>5. F!Nothing \in F!Answers
  BY DEF F!Nothing, F!Answers
<1> QED  BY Zenon, <1>1, <1>2, <1>3, <1>4, <1>5

LEMMA SiteInit == F!FallbackInit => SiteInv
<1> SUFFICES ASSUME F!FallbackInit PROVE SiteInv
  OBVIOUS
<1>1. VisitTypes
  BY PathsKnown, SiteAssumption DEF F!FallbackInit, VisitTypes
<1>2. DOMAIN pageCache = {}
  BY DEF F!FallbackInit
<1>3. PagesRight
  BY <1>2 DEF F!FallbackInit, PagesRight
<1> QED  BY Zenon, <1>1, <1>3 DEF SiteInv

(* One visitor moves to w, with request r and answer a.                    *)
Visits(v, w, r, a) ==
  /\ visit' = [visit EXCEPT ![v] = w] /\ asked' = [asked EXCEPT ![v] = r]
  /\ got' = [got EXCEPT ![v] = a]

LEMMA VisitKeeps ==
  ASSUME SiteInv, NEW v \in Visitors, NEW w \in {"idle", "look", "render", "send"},
         NEW r \in F!PageRequests, NEW a \in F!Answers, Visits(v, w, r, a),
         w \in {"render", "send"} => a.body = F!renderPage(F!cleanPath(r.path)),
         shown' = shown, pageCache' = pageCache, cacheCount' = cacheCount
  PROVE  SiteInv'
<1>0. VisitTypes /\ PagesRight
  BY DEF SiteInv
<1>1. VisitTypes'
  BY <1>0 DEF VisitTypes, Visits
<1>2. ASSUME NEW u \in Visitors, visit'[u] \in {"render", "send"}
      PROVE  got'[u].body = F!renderPage(F!cleanPath(asked'[u].path))
  <2>1. CASE u = v
    BY <1>0, <1>2, <2>1 DEF VisitTypes, Visits
  <2>2. CASE u # v
    <3>1. visit'[u] = visit[u] /\ asked'[u] = asked[u] /\ got'[u] = got[u]
      BY Zenon, <1>0, <2>2 DEF VisitTypes, Visits
    <3> QED  BY Zenon, <1>0, <1>2, <3>1 DEF PagesRight, PathOf
  <2> QED  BY Zenon, <2>1, <2>2
<1>3. PagesRight'
  BY Zenon, <1>0, <1>2 DEF PagesRight, PathOf, F!renderPage, F!cleanPath, F!Root, F!CleanPaths
<1> QED  BY <1>1, <1>3 DEF SiteInv

(* Nothing of a visitor's changes but what is named.                       *)
LEMMA Same ==
  ASSUME SiteInv, NEW v \in Visitors
  PROVE  /\ asked[v] \in F!PageRequests /\ got[v] \in F!Answers
         /\ asked = [asked EXCEPT ![v] = asked[v]] /\ got = [got EXCEPT ![v] = got[v]]
         /\ PathOf(v) \in F!CleanPaths
BY PathsKnown DEF SiteInv, VisitTypes, PathOf

LEMMA AskStep ==
  ASSUME SiteInv, NEW v \in Visitors, F!Ask(v)
  PROVE  SiteInv'
<1>1. PICK r \in [path : SitePaths, html : BOOLEAN, current : BOOLEAN,
                  etag : {F!None} \cup ({got[v].body} \cap F!Bodies)] :
        asked' = [asked EXCEPT ![v] = r]
  BY Zenon DEF F!Ask
<1>2. r \in F!PageRequests
  BY <1>1 DEF F!PageRequests
<1>3. Visits(v, "look", r, F!Nothing) /\ shown' = shown /\ pageCache' = pageCache /\ cacheCount' = cacheCount
  BY Zenon, <1>1 DEF F!Ask, Visits
<1> QED  BY Zenon, <1>2, <1>3, VisitKeeps, PathsKnown

LEMMA ServeOwnStep ==
  ASSUME SiteInv, NEW v \in Visitors, F!ServeOwn(v)
  PROVE  SiteInv'
<1>1. PICK b \in {<<"own">>, <<"proxied">>} : F!Answer(v, 200, b)
  BY Zenon DEF F!ServeOwn
<1>2. [status |-> 200, body |-> b] \in F!Answers
  BY DEF F!Answers
<1>3. Visits(v, "idle", F!NoRequest, [status |-> 200, body |-> b])
  BY <1>1 DEF F!Answer, Visits
<1>4. shown' = shown /\ pageCache' = pageCache /\ cacheCount' = cacheCount
  BY Zenon DEF F!ServeOwn
<1> QED  BY Zenon, <1>2, <1>3, <1>4, VisitKeeps, PathsKnown

LEMMA LookUpStep ==
  ASSUME SiteInv, NEW v \in Visitors, F!LookUp(v)
  PROVE  SiteInv'
<1>1. shown' = shown /\ pageCache' = pageCache /\ cacheCount' = cacheCount /\ asked' = asked
  BY Zenon DEF F!LookUp
<1>2. PICK w \in {"send", "render"}, b \in {F!renderPage(PathOf(v))} :
        visit' = [visit EXCEPT ![v] = w] /\ got' = [got EXCEPT ![v] = [status |-> 0, body |-> b]]
  <2>1. CASE PathOf(v) \in DOMAIN pageCache
    BY Zenon, <2>1 DEF F!LookUp, PathOf, SiteInv, PagesRight
  <2>2. CASE PathOf(v) \notin DOMAIN pageCache
    BY Zenon, <2>2 DEF F!LookUp, PathOf
  <2> QED  BY <2>1, <2>2
<1>3. [status |-> 0, body |-> b] \in F!Answers
  BY Same, PathsKnown DEF F!Answers
<1>4. Visits(v, w, asked[v], [status |-> 0, body |-> b])
  BY <1>1, <1>2, Same DEF Visits
<1>5. b = F!renderPage(F!cleanPath(asked[v].path))
  BY DEF PathOf
<1> QED  BY <1>1, <1>3, <1>4, <1>5, VisitKeeps, Same

(* Store: what is put into the cache is the page of its path.              *)
LEMMA StoreStep ==
  ASSUME SiteInv, NEW v \in Visitors, F!Store(v)
  PROVE  SiteInv'
<1>0. VisitTypes /\ PagesRight /\ PathOf(v) \in F!CleanPaths
  BY Same DEF SiteInv
<1>1. /\ visit[v] = "render" /\ visit' = [visit EXCEPT ![v] = "send"]
      /\ asked' = asked /\ got' = got /\ shown' = shown
  BY DEF F!Store
<1>2. got[v].body = F!renderPage(PathOf(v))
  BY Zenon, <1>0, <1>1 DEF PagesRight
<1>3. \/ pageCache' = pageCache /\ cacheCount' = cacheCount
      \/ /\ pageCache' = [p \in DOMAIN pageCache \cup {PathOf(v)} |-> IF p = PathOf(v) THEN got[v].body ELSE pageCache[p]]
         /\ cacheCount' = cacheCount + 1 /\ cacheCount < maxCachedFallbackPages
  BY DEF F!Store, F!storable, PathOf
<1>4. cacheCount' \in 0..maxCachedFallbackPages
  BY <1>0, <1>3, SiteAssumption DEF VisitTypes
<1>5. \A p \in DOMAIN pageCache' : p \in F!CleanPaths /\ pageCache'[p] = F!renderPage(p)
  BY <1>0, <1>2, <1>3 DEF PagesRight
<1>6. VisitTypes'
  BY <1>0, <1>1, <1>4 DEF VisitTypes
<1>7. \A u \in Visitors : visit'[u] \in {"render", "send"} => got'[u].body = F!renderPage(F!cleanPath(asked'[u].path))
  BY Zenon, <1>0, <1>1, <1>2 DEF VisitTypes, PagesRight, PathOf
<1>8. PagesRight'
  BY Zenon, <1>0, <1>1, <1>5, <1>7 DEF PagesRight, PathOf, F!renderPage, F!cleanPath, F!Root, F!CleanPaths
<1> QED  BY <1>6, <1>8 DEF SiteInv

(* Send: the page of the handler, or the copy that has the same ETag.      *)
LEMMA SendStep ==
  ASSUME SiteInv, NEW v \in Visitors, F!Send(v)
  PROVE  SiteInv'
<1>0. VisitTypes /\ PagesRight /\ PathOf(v) \in F!CleanPaths /\ asked[v] \in F!PageRequests
  BY Same DEF SiteInv
<1>1. visit[v] = "send" /\ pageCache' = pageCache /\ cacheCount' = cacheCount
  BY Zenon DEF F!Send
<1>2. got[v].body = F!renderPage(PathOf(v)) /\ F!renderPage(PathOf(v)) \in F!Bodies
  BY Zenon, <1>0, <1>1, PathsKnown DEF PagesRight
<1>3. PICK b \in {F!renderPage(PathOf(v)), F!None}, c \in {200, 304, 404} :
        /\ F!Answer(v, c, b)
        /\ shown' = [shown EXCEPT ![PathOf(v)] = @ \cup ({b} \cap F!Bodies)]
  <2>1. CASE F!isNotModified(asked[v], got[v].body)
    <3>1. asked[v].etag \in {F!renderPage(PathOf(v)), F!None}
      BY Zenon, <1>2, <2>1 DEF F!isNotModified
    <3> QED  BY ZenonT(60), <2>1, <3>1 DEF F!Send, PathOf
  <2>2. CASE ~F!isNotModified(asked[v], got[v].body)
    <3>1. F!generatedStatus(asked[v]) \in {200, 404}
      BY DEF F!generatedStatus
    <3> QED  BY <1>2, <2>2, <3>1 DEF F!Send, PathOf
  <2> QED  BY Zenon, <2>1, <2>2
<1>4. {b} \cap F!Bodies \subseteq {F!renderPage(PathOf(v))} /\ {b} \cap F!Bodies \subseteq F!Bodies
  BY PathsKnown
<1>5. [status |-> c, body |-> b] \in F!Answers
  BY <1>2 DEF F!Answers
<1>6. Visits(v, "idle", F!NoRequest, [status |-> c, body |-> b])
  BY <1>3 DEF F!Answer, Visits
<1>7. VisitTypes'
  <2>1. shown' \in [F!CleanPaths -> SUBSET F!Bodies]
    BY <1>0, <1>3, <1>4 DEF VisitTypes
  <2> QED  BY Zenon, <1>0, <1>1, <1>5, <1>6, <2>1, PathsKnown DEF VisitTypes, Visits
<1>8. \A p \in F!CleanPaths : shown'[p] \subseteq {F!renderPage(p)}
  BY <1>0, <1>3, <1>4 DEF VisitTypes, PagesRight
<1>9. ASSUME NEW u \in Visitors, visit'[u] \in {"render", "send"}
      PROVE  got'[u].body = F!renderPage(F!cleanPath(asked'[u].path))
  <2>1. u # v
    BY Zenon, <1>0, <1>6, <1>9 DEF VisitTypes, Visits
  <2>2. visit'[u] = visit[u] /\ asked'[u] = asked[u] /\ got'[u] = got[u]
    BY <1>0, <1>6, <2>1 DEF VisitTypes, Visits
  <2> QED  BY <1>0, <1>9, <2>2 DEF PagesRight, PathOf
<1>10. PagesRight'
  BY Zenon, <1>0, <1>1, <1>8, <1>9 DEF PagesRight, PathOf, F!renderPage, F!cleanPath, F!Root, F!CleanPaths
<1> QED  BY <1>7, <1>10 DEF SiteInv

LEMMA SiteNext == SiteInv /\ F!FallbackNext => SiteInv'
BY AskStep, ServeOwnStep, LookUpStep, StoreStep, SendStep DEF F!FallbackNext

LEMMA SiteStays == SiteInv /\ UNCHANGED fvars => SiteInv'
BY DEF SiteInv, VisitTypes, PagesRight, PathOf, fvars, F!PageRequests, F!Answers, F!Bodies,
       F!CleanPaths, F!Root, F!None, F!renderPage, F!cleanPath

(* What SetTarget chose stays.                                             *)
TargetTypes ==
  /\ mode \in {"proxy", "dir", "custom", "generated"}
  /\ pages \subseteq F!CleanPaths /\ page404 \in BOOLEAN

LEMMA TargetInit == F!FallbackInit => TargetTypes
<1> SUFFICES ASSUME F!FallbackInit PROVE TargetTypes
  OBVIOUS
<1>1. F!SetTarget /\ F!Root \in F!CleanPaths
  BY DEF F!FallbackInit, F!CleanPaths
<1> QED  BY Zenon, <1>1 DEF F!SetTarget, TargetTypes

LEMMA TargetNext == TargetTypes /\ (F!FallbackNext \/ UNCHANGED fvars) => TargetTypes'
<1> SUFFICES ASSUME TargetTypes, F!FallbackNext \/ UNCHANGED fvars PROVE TargetTypes'
  OBVIOUS
<1>1. mode' = mode /\ pages' = pages /\ page404' = page404
  BY Zenon DEF F!FallbackNext, F!Ask, F!ServeOwn, F!LookUp, F!Store, F!Send, fvars
<1> QED  BY <1>1 DEF TargetTypes, F!CleanPaths, F!Root, F!cleanPath

LEMMA SiteTyped == SiteInv /\ TargetTypes => F!FallbackTypeOK
<1> SUFFICES ASSUME SiteInv, TargetTypes PROVE F!FallbackTypeOK
  OBVIOUS
<1>1. DOMAIN pageCache \subseteq F!CleanPaths /\ \A p \in DOMAIN pageCache : pageCache[p] \in F!Bodies
  BY PathsKnown DEF SiteInv, PagesRight
<1> QED  BY <1>1 DEF SiteInv, VisitTypes, TargetTypes, F!FallbackTypeOK

-----------------------------------------------------------------------------

(* No page names the proxy itself.                                         *)
LEMMA HostsNamed == \A h \in SiteHosts : h # <<"o","d">> /\ h # F!NoHost
BY DEF SiteHosts, F!NoHost

(* A URL for h, rewritten or left alone, leads to h.                       *)
Leads(u, h) ==
  ~F!Beyond(h) =>
    /\ (IF u.host = <<"o","d">> THEN F!routeCDN(u) ELSE u.host) = h
    /\ h = <<"t","a","c">> \/ (F!cdnHostMatches(h) /\ u.path) => u.host = <<"o","d">>

LEMMA RewrittenLeads ==
  ASSUME NEW h \in SiteHosts, NEW path \in BOOLEAN
  PROVE  LET u == [host |-> h, cdn |-> F!NoHost, path |-> path] IN
         Leads(F!rewriteLocationHeader(u), h) /\ Leads(F!rewriteBodyContent(u), h)
<1> DEFINE u == [host |-> h, cdn |-> F!NoHost, path |-> path]
<1>0. h # <<"o","d">> /\ h # F!NoHost
  BY HostsNamed
<1>1. CASE h = <<"t","a","c">>
  BY Zenon, <1>1 DEF Leads, F!rewriteLocationHeader, F!rewriteBodyContent, F!effectiveHost, F!routeCDN
<1>2. CASE h # <<"t","a","c">> /\ F!cdnHostMatches(h)
  BY <1>0, <1>2 DEF Leads, F!rewriteLocationHeader, F!rewriteBodyContent, F!rewriteCDNURLs, F!effectiveHost, F!routeCDN
<1>3. CASE h # <<"t","a","c">> /\ ~F!cdnHostMatches(h)
  BY Zenon, <1>0, <1>3 DEF Leads, F!rewriteLocationHeader, F!rewriteBodyContent, F!rewriteCDNURLs, F!effectiveHost
<1> QED  BY <1>1, <1>2, <1>3

(* Where the URL the browser follows leads, and what it was sent.          *)
MirrorInv ==
  /\ browser \in {"asks", "waits", "page"}
  /\ browser = "asks" => Leads(url, meant)
  /\ browser \in {"waits", "page"} => reached = meant \/ F!Beyond(meant)
  /\ browser = "waits" => (meant = <<"t","a","c">> \/ (F!cdnHostMatches(meant) /\ url.path)
                             => F!Passes \/ F!Beyond(meant))
  /\ browser = "page" => resp.bytes = resp.header /\ resp.sized

LEMMA MirrorInit == F!ProxyInit => MirrorInv
BY DEF F!ProxyInit, MirrorInv, Leads, F!Origin, F!routeCDN, F!NoHost

LEMMA MirrorNext == MirrorInv /\ F!ProxyNext => MirrorInv'
<1> SUFFICES ASSUME MirrorInv, F!ProxyNext PROVE MirrorInv'
  BY Zenon
<1>1. CASE F!Request
  BY Zenon, <1>1 DEF F!Request, MirrorInv, Leads, F!Passes
<1>2. CASE F!Redirected \/ F!Click
  <2>1. PICK h \in SiteHosts, path \in BOOLEAN :
          /\ meant' = h
          /\ LET u == [host |-> h, cdn |-> F!NoHost, path |-> path] IN
             url' \in {F!rewriteLocationHeader(u), F!rewriteBodyContent(u)}
    BY Zenon, <1>2 DEF F!Redirected, F!Click
  <2>3. Leads(url', meant')
    BY <2>1, RewrittenLeads
  <2>2. browser' = "asks"
    BY Zenon, <1>2 DEF F!Redirected, F!Click
  <2> QED  BY Zenon, <2>2, <2>3 DEF MirrorInv, Leads
<1>3. CASE F!RedirectedRelative
  BY <1>3 DEF F!RedirectedRelative, MirrorInv, Leads, F!Origin, F!routeCDN, F!NoHost
<1>4. CASE F!PageArrives
  <2>1. resp'.bytes = resp'.header /\ resp'.sized
    BY <1>4 DEF F!PageArrives, F!restoreFailedBody, F!recompress, F!NoResp
  <2> QED  BY Zenon, <1>4, <2>1 DEF F!PageArrives, MirrorInv
<1> QED  BY <1>1, <1>2, <1>3, <1>4 DEF F!ProxyNext

LEMMA MirrorStays == MirrorInv /\ UNCHANGED pvars => MirrorInv'
BY Zenon DEF MirrorInv, Leads, pvars, F!Passes

LEMMA MirrorProper == MirrorInv => F!ComesBack
BY Zenon DEF MirrorInv, F!ComesBack

LEMMA MirrorTypesInit == F!ProxyInit => F!ProxyTypeOK
<1> SUFFICES ASSUME F!ProxyInit PROVE F!ProxyTypeOK
  OBVIOUS
<1>1. <<"t","a","c">> \in SiteHosts
  BY DEF SiteHosts
<1>2. F!Origin \in F!URLs
  BY DEF F!Origin, F!URLs
<1>3. F!NoResp \in [enc : F!Encodings, bytes : F!Encodings, header : F!Encodings, sized : BOOLEAN]
  BY DEF F!NoResp, F!Encodings
<1> QED  BY Zenon, <1>1, <1>2, <1>3 DEF F!ProxyInit, F!ProxyTypeOK

LEMMA MirrorTypesNext == F!ProxyTypeOK /\ F!ProxyNext => F!ProxyTypeOK'
<1> SUFFICES ASSUME F!ProxyTypeOK, F!ProxyNext PROVE F!ProxyTypeOK'
  OBVIOUS
<1>0. <<"t","a","c">> \in SiteHosts
  BY DEF SiteHosts
<1>1. CASE F!Request
  <2>1. F!routeCDN(url) \in F!Named /\ (url.host # <<"o","d">> => url.host \in F!Named)
    BY Zenon, <1>0 DEF F!routeCDN, F!ProxyTypeOK, F!URLs, F!Named
  <2> QED  BY <1>1, <2>1 DEF F!Request, F!ProxyTypeOK, F!URLs, F!Encodings
<1>2. CASE F!Redirected \/ F!Click
  <2>1. PICK h \in SiteHosts, path \in BOOLEAN :
          /\ meant' = h
          /\ LET u == [host |-> h, cdn |-> F!NoHost, path |-> path] IN
             url' \in {F!rewriteLocationHeader(u), F!rewriteBodyContent(u)}
    BY Zenon, <1>2 DEF F!Redirected, F!Click
  <2>2. url' \in F!URLs
    <3> DEFINE u == [host |-> h, cdn |-> F!NoHost, path |-> path]
    <3>1. u \in F!URLs /\ F!Glued(h) \in F!Named
      BY Zenon DEF F!URLs, F!Named
    <3>2. [u EXCEPT !.host = F!Glued(h)] \in F!URLs
      BY Zenon, <3>1 DEF F!URLs
    <3>3. ASSUME NEW v \in F!URLs, v.host \in F!Named
          PROVE  /\ F!rewriteCDNURLs(v) \in F!URLs /\ [v EXCEPT !.host = <<"o","d">>] \in F!URLs
                 /\ [v EXCEPT !.host = <<"o","d">>, !.cdn = v.host] \in F!URLs
      BY Zenon, <3>3 DEF F!URLs, F!rewriteCDNURLs
    <3>4. F!rewriteLocationHeader(u) \in F!URLs
      <4>1. u.host \in F!Named
        BY Zenon DEF F!Named
      <4> QED  BY Zenon, <3>1, <3>3, <4>1 DEF F!rewriteLocationHeader
    <3>5. F!rewriteBodyContent(u) \in F!URLs
      <4>1. u.host \in F!Named /\ [u EXCEPT !.host = F!Glued(h)].host = F!Glued(h)
        BY Zenon DEF F!Named
      <4> QED  BY Zenon, <3>1, <3>2, <3>3, <4>1 DEF F!rewriteBodyContent
    <3> QED  BY Zenon, <2>1, <3>4, <3>5
  <2>3. browser' = "asks" /\ reached' = reached /\ resp' = resp
    BY Zenon, <1>2 DEF F!Redirected, F!Click
  <2> QED  BY <2>1, <2>2, <2>3 DEF F!ProxyTypeOK, F!URLs, F!Encodings
<1>3. CASE F!RedirectedRelative
  BY Zenon, <1>0, <1>3 DEF F!RedirectedRelative, F!ProxyTypeOK, F!Origin, F!URLs, F!Encodings
<1>4. CASE F!PageArrives
  <2>1. resp' \in [enc : F!Encodings, bytes : F!Encodings, header : F!Encodings, sized : BOOLEAN]
    BY <1>4 DEF F!PageArrives, F!restoreFailedBody, F!recompress, F!NoResp, F!Encodings
  <2> QED  BY Zenon, <1>4, <2>1 DEF F!PageArrives, F!ProxyTypeOK, F!URLs, F!Encodings
<1> QED  BY <1>1, <1>2, <1>3, <1>4 DEF F!ProxyNext

LEMMA MirrorTypesStay == F!ProxyTypeOK /\ UNCHANGED pvars => F!ProxyTypeOK'
BY Zenon DEF F!ProxyTypeOK, pvars, F!URLs, F!Encodings

-----------------------------------------------------------------------------
(***************************************************************************)
(* ServeRequest for any number of requests, header texts and paths.        *)
(***************************************************************************)
CONSTANTS Requests, Texts, Endpoints

VARIABLES req, pc, status, rereplied, seen, forgotten, first, ch, bodyClosed, gone, misjudged,
          outcome, grace, deadline

qvars == <<req, pc, status, rereplied, seen, forgotten, first, ch, bodyClosed, gone, misjudged,
           outcome, grace, deadline>>

Q == INSTANCE ServeRequest WITH result <- outcome

(* Nothing has been answered yet.                                          *)
Unanswered == {"new", "salt", "first", "judge", "create", "commit"}

(* What the handler of a request has answered, why, and what its teardown  *)
(* timer may be doing at the point it has reached.                         *)
RequestOK(r) ==
  /\ ~rereplied[r] /\ ~misjudged[r]
  /\ status[r] = "none" <=> pc[r] \in Unanswered
  /\ status[r] = "page" => req[r].kind \in {"plain", "garbage"} \/ gone[r]
  /\ bodyClosed[r] => pc[r] = "done"
  /\ ch[r] = "error" => req[r].kind = "garbage" \/ bodyClosed[r] \/ gone[r]
  /\ pc[r] \in Unanswered \cup {"handle", "arm"} => grace[r] = "off"
  /\ pc[r] \in {"rst", "close", "stop"} => grace[r] \in {"armed", "running", "fired"}
  /\ pc[r] = "wait" => grace[r] \in {"running", "fired"}
  /\ pc[r] \in {"recover", "done"} => grace[r] \in {"off", "stopped", "fired"}

(* The request has put its header text into the cache.                     *)
TookText(r) == pc[r] \notin {"new", "salt", "done"} \/ status[r] = "200"

(* A text that was taken is in the cache or was dropped by it, and only a  *)
(* text that was dropped is taken twice.                                   *)
TextsTaken ==
  /\ \A r \in Requests : TookText(r) => Q!cacheKey(r) \in seen \cup forgotten
  /\ \A r, q \in Requests :
       r # q /\ TookText(r) /\ TookText(q) /\ Q!cacheKey(r) = Q!cacheKey(q) => Q!cacheKey(r) \in forgotten

RequestInv == Q!TypeOK /\ (\A r \in Requests : RequestOK(r)) /\ TextsTaken

RequestSound == Q!HeaderOnce /\ Q!AnsweredRightly /\ Q!NoLateCallback

(* Another request than r keeps all that is its own.                       *)
OthersKept(r) ==
  \A q \in Requests \ {r} :
    /\ pc'[q] = pc[q] /\ status'[q] = status[q] /\ rereplied'[q] = rereplied[q]
    /\ ch'[q] = ch[q] /\ bodyClosed'[q] = bodyClosed[q] /\ gone'[q] = gone[q]
    /\ misjudged'[q] = misjudged[q] /\ grace'[q] = grace[q]

(* A step of one request that keeps the cache.                             *)
LEMMA OneRequest ==
  ASSUME RequestInv, NEW r \in Requests, Q!TypeOK', req' = req, OthersKept(r), RequestOK(r)',
         seen' = seen, forgotten' = forgotten, TookText(r)' => TookText(r)
  PROVE  RequestInv'
<1>1. \A q \in Requests : RequestOK(q)'
  BY DEF RequestInv, OthersKept, RequestOK
<1>2. \A q \in Requests : (TookText(q)' => TookText(q)) /\ Q!cacheKey(q)' = Q!cacheKey(q)
  BY Zenon DEF OthersKept, TookText, Q!cacheKey
<1>3. TextsTaken'
  BY Zenon, <1>2 DEF RequestInv, TextsTaken
<1> QED  BY Zenon, <1>1, <1>3 DEF RequestInv

(* The points a handler passes, and the responses it may write.            *)
Points == {"new", "salt", "first", "judge", "create", "commit", "handle",
           "arm", "rst", "close", "stop", "wait", "recover", "done"}
Responses == {"none", "page", "200", "400", "404", "405", "408", "429", "500"}

(* The handler of r goes to p: its response is then s, its body closed or  *)
(* not (b) and its timer g; nothing else of the checks moves.              *)
Moved(r, p, s, b, g) ==
  /\ pc' = [pc EXCEPT ![r] = p] /\ status' = [status EXCEPT ![r] = s]
  /\ bodyClosed' = [bodyClosed EXCEPT ![r] = b] /\ grace' = [grace EXCEPT ![r] = g]
  /\ req' = req /\ seen' = seen /\ forgotten' = forgotten /\ first' = first /\ ch' = ch
  /\ gone' = gone /\ rereplied' = rereplied /\ misjudged' = misjudged
  /\ outcome' \in [Requests -> {"none", "ok", "eof", "dial_failed", "error"}]
  /\ deadline' \in [Requests -> BOOLEAN]

(* Such values fit together as RequestOK asks for.                         *)
Fitting(r, p, s, b, g) ==
  /\ p \in Points /\ s \in Responses /\ b \in BOOLEAN
  /\ s = "none" <=> p \in Unanswered
  /\ s = "page" => req[r].kind \in {"plain", "garbage"} \/ gone[r]
  /\ (b => p = "done") /\ (bodyClosed[r] => b)
  /\ g \in IF p \in Unanswered \cup {"handle", "arm"} THEN {"off"}
            ELSE IF p \in {"rst", "close", "stop"} THEN {"armed", "running", "fired"}
            ELSE IF p = "wait" THEN {"running", "fired"} ELSE {"off", "stopped", "fired"}
  /\ p \notin {"new", "salt", "done"} \/ s = "200" => TookText(r)

LEMMA MoveKeeps ==
  ASSUME RequestInv, NEW r \in Requests, NEW p, NEW s, NEW b, NEW g,
         Moved(r, p, s, b, g), Fitting(r, p, s, b, g)
  PROVE  RequestInv'
<1>1. Q!TypeOK /\ RequestOK(r)
  BY Zenon DEF RequestInv
<1>2. g \in {"off", "armed", "running", "fired", "stopped"}
  BY Zenon DEF Fitting
<1>3. Q!TypeOK'
  BY Zenon, <1>1, <1>2 DEF Q!TypeOK, Moved, Fitting, Points, Responses
<1>4. OthersKept(r) /\ req' = req /\ seen' = seen /\ forgotten' = forgotten
  BY <1>1 DEF OthersKept, Q!TypeOK, Moved
<1>5. /\ pc'[r] = p /\ status'[r] = s /\ bodyClosed'[r] = b /\ grace'[r] = g /\ req'[r] = req[r]
      /\ ch'[r] = ch[r] /\ gone'[r] = gone[r] /\ ~rereplied'[r] /\ ~misjudged'[r]
  BY <1>1 DEF Q!TypeOK, Moved, RequestOK
<1>6. RequestOK(r)'
  BY Zenon, <1>1, <1>5 DEF RequestOK, Fitting, Unanswered
<1>7. TookText(r)' => TookText(r)
  BY Zenon, <1>5 DEF Fitting, TookText
<1> QED  BY Zenon, <1>3, <1>4, <1>6, <1>7, OneRequest

(* An update of a function that changes nothing.                           *)
LEMMA Unmoved ==
  ASSUME RequestInv, NEW r \in Requests
  PROVE  /\ pc = [pc EXCEPT ![r] = pc[r]] /\ status = [status EXCEPT ![r] = status[r]]
         /\ bodyClosed = [bodyClosed EXCEPT ![r] = bodyClosed[r]]
         /\ grace = [grace EXCEPT ![r] = grace[r]]
         /\ outcome \in [Requests -> {"none", "ok", "eof", "dial_failed", "error"}]
         /\ deadline \in [Requests -> BOOLEAN] /\ bodyClosed[r] \in BOOLEAN
BY Zenon DEF RequestInv, Q!TypeOK

(* WriteHeader on a request that has no answer yet is its one answer.      *)
LEMMA FirstAnswer ==
  ASSUME RequestInv, NEW r \in Requests, NEW s, pc[r] \in Unanswered, Q!WriteHeader(r, s)
  PROVE  status' = [status EXCEPT ![r] = s] /\ rereplied' = rereplied
<1>1. status[r] = "none" /\ ~rereplied[r]
  BY Zenon DEF RequestInv, RequestOK
<1>2. rereplied \in [Requests -> BOOLEAN] /\ status \in [Requests -> Responses]
  BY Zenon DEF RequestInv, Q!TypeOK, Responses
<1> QED  BY Zenon, <1>1, <1>2 DEF Q!WriteHeader

(* Screen, Judge, Create, Commit: the answer of a request that has none.   *)
LEMMA ChecksStep ==
  ASSUME RequestInv, NEW r \in Requests,
         Q!Screen(r) \/ Q!Judge(r) \/ Q!Create(r) \/ Q!Commit(r)
  PROVE  RequestInv'
<1>0. RequestOK(r) /\ pc[r] \in Unanswered
  BY DEF RequestInv, Q!Screen, Q!Judge, Q!Create, Q!Commit, Unanswered
<1>1. ~bodyClosed[r] /\ status[r] = "none" /\ grace[r] = "off"
  BY ZenonT(60), <1>0 DEF RequestOK, Unanswered
<1>2. /\ req' = req /\ seen' = seen /\ forgotten' = forgotten /\ first' = first /\ ch' = ch
      /\ gone' = gone /\ misjudged' = misjudged /\ bodyClosed' = bodyClosed
      /\ outcome' = outcome /\ grace' = grace /\ deadline' = deadline
  BY DEF Q!Screen, Q!Judge, Q!Create, Q!Commit, Q!checks, Q!session
<1>3. ASSUME NEW s \in {"page", "400", "404", "405", "429", "500"}, Q!WriteHeader(r, s), Q!Goto(r, "done"),
             s = "page" => req[r].kind = "plain"
      PROVE  RequestInv'
  <2>1. Moved(r, "done", s, bodyClosed[r], grace[r])
    BY Zenon, <1>0, <1>2, <1>3, FirstAnswer, Unmoved DEF Moved, Q!Goto
  <2>2. Fitting(r, "done", s, bodyClosed[r], grace[r])
    BY Zenon, <1>1, <1>3, Unmoved DEF Fitting, Points, Responses, Unanswered
  <2> QED  BY Zenon, <2>1, <2>2, MoveKeeps
<1>4. ASSUME NEW p \in {"salt", "create", "commit"}, Q!Goto(r, p), UNCHANGED <<status, rereplied>>,
             (pc[r] = "new" /\ p = "salt") \/ (pc[r] \in {"judge", "create"} /\ p # "salt")
      PROVE  RequestInv'
  <2>1. Moved(r, p, status[r], bodyClosed[r], grace[r])
    BY Zenon, <1>2, <1>4, Unmoved DEF Moved, Q!Goto
  <2>2. Fitting(r, p, status[r], bodyClosed[r], grace[r])
    BY <1>1, <1>4, Unmoved DEF Fitting, Points, Responses, Unanswered, TookText
  <2> QED  BY Zenon, <2>1, <2>2, MoveKeeps
<1>5. CASE Q!Screen(r)
  <2>1. CASE req[r].kind = "plain" /\ Q!serveFallback(r)
    BY Zenon, <1>3, <2>1 DEF Q!serveFallback
  <2>2. CASE Q!serveReject(r, "429")
    BY Zenon, <1>3, <2>2 DEF Q!serveReject
  <2>3. CASE Q!Goto(r, "salt") /\ UNCHANGED <<status, rereplied>>
    <3>1. pc[r] = "new"
      BY ZenonT(60), <1>5 DEF Q!Screen
    <3> QED  BY Zenon, <1>4, <2>3, <3>1
  <2> QED  BY ZenonT(60), <1>5, <2>1, <2>2, <2>3 DEF Q!Screen
<1>6. CASE Q!Judge(r)
  BY Zenon, <1>3, <1>4, <1>6 DEF Q!Judge, Q!serveReject
<1>7. CASE Q!Create(r)
  BY Zenon, <1>3, <1>4, <1>7 DEF Q!Create, Q!serveReject
<1>8. CASE Q!Commit(r)
  <2>1. Moved(r, "handle", "200", bodyClosed[r], grace[r])
    BY Zenon, <1>0, <1>2, <1>8, FirstAnswer, Unmoved DEF Moved, Q!Goto, Q!Commit
  <2>2. Fitting(r, "handle", "200", bodyClosed[r], grace[r])
    BY Zenon, <1>1, <1>8, Unmoved DEF Fitting, Points, Responses, Unanswered, TookText, Q!Commit
  <2> QED  BY Zenon, <2>1, <2>2, MoveKeeps
<1> QED  BY Zenon, <1>5, <1>6, <1>7, <1>8

(* MarkSeen: who holds the same text has it from a cache that dropped it.  *)
LEMMA MarkSeenStep ==
  ASSUME RequestInv, NEW r \in Requests, Q!MarkSeen(r)
  PROVE  RequestInv'
<1>0. Q!TypeOK /\ RequestOK(r) /\ pc[r] = "salt" /\ pc[r] \in Unanswered
  BY Zenon DEF RequestInv, Q!MarkSeen, Unanswered
<1>1. ~bodyClosed[r] /\ status[r] = "none" /\ grace[r] = "off"
  BY Zenon, <1>0 DEF RequestOK, Unanswered
<1>2. /\ req' = req /\ forgotten' = forgotten /\ ch' = ch /\ bodyClosed' = bodyClosed
      /\ gone' = gone /\ misjudged' = misjudged /\ seen' = seen \cup {Q!cacheKey(r)}
      /\ outcome' = outcome /\ grace' = grace /\ deadline' = deadline
  BY Zenon DEF Q!MarkSeen, Q!session
<1>3. CASE Q!cacheKey(r) \in seen
  <2>1. Q!WriteHeader(r, "400") /\ Q!Goto(r, "done") /\ first' = first /\ seen' = seen
    BY Zenon, <1>2, <1>3 DEF Q!MarkSeen, Q!serveReject
  <2>2. Moved(r, "done", "400", bodyClosed[r], grace[r])
    BY Zenon, <1>0, <1>2, <2>1, FirstAnswer, Unmoved DEF Moved, Q!Goto
  <2>3. Fitting(r, "done", "400", bodyClosed[r], grace[r])
    BY Zenon, <1>1, Unmoved DEF Fitting, Points, Responses, Unanswered
  <2> QED  BY Zenon, <2>2, <2>3, MoveKeeps
<1>4. CASE Q!cacheKey(r) \notin seen
  <2>1. /\ pc' = [pc EXCEPT ![r] = "first"] /\ first' = [first EXCEPT ![r] = "reading"]
        /\ status' = status /\ rereplied' = rereplied
    BY Zenon, <1>4 DEF Q!MarkSeen, Q!Goto
  <2>2. Q!cacheKey(r) \in Endpoints \X Texts
    BY Zenon, <1>0 DEF Q!TypeOK, Q!cacheKey, Q!Request
  <2>3. Q!TypeOK'
    BY <1>0, <1>2, <2>1, <2>2 DEF Q!TypeOK
  <2>4. OthersKept(r) /\ pc'[r] = "first"
    BY Zenon, <1>0, <1>2, <2>1 DEF OthersKept, Q!TypeOK
  <2>5. RequestOK(r)' /\ ~TookText(r)
    BY ZenonT(60), <1>0, <1>1, <1>2, <2>1, <2>4 DEF RequestOK, TookText, Unanswered
  <2>6. \A q \in Requests : RequestOK(q)'
    BY ZenonT(60), <1>2, <2>4, <2>5 DEF RequestInv, OthersKept, RequestOK
  <2>7. \A q \in Requests \ {r} : TookText(q)' <=> TookText(q)
    BY Zenon, <2>4 DEF OthersKept, TookText
  <2>8. \A q \in Requests : Q!cacheKey(q)' = Q!cacheKey(q)
    BY <1>2 DEF Q!cacheKey
  <2>9. \A q \in Requests \ {r} : TookText(q) /\ Q!cacheKey(q) = Q!cacheKey(r) => Q!cacheKey(r) \in forgotten
    BY <1>4 DEF RequestInv, TextsTaken
  <2>10. TextsTaken'
    BY <1>2, <2>7, <2>8, <2>9 DEF RequestInv, TextsTaken
  <2> QED  BY Zenon, <2>3, <2>6, <2>10 DEF RequestInv
<1> QED  BY Zenon, <1>3, <1>4

(* ReadFirstRecord: an error comes from garbage, a closed body or a client *)
(* that is gone.                                                           *)
LEMMA ReadFirstStep ==
  ASSUME RequestInv, NEW r \in Requests, Q!ReadFirstRecord(r)
  PROVE  RequestInv'
<1>0. Q!TypeOK /\ RequestOK(r)
  BY DEF RequestInv
<1>1. Q!TypeOK'
  BY <1>0 DEF Q!TypeOK, Q!ReadFirstRecord, Q!session
<1>2. OthersKept(r) /\ req' = req /\ seen' = seen /\ forgotten' = forgotten
  BY <1>0 DEF OthersKept, Q!TypeOK, Q!ReadFirstRecord, Q!session
<1>3. RequestOK(r)' /\ (TookText(r)' => TookText(r))
  BY <1>0 DEF RequestOK, TookText, Q!TypeOK, Q!ReadFirstRecord, Q!session
<1> QED  BY <1>1, <1>2, <1>3, OneRequest

(* The three branches of the wait for the first record.                    *)
LEMMA FirstStep ==
  ASSUME RequestInv, NEW r \in Requests,
         Q!FirstTimeout(r) \/ Q!FirstCancelled(r) \/ Q!FirstResult(r)
  PROVE  RequestInv'
<1>0. Q!TypeOK /\ RequestOK(r) /\ pc[r] = "first" /\ pc[r] \in Unanswered
  BY ZenonT(60) DEF RequestInv, Q!FirstTimeout, Q!FirstCancelled, Q!FirstResult, Unanswered
<1>1. ~bodyClosed[r] /\ status[r] = "none" /\ grace[r] = "off" /\ ~misjudged[r] /\ TookText(r)
  BY ZenonT(60), <1>0 DEF RequestOK, Unanswered, TookText
<1>2. /\ req' = req /\ seen' = seen /\ forgotten' = forgotten /\ first' = first /\ ch' = ch /\ gone' = gone
      /\ outcome' = outcome /\ grace' = grace /\ deadline' = deadline
  BY DEF Q!FirstTimeout, Q!FirstCancelled, Q!FirstResult, Q!checks, Q!session
<1>3. ASSUME Q!TakeRecord(r), ch[r] # "empty", bodyClosed' = bodyClosed, misjudged' = misjudged
      PROVE  RequestInv'
  <2>1. CASE ch[r] = "record"
    <3>1. Moved(r, "judge", status[r], bodyClosed[r], grace[r])
      BY <1>2, <1>3, <2>1, Unmoved DEF Moved, Q!Goto, Q!TakeRecord
    <3>2. Fitting(r, "judge", status[r], bodyClosed[r], grace[r])
      BY <1>1, Unmoved DEF Fitting, Points, Responses, Unanswered
    <3> QED  BY Zenon, <3>1, <3>2, MoveKeeps
  <2>2. CASE ch[r] # "record"
    <3>1. req[r].kind = "garbage" \/ gone[r]
      BY Zenon, <1>0, <1>1, <1>3, <2>2 DEF RequestOK, Q!TypeOK
    <3>2. Q!WriteHeader(r, "page") /\ Q!Goto(r, "done")
      BY Zenon, <1>3, <2>2 DEF Q!TakeRecord, Q!serveFallback
    <3>3. Moved(r, "done", "page", bodyClosed[r], grace[r])
      BY Zenon, <1>0, <1>2, <1>3, <3>2, FirstAnswer, Unmoved DEF Moved, Q!Goto
    <3>4. Fitting(r, "done", "page", bodyClosed[r], grace[r])
      BY Zenon, <1>1, <3>1, Unmoved DEF Fitting, Points, Responses, Unanswered
    <3> QED  BY Zenon, <3>3, <3>4, MoveKeeps
  <2> QED  BY <2>1, <2>2
<1>4. ASSUME NEW s \in {"page", "408"}, Q!WriteHeader(r, s), Q!Goto(r, "done"), s = "page" => gone[r],
             bodyClosed' = [bodyClosed EXCEPT ![r] = TRUE], misjudged' = misjudged
      PROVE  RequestInv'
  <2>1. Moved(r, "done", s, TRUE, grace[r])
    BY Zenon, <1>0, <1>2, <1>4, FirstAnswer, Unmoved DEF Moved, Q!Goto
  <2>2. Fitting(r, "done", s, TRUE, grace[r])
    BY Zenon, <1>1, <1>4 DEF Fitting, Points, Responses, Unanswered
  <2> QED  BY Zenon, <2>1, <2>2, MoveKeeps
<1>5. CASE Q!FirstTimeout(r)
  <2>1. CASE ch[r] # "empty"
    BY Zenon, <1>3, <1>5, <2>1 DEF Q!FirstTimeout
  <2>2. CASE ch[r] = "empty"
    <3>1. misjudged' = misjudged
      <4>1. misjudged' = [misjudged EXCEPT ![r] = FALSE]
        BY Zenon, <1>5, <2>2 DEF Q!FirstTimeout
      <4>2. misjudged[r] = FALSE /\ misjudged \in [Requests -> BOOLEAN]
        BY Zenon, <1>0, <1>1 DEF Q!TypeOK
      <4> QED  BY Zenon, <4>1, <4>2
    <3>2. Q!WriteHeader(r, "408") /\ Q!Goto(r, "done") /\ bodyClosed' = [bodyClosed EXCEPT ![r] = TRUE]
      BY Zenon, <1>5, <2>2 DEF Q!FirstTimeout, Q!serveReject
    <3> QED  BY Zenon, <1>4, <3>1, <3>2
  <2> QED  BY Zenon, <2>1, <2>2
<1>6. CASE Q!FirstCancelled(r)
  BY ZenonT(60), <1>4, <1>6 DEF Q!FirstCancelled, Q!serveFallback
<1>7. CASE Q!FirstResult(r)
  BY Zenon, <1>3, <1>7 DEF Q!FirstResult, Q!checks
<1> QED  BY <1>5, <1>6, <1>7

(* The session and its teardown.                                           *)
LEMMA TeardownStep ==
  ASSUME RequestInv, NEW r \in Requests,
         \/ Q!Handle(r) \/ Q!Teardown(r) \/ Q!sendRST(r) \/ Q!CloseShaper(r) \/ Q!StopTimer(r)
         \/ Q!WaitFired(r) \/ Q!Recover(r)
  PROVE  RequestInv'
<1>0. RequestOK(r) /\ Q!TypeOK
  BY Zenon DEF RequestInv
<1>1. /\ req' = req /\ seen' = seen /\ forgotten' = forgotten /\ first' = first /\ ch' = ch /\ gone' = gone
      /\ bodyClosed' = bodyClosed /\ misjudged' = misjudged /\ status' = status /\ rereplied' = rereplied
      /\ deadline' = deadline
  BY Zenon DEF Q!Handle, Q!Teardown, Q!sendRST, Q!CloseShaper, Q!StopTimer, Q!WaitFired, Q!Recover, Q!checks, Q!session
<1>2. outcome' \in [Requests -> {"none", "ok", "eof", "dial_failed", "error"}]
  BY Zenon, <1>0 DEF Q!TypeOK, Q!Handle, Q!Teardown, Q!sendRST, Q!CloseShaper, Q!StopTimer, Q!WaitFired, Q!Recover, Q!session
<1>3. pc[r] \in {"handle", "arm", "rst", "close", "stop", "wait", "recover"}
  BY Zenon DEF Q!Handle, Q!Teardown, Q!sendRST, Q!CloseShaper, Q!StopTimer, Q!WaitFired, Q!Recover
<1>4. ~bodyClosed[r] /\ status[r] # "none" /\ status[r] \in Responses /\ TookText(r)
      /\ (status[r] = "page" => req[r].kind \in {"plain", "garbage"} \/ gone[r])
  BY Zenon, <1>0, <1>3 DEF RequestOK, Unanswered, TookText, Q!TypeOK, Responses
<1>5. ASSUME NEW p \in {"arm", "rst", "close", "stop", "wait", "recover", "done"},
             NEW g \in {"off", "armed", "running", "fired", "stopped"},
             pc' = [pc EXCEPT ![r] = p], grace' = [grace EXCEPT ![r] = g],
             p = "arm" => g = "off",
             p \in {"rst", "close", "stop"} => g \in {"armed", "running", "fired"},
             p = "wait" => g \in {"running", "fired"},
             p \in {"recover", "done"} => g \in {"off", "stopped", "fired"}
      PROVE  RequestInv'
  <2>1. Moved(r, p, status[r], bodyClosed[r], g)
    BY Zenon, <1>1, <1>2, <1>5, Unmoved DEF Moved
  <2>2. Fitting(r, p, status[r], bodyClosed[r], g)
    BY Zenon, <1>4, <1>5, Unmoved DEF Fitting, Points, Unanswered
  <2> QED  BY ZenonT(60), <2>1, <2>2, MoveKeeps
<1>6. CASE Q!Handle(r)
  <2>1. pc' = [pc EXCEPT ![r] = "arm"] /\ grace' = [grace EXCEPT ![r] = grace[r]] /\ grace[r] = "off"
    BY Zenon, <1>0, <1>6, Unmoved DEF Q!Handle, Q!Goto, RequestOK
  <2> QED  BY Zenon, <1>5, <2>1
<1>7. CASE Q!Teardown(r)
  <2>1. PICK p \in {"rst", "close"} : pc' = [pc EXCEPT ![r] = p] /\ grace' = [grace EXCEPT ![r] = "armed"]
    BY Zenon, <1>7 DEF Q!Teardown, Q!Goto
  <2> QED  BY Zenon, <1>5, <2>1
<1>8. CASE Q!sendRST(r) \/ Q!CloseShaper(r)
  <2>1. PICK p \in {"close", "stop"} : pc' = [pc EXCEPT ![r] = p]
    BY Zenon, <1>8 DEF Q!sendRST, Q!CloseShaper, Q!Goto
  <2>2. grace' = [grace EXCEPT ![r] = grace[r]]
    BY Zenon, <1>8, Unmoved DEF Q!sendRST, Q!CloseShaper, Q!session
  <2>3. grace[r] \in {"armed", "running", "fired"}
    BY Zenon, <1>0, <1>8 DEF RequestOK, Q!sendRST, Q!CloseShaper
  <2> QED  BY ZenonT(60), <1>5, <2>1, <2>2, <2>3
<1>9. CASE Q!StopTimer(r)
  <2>1. grace[r] \in {"armed", "running", "fired"}
    BY Zenon, <1>0, <1>9 DEF RequestOK, Q!StopTimer
  <2>2. CASE grace[r] = "armed"
    <3>1. PICK p \in {"recover", "done"} : pc' = [pc EXCEPT ![r] = p]
      BY Zenon, <1>9, <2>2 DEF Q!StopTimer, Q!Goto
    <3>2. grace' = [grace EXCEPT ![r] = "stopped"]
      BY Zenon, <1>0, <1>9, <2>2 DEF Q!StopTimer, Q!TypeOK
    <3> QED  BY Zenon, <1>5, <3>1, <3>2
  <2>3. CASE grace[r] # "armed"
    <3>1. pc' = [pc EXCEPT ![r] = "wait"]
      BY Zenon, <1>9, <2>3 DEF Q!StopTimer, Q!Goto
    <3>2. grace' = [grace EXCEPT ![r] = grace[r]]
      BY Zenon, <1>0, <1>9, <2>3 DEF Q!StopTimer, Q!TypeOK
    <3> QED  BY ZenonT(60), <1>5, <2>1, <2>3, <3>1, <3>2
  <2> QED  BY Zenon, <2>2, <2>3
<1>10. CASE Q!WaitFired(r) \/ Q!Recover(r)
  <2>1. PICK p \in {"recover", "done"} : pc' = [pc EXCEPT ![r] = p]
    BY Zenon, <1>10 DEF Q!WaitFired, Q!Recover, Q!Goto
  <2>2. grace' = [grace EXCEPT ![r] = grace[r]]
    BY Zenon, <1>10, Unmoved DEF Q!WaitFired, Q!Recover, Q!session
  <2>3. grace[r] \in {"off", "stopped", "fired"}
    BY Zenon, <1>0, <1>10 DEF RequestOK, Q!WaitFired, Q!Recover
  <2> QED  BY ZenonT(60), <1>5, <2>1, <2>2, <2>3
<1> QED  BY Zenon, <1>6, <1>7, <1>8, <1>9, <1>10

(* The callback of the timer, and a client that leaves.                    *)
LEMMA CallbackStep ==
  ASSUME RequestInv, NEW r \in Requests, Q!Grace(r) \/ Q!SetWriteDeadline(r) \/ Q!Leave(r)
  PROVE  RequestInv'
<1>0. Q!TypeOK /\ RequestOK(r)
  BY Zenon DEF RequestInv
<1>1. Q!TypeOK'
  <2>1. CASE Q!Grace(r)
    BY Zenon, <1>0, <2>1 DEF Q!TypeOK, Q!Grace, Q!checks
  <2>2. CASE Q!SetWriteDeadline(r)
    BY Zenon, <1>0, <2>2 DEF Q!TypeOK, Q!SetWriteDeadline, Q!checks
  <2>3. CASE Q!Leave(r)
    BY Zenon, <1>0, <2>3 DEF Q!TypeOK, Q!Leave, Q!session
  <2> QED  BY Zenon, <2>1, <2>2, <2>3
<1>2. OthersKept(r) /\ req' = req /\ seen' = seen /\ forgotten' = forgotten
  BY <1>0 DEF OthersKept, Q!TypeOK, Q!Grace, Q!SetWriteDeadline, Q!Leave, Q!checks, Q!session
<1>3. RequestOK(r)' /\ (TookText(r)' => TookText(r))
  BY ZenonT(60), <1>0 DEF RequestOK, TookText, Unanswered, Q!TypeOK, Q!Grace, Q!SetWriteDeadline, Q!Leave, Q!checks, Q!session
<1> QED  BY Zenon, <1>1, <1>2, <1>3, OneRequest

(* Forget: a text that is dropped from the cache is remembered as such.    *)
LEMMA ForgetStep ==
  ASSUME RequestInv, NEW k \in Endpoints \X Texts, Q!Forget(k)
  PROVE  RequestInv'
<1>1. Q!TypeOK' /\ seen' = seen \ {k} /\ forgotten' = forgotten \cup {k}
  BY DEF RequestInv, Q!Forget, Q!TypeOK, Q!session
<1>2. \A q \in Requests : (RequestOK(q)' <=> RequestOK(q)) /\ (TookText(q)' <=> TookText(q)) /\ Q!cacheKey(q)' = Q!cacheKey(q)
  BY ZenonT(60) DEF Q!Forget, RequestOK, TookText, Q!cacheKey, Q!session
<1>3. TextsTaken'
  BY Zenon, <1>1, <1>2 DEF RequestInv, TextsTaken
<1> QED  BY <1>1, <1>2, <1>3 DEF RequestInv

LEMMA RequestInit == Q!Init => RequestInv
<1> SUFFICES ASSUME Q!Init PROVE RequestInv
  OBVIOUS
<1>1. Q!TypeOK
  BY DEF Q!Init, Q!TypeOK
<1>2. \A r \in Requests : RequestOK(r) /\ ~TookText(r)
  BY DEF Q!Init, RequestOK, TookText, Unanswered
<1> QED  BY <1>1, <1>2 DEF RequestInv, TextsTaken

LEMMA RequestNext == RequestInv /\ Q!Next => RequestInv'
<1> SUFFICES ASSUME RequestInv, Q!Next PROVE RequestInv'
  OBVIOUS
<1>1. CASE \E k \in Endpoints \X Texts : Q!Forget(k)
  BY <1>1, ForgetStep
<1>2. ASSUME NEW r \in Requests,
             Q!Handler(r) \/ Q!ReadFirstRecord(r) \/ Q!Grace(r) \/ Q!SetWriteDeadline(r) \/ Q!Leave(r)
      PROVE  RequestInv'
  BY <1>2, ChecksStep, MarkSeenStep, ReadFirstStep, FirstStep, TeardownStep, CallbackStep DEF Q!Handler
<1> QED  BY <1>1, <1>2 DEF Q!Next

LEMMA RequestStays == RequestInv /\ UNCHANGED qvars => RequestInv'
<1> SUFFICES ASSUME RequestInv, UNCHANGED qvars PROVE RequestInv'
  OBVIOUS
<1>1. Q!TypeOK'
  BY DEF RequestInv, Q!TypeOK, qvars
<1>2. \A q \in Requests : (RequestOK(q)' <=> RequestOK(q)) /\ (TookText(q)' <=> TookText(q)) /\ Q!cacheKey(q)' = Q!cacheKey(q)
  BY DEF RequestOK, TookText, Q!cacheKey, qvars
<1>3. TextsTaken'
  BY <1>2 DEF RequestInv, TextsTaken, qvars
<1> QED  BY <1>1, <1>2, <1>3 DEF RequestInv

LEMMA RequestProper == RequestInv => RequestSound
<1> SUFFICES ASSUME RequestInv PROVE RequestSound
  OBVIOUS
<1>1. \A r \in Requests : status[r] = "200" => TookText(r)
  BY DEF TookText
<1>2. Q!HeaderOnce
  BY <1>1 DEF RequestInv, TextsTaken, Q!HeaderOnce
<1>3. Q!AnsweredRightly /\ Q!NoLateCallback
  BY DEF RequestInv, RequestOK, Unanswered, Q!AnsweredRightly, Q!NoLateCallback
<1> QED  BY <1>2, <1>3 DEF RequestSound

-----------------------------------------------------------------------------
(***************************************************************************)
(* The map of the rate limiter stays within its limit.                     *)
(***************************************************************************)
INSTANCE FiniteSetTheorems

(* The map is finite and within its limit.                                 *)
Bounded == IsFiniteSet(entries) /\ Cardinality(entries) <= ipHardCap

(* Part of the map is no larger than the map.                              *)
LEMMA PartBounded ==
  ASSUME Bounded, NEW T \in SUBSET entries
  PROVE  IsFiniteSet(T) /\ Cardinality(T) \in Nat /\ Cardinality(T) <= ipHardCap
<1>1. IsFiniteSet(T) /\ Cardinality(T) <= Cardinality(entries)
  BY FS_Subset DEF Bounded
<1>2. Cardinality(T) \in Nat /\ Cardinality(entries) \in Nat /\ ipHardCap \in Nat
  BY <1>1, FS_CardinalityType, RateAssumption DEF Bounded
<1> QED  BY <1>1, <1>2 DEF Bounded

LEMMA StaysBounded == Bounded /\ RateNext => Bounded'
<1> SUFFICES ASSUME Bounded, RateNext PROVE Bounded'
  OBVIOUS
<1>1. CASE Tick
  BY <1>1 DEF Tick, Bounded
<1>2. ASSUME NEW i \in IPs, Allow(i) PROVE Bounded'
  <2>1. PICK kept \in SUBSET entries :
          entries' = IF i \notin kept /\ Cardinality(kept) >= ipHardCap THEN kept ELSE kept \cup {i}
    <3> DEFINE due == Cardinality(entries) >= ipCleanupThreshold /\ now - lastCleanup >= ipCleanupInterval
               swept == IF due THEN cleanupLocked(entries) ELSE entries
               capped == i \notin swept /\ Cardinality(swept) >= ipHardCap
               kept == IF capped THEN cleanupLocked(swept) ELSE swept
    <3>1. swept \in SUBSET entries
      BY DEF cleanupLocked
    <3>2. kept \in SUBSET entries
      BY <3>1 DEF cleanupLocked
    <3>3. entries' = IF i \notin kept /\ Cardinality(kept) >= ipHardCap THEN kept ELSE kept \cup {i}
      BY Zenon, <1>2 DEF Allow
    <3> QED  BY ZenonT(60), <3>2, <3>3
  <2>2. IsFiniteSet(kept) /\ Cardinality(kept) \in Nat /\ Cardinality(kept) <= ipHardCap /\ ipHardCap \in Nat
    BY PartBounded, RateAssumption
  <2>3. /\ IsFiniteSet(kept \cup {i})
        /\ Cardinality(kept \cup {i}) = IF i \in kept THEN Cardinality(kept) ELSE Cardinality(kept) + 1
    BY Zenon, <2>2, FS_AddElement
  <2> QED  BY <2>1, <2>2, <2>3 DEF Bounded
<1> QED  BY <1>1, <1>2 DEF RateNext

LEMMA InitBounded == RateInit => Bounded
<1> SUFFICES ASSUME RateInit PROVE Bounded
  OBVIOUS
<1>1. entries = {} /\ ipHardCap \in Nat
  BY Zenon, RateAssumption DEF RateInit
<1> QED  BY <1>1, FS_EmptySet DEF Bounded

(* A path that was shown one page has one element.                         *)
LEMMA SiteCount == ASSUME NEW T PROVE F!Cardinality(T) = Cardinality(T)
  BY Zenon DEF F!Cardinality, Cardinality, F!IsFiniteSet, IsFiniteSet

LEMMA SiteProper == SiteInv => F!OnePage
<1> SUFFICES ASSUME SiteInv, NEW p \in F!CleanPaths PROVE F!Cardinality(shown[p]) <= 1
  BY Zenon DEF F!OnePage
<1> DEFINE T == {F!renderPage(p)}
<1>1. shown[p] \subseteq T
  BY Zenon DEF SiteInv, PagesRight
<1>2. IsFiniteSet(T) /\ Cardinality(T) = 1
  BY Zenon, FS_Singleton
<1>3. Cardinality(shown[p]) <= Cardinality(T)
  BY Zenon, <1>1, <1>2, FS_Subset
<1> QED  BY Zenon, <1>2, <1>3, SiteCount

-----------------------------------------------------------------------------
(***************************************************************************)
(* The other parts.                                                        *)
(***************************************************************************)
CONSTANTS
  i1, i2, Learners, maxLearnedEntries, Associations,
  Addrs4, Addrs6, Lan, MaxAddrs, Timeout, attemptMinBudget,
  Streams, Names, max, ttl, MaxTick

VARIABLES
  part,  \* which of them moves
  domains, ips, learnedDomains, learnedIPs, pending, dial, control, relay, monitor, read,
  checked, answer, viaProxy, prefer, dialing, order, attempted, clock, callerGone, dialOut,
  tick, kept, expires, lookup, host, flight, waiting, answerAge

nvars == <<domains, ips, learnedDomains, learnedIPs, pending, dial, control, relay, monitor, read>>
ovars == <<checked, answer, viaProxy, prefer, dialing, order, attempted, clock, callerGone, dialOut>>
cvars == <<tick, kept, expires, lookup, host, flight, waiting, answerAge>>
mcVars == <<rateVars, vars, nvars, qvars, ovars, cvars, fvars, pvars, part>>

(* The answers of DNS: names are sequences of labels.                      *)
Zone ==
  (<<"w","a","c">> :> <<<<"x","c">>, i1>>) @@ (<<"x","c">> :> <<<<"y","d">>, i2>>)
  @@ (<<"y","d">> :> <<i1>>) @@ (<<"z","c">> :> <<<<"w","z","c">>, i1>>)
  @@ (<<"w","z","c">> :> <<i2>>) @@ (<<"a","c">> :> <<i2>>)
Configured == {<<"a","c">>}

N == INSTANCE NextProxy WITH IPs <- {i1, i2}, FileDomains <- Configured
O == INSTANCE Outbound WITH Hosts <- Names, held <- kept

(* Where a part that does not move could begin in several ways, one is     *)
(* enough.                                                                 *)
MCInit ==
  /\ part \in {"limit", "datagrams", "next", "request", "dial", "resolve", "site", "mirror"}
  /\ RateInit /\ N!Init /\ F!ProxyInit
  /\ Init /\ (part # "datagrams" => ~dnsSession /\ ~router)
  /\ req \in IF part = "request" THEN [Requests -> Q!Request]
             ELSE {[r \in Requests |-> CHOOSE q \in Q!Request : TRUE]}
  /\ Q!Init
  /\ O!OutboundInit /\ (part # "dial" => checked = <<>> /\ answer = <<>> /\ ~viaProxy /\ prefer = 0)
  /\ O!ResolveInit /\ (part # "resolve" => \A s \in Streams : host[s] = CHOOSE n \in Names : TRUE)
  /\ F!FallbackInit /\ (part # "site" => mode = "proxy")

MCNext ==
  /\ \/ part = "limit" /\ RateNext
     \/ part = "datagrams" /\ Next
     \/ part = "next" /\ N!Next
     \/ part = "request" /\ Q!Next
     \/ part = "dial" /\ O!OutboundNext
     \/ part = "resolve" /\ O!ResolveNext
     \/ part = "site" /\ F!FallbackNext
     \/ part = "mirror" /\ F!ProxyNext
  /\ part # "limit" => UNCHANGED rateVars
  /\ part # "datagrams" => UNCHANGED vars
  /\ part # "next" => UNCHANGED nvars
  /\ part # "request" => UNCHANGED qvars
  /\ part # "dial" => UNCHANGED ovars
  /\ part # "resolve" => UNCHANGED cvars
  /\ part # "site" => UNCHANGED fvars
  /\ part # "mirror" => UNCHANGED pvars
  /\ UNCHANGED part

MCSpec == MCInit /\ [][MCNext]_mcVars

(* The fairness of the parts (modules ServerUDP, NextProxy, ServeRequest). *)
DatagramsRun ==
  /\ WF_vars(part = "datagrams" /\ CloseDone)
  /\ WF_vars(part = "datagrams" /\ closeUpstream)
  /\ WF_vars(part = "datagrams" /\ WaitReaders)
  /\ WF_vars(part = "datagrams" /\ done /\ ReadFrame)
  /\ WF_vars(part = "datagrams" /\ PutFrame)
  /\ \A c \in Conns :
       /\ WF_vars(part = "datagrams" /\ readFromTarget(c))
       /\ WF_vars(part = "datagrams" /\ main = "wait" /\ ReadTarget(c))
       /\ WF_vars(part = "datagrams" /\ CheckReplaced(c))
       /\ WF_vars(part = "datagrams" /\ sendResult(c))
NextRuns ==
  \A a \in Associations :
    /\ WF_nvars(part = "next" /\ N!monitorControl(a))
    /\ WF_nvars(part = "next" /\ relay[a] = "closed" /\ N!Read(a))
RequestsRun ==
  \A r \in Requests :
    /\ WF_qvars(part = "request" /\ pc[r] \in {"first", "arm", "stop", "wait", "recover"} /\ Q!Handler(r))
    /\ WF_qvars(part = "request" /\ deadline[r] /\ (Q!sendRST(r) \/ Q!CloseShaper(r)))
    /\ WF_qvars(part = "request" /\ Q!Grace(r))
    /\ WF_qvars(part = "request" /\ Q!SetWriteDeadline(r))
    /\ WF_qvars(part = "request" /\ (bodyClosed[r] \/ gone[r]) /\ Q!ReadFirstRecord(r))
FairSpec == MCSpec /\ DatagramsRun /\ NextRuns /\ RequestsRun

-----------------------------------------------------------------------------
(* ServerUDP: however a rebind of the upstream falls between the steps of  *)
(* its readers, one reader reads each connection, the session does not end *)
(* because of a connection it has replaced, a query leaves by the route of *)
(* its domain, and nothing stays open behind a session that has ended.     *)
SessionsSound == TypeOK /\ OneReaderEach /\ ReplacedHarmless /\ QueryRouted /\ SessionCleared

(* ServeRequest, behind RateLimit: a header text opens one session on a    *)
(* path; a request gets one answer, the one its checks call for; no timer  *)
(* of a request acts after its handler has returned.                       *)
RequestsSound ==
  /\ RateTypeOK /\ Q!TypeOK
  /\ Q!HeaderOnce /\ Q!AnsweredRightly /\ Q!NoLateCallback

(* Outbound, NextProxy: a dial uses only addresses that have passed the    *)
(* check and leaves time to the attempts after it, a name is not served    *)
(* from an expired answer, the next proxy learns only what answers for     *)
(* configured domains lead to, and no socket is left open.                 *)
UpstreamSound ==
  /\ O!OutboundTypeOK /\ O!ResolveTypeOK /\ N!TypeOK
  /\ O!OnlyCheckedDialed /\ O!AttemptsShare /\ O!ResolveSound
  /\ N!LearnedFromConfigured /\ N!NoSocketLeft

(* Fallback: visitors of a path see one page, and each request for the     *)
(* mirrored site comes back under the host it was made for.                *)
AnswersOwn == F!FallbackTypeOK /\ F!ProxyTypeOK /\ F!OnePage /\ F!ComesBack

(* ServerUDP, NextProxy, ServeRequest: a session that is told to end ends, *)
(* a lost control connection unblocks the reader of its relay, and the     *)
(* teardown of a response ends although the client does not read.          *)
EverythingEnds == []<>(NotClosing /\ N!NoneBlocked /\ Q!NoneInTeardown)

-----------------------------------------------------------------------------
(* Together the invariants of five parts are inductive: a step is one of   *)
(* their part, and the others do not move.                                 *)
ServerInv ==
  /\ RateInv /\ Bounded /\ RequestInv /\ UDPInv
  /\ SiteInv /\ TargetTypes /\ MirrorInv /\ F!ProxyTypeOK

LEMMA ServerInvInit == MCInit => ServerInv
BY Zenon, InitAgrees, InitBounded, RequestInit, UDPInit, SiteInit, TargetInit, MirrorInit, MirrorTypesInit
   DEF MCInit, ServerInv

LEMMA ServerInvNext == ServerInv /\ [MCNext]_mcVars => ServerInv'
<1> SUFFICES ASSUME ServerInv, [MCNext]_mcVars PROVE ServerInv'
  OBVIOUS
<1>0. /\ RateInv /\ Bounded /\ RequestInv /\ UDPInv
      /\ SiteInv /\ TargetTypes /\ MirrorInv /\ F!ProxyTypeOK
  BY Zenon DEF ServerInv
<1>1. /\ RateNext \/ UNCHANGED rateVars
      /\ Q!Next \/ UNCHANGED qvars
      /\ Next \/ UNCHANGED vars
      /\ F!FallbackNext \/ UNCHANGED fvars
      /\ F!ProxyNext \/ UNCHANGED pvars
  BY Zenon DEF MCNext, mcVars
<1>2. RateInv' /\ Bounded'
  <2>1. CASE RateNext
    BY Zenon, <1>0, <2>1, StepAgrees, StaysBounded
  <2>2. CASE UNCHANGED rateVars
    <3>1. entries' = entries
      BY Zenon, <2>2 DEF rateVars
    <3> QED  BY Zenon, <1>0, <2>2, <3>1, StepAgrees DEF Bounded
  <2> QED  BY Zenon, <1>1, <2>1, <2>2
<1>3. RequestInv'
  BY Zenon, <1>0, <1>1, RequestNext, RequestStays
<1>5. UDPInv'
  BY Zenon, <1>0, <1>1, UDPNext, UDPStays
<1>6. SiteInv' /\ TargetTypes'
  BY Zenon, <1>0, <1>1, SiteNext, SiteStays, TargetNext
<1>7. MirrorInv' /\ F!ProxyTypeOK'
  BY Zenon, <1>0, <1>1, MirrorNext, MirrorStays, MirrorTypesNext, MirrorTypesStay
<1> QED  BY Zenon, <1>2, <1>3, <1>5, <1>6, <1>7 DEF ServerInv

LEMMA ServerInvHolds == MCSpec => []ServerInv
BY ServerInvInit, ServerInvNext, PTL DEF MCSpec

(* cleanupLocked never gives an address tokens it would not have in a map  *)
(* that is never swept, and Allow never lets the map pass ipHardCap.       *)
THEOREM SweepForgetsNothingHolds == MCSpec => []SweepForgetsNothing
<1>1. ServerInv => SweepForgetsNothing
  <2> SUFFICES ASSUME ServerInv PROVE SweepForgetsNothing
    BY Zenon
  <2>1. now \in Times
    BY RateAssumption DEF ServerInv, RateInv, RateTypeOK, Times
  <2> QED  BY Zenon, <2>1 DEF ServerInv, RateInv, Bounded, Agree, SweepForgetsNothing
<1> QED  BY <1>1, ServerInvHolds, PTL

(* ServeHTTP opens one session for a header text on a path, unless the     *)
(* cache dropped it, answers each request once and as its checks call for, *)
(* and leaves no timer behind.                                             *)
THEOREM RequestsSoundHolds == MCSpec => []RequestsSound
<1>1. ServerInv => RequestsSound
  BY Zenon, RequestProper DEF ServerInv, RateInv, RequestInv, RequestSound, RequestsSound
<1> QED  BY <1>1, ServerInvHolds, PTL

(* A UDP session reads each of its connections with one reader, does not   *)
(* end because of a connection it has replaced, sends a query by the route *)
(* of its domain and leaves nothing open.                                  *)
THEOREM SessionsSoundHolds == MCSpec => []SessionsSound
<1>1. ServerInv => SessionsSound
  BY Zenon, UDPProper, UDPTyped DEF ServerInv, SessionsSound
<1> QED  BY <1>1, ServerInvHolds, PTL

(* The fallback site shows a path one page, whether it was cached or not,  *)
(* and an address that handleReverseProxy has rewritten comes back to the  *)
(* site it was on.                                                         *)
THEOREM AnswersOwnHolds == MCSpec => []AnswersOwn
<1>1. ServerInv => AnswersOwn
  BY Zenon, SiteProper, SiteTyped, MirrorProper DEF ServerInv, AnswersOwn
<1> QED  BY <1>1, ServerInvHolds, PTL
=============================================================================
