------------------------------ MODULE ServerUDP ------------------------------
(***************************************************************************)
(* One UDP session of the server (server/handler/udp.go, udp_dns.go): the  *)
(* main goroutine with its select, the goroutine that reads the client's   *)
(* frames, and one reader for every outbound connection.  A session to     *)
(* port 53 dials late and may have to move to another connection, because  *)
(* the name in a query decides whether it leaves directly or through the   *)
(* next proxy.                                                             *)
(*                                                                         *)
(* A connection is its number in the order of dialing.  A frame is what    *)
(* the session does with it.                                               *)
(***************************************************************************)
EXTENDS Naturals, Sequences, TLAPS

CONSTANTS MaxConns, MaxFrames, MaxReplies  \* bounds

\* A session can dial at least once.
ASSUME SessionAssumption == MaxConns \in Nat \ {0} /\ MaxFrames \in Nat /\ MaxReplies \in Nat

VARIABLES
  dnsSession, router,  \* the target is port 53; a next proxy takes UDP
  conn, connRoute,     \* the current connection (0: none) and its route
  made,                \* the route each connection was dialed for
  connClosed, failing, \* connections closed here; whose next read fails
  main, frame, out,    \* the main goroutine, the frame it deals with, its result
  routeSel, cooling,   \* the last query's route; a rebind failed a short time ago
  excused,             \* history: this query stays on the old route for that reason
  client, held, frameCh, sent,  \* the frame reader, its frame, its channel
  reader, reads, result,        \* of every connection: its reader, what that reads, has read
  resultCh, replies,
  done, endedBy        \* history: the connection whose error ended the session

conns == <<conn, connRoute, made, connClosed>>
mains == <<main, frame, out, routeSel, cooling, excused, endedBy>>
clients == <<client, held, frameCh, sent>>
readers == <<reader, reads, result, resultCh, replies>>
vars == <<dnsSession, router, conns, failing, mains, clients, readers, done>>

Conns == 1 .. MaxConns
Routes == {"direct", "proxy"}
Queries == {"query_direct", "query_proxy"}
Datagrams == Queries \cup {"datagram"}
Frames == Datagrams \cup {"other", "FIN", "error"}

TypeOK ==
  /\ dnsSession \in BOOLEAN /\ router \in BOOLEAN
  /\ conn \in 0 .. MaxConns /\ connRoute \in Routes \cup {"none"}
  /\ made \in Seq(Routes) /\ Len(made) <= MaxConns
  /\ connClosed \subseteq 1 .. Len(made) /\ failing \subseteq 1 .. Len(made)
  /\ main \in {"dial", "start", "select", "rebind", "close_old", "first", "write",
               "close", "close_conn", "wait", "end"}
  /\ frame \in Frames \cup {"none"}
  /\ out \in {"none", "dial", "target", "push", "client", "write", "ok", "idle"}
  /\ routeSel \in Routes /\ cooling \in BOOLEAN /\ excused \in BOOLEAN
  /\ client \in {"off", "read", "put", "end"} /\ held \in Frames \cup {"none"}
  /\ frameCh \in Seq(Frames) /\ Len(frameCh) <= 1 /\ sent \in 0 .. MaxFrames
  /\ reader \in [Conns -> {"off", "spawned", "read", "check", "send", "end"}]
  /\ reads \in [Conns -> 0 .. MaxConns] /\ result \in [Conns -> {"none", "data", "error"}]
  /\ resultCh \in Seq([conn : Conns, what : {"data", "error"}]) /\ Len(resultCh) <= 1
  /\ replies \in 0 .. MaxReplies /\ done \in BOOLEAN /\ endedBy \in 0 .. MaxConns

Init ==
  /\ dnsSession \in BOOLEAN /\ router \in BOOLEAN
  /\ conn = 0 /\ connRoute = "none" /\ made = <<>> /\ connClosed = {} /\ failing = {}
  /\ main = (IF dnsSession THEN "start" ELSE "dial") /\ frame = "none" /\ out = "none"
  /\ routeSel = "direct" /\ cooling = FALSE /\ excused = FALSE /\ endedBy = 0
  /\ client = "off" /\ held = "none" /\ frameCh = <<>> /\ sent = 0
  /\ reader = [c \in Conns |-> "off"] /\ reads = [c \in Conns |-> 0]
  /\ result = [c \in Conns |-> "none"] /\ resultCh = <<>> /\ replies = 0 /\ done = FALSE

-----------------------------------------------------------------------------
(* Routes.  Without a router every query leaves directly.                  *)
routeForDomain(f) == IF router /\ f = "query_proxy" THEN "proxy" ELSE "direct"
upstreamRoute == IF conn = 0 THEN "none" ELSE connRoute

(* Mutant: the connection is replaced only if it goes through the proxy.   *)
routeChangedFromProxy(f) == upstreamRoute = "proxy" /\ upstreamRoute # routeForDomain(f)

(* The query is compared with the connection it would be written to.       *)
routeChanged(f) == upstreamRoute # "none" /\ upstreamRoute # routeForDomain(f)

startUpstreamReader(c) == reader' = [reader EXCEPT ![c] = "spawned"]

installUpstream(route) ==
  /\ made' = Append(made, route) /\ conn' = Len(made) + 1 /\ connRoute' = route
  /\ startUpstreamReader(Len(made) + 1)

Finish(r) == out' = r /\ main' = "close"

-----------------------------------------------------------------------------
(* Handle: a session that is not for port 53 dials its target first.  The  *)
(* connection's route is not recorded.                                     *)
DialTarget ==
  /\ main = "dial"
  /\ \/ /\ main' = "start" /\ conn' = 1 /\ UNCHANGED <<connRoute, out>>
        /\ \E route \in Routes : (route = "proxy" => router) /\ made' = <<route>>
     \/ main' = "end" /\ out' = "dial" /\ UNCHANGED <<conn, connRoute, made>>
  /\ UNCHANGED <<dnsSession, router, connClosed, failing, frame, routeSel, cooling, excused,
                 endedBy, clients, readers, done>>

Start ==
  /\ main = "start" /\ main' = "select" /\ client' = "read"
  /\ IF conn # 0 THEN startUpstreamReader(conn) ELSE UNCHANGED reader
  /\ UNCHANGED <<dnsSession, router, conns, failing, frame, out, routeSel, cooling, excused,
                 endedBy, held, frameCh, sent, reads, result, resultCh, replies, done>>

(* Mutant: every error ends the session.                                   *)
TakeResultAny ==
  /\ main = "select" /\ resultCh # <<>> /\ resultCh' = <<>>
  /\ LET r == Head(resultCh) IN
     \/ r.what = "error" /\ Finish("target") /\ endedBy' = r.conn
     \/ r.what = "data" /\ UNCHANGED <<main, out, endedBy>>
     \/ r.what = "data" /\ Finish("push") /\ UNCHANGED endedBy
  /\ UNCHANGED <<dnsSession, router, conns, failing, frame, routeSel, cooling, excused,
                 clients, reader, reads, result, replies, done>>

(* A result: the error of a connection that was replaced meanwhile is      *)
(* dropped, a datagram is pushed to the client.                            *)
TakeResult ==
  /\ main = "select" /\ resultCh # <<>> /\ resultCh' = <<>>
  /\ LET r == Head(resultCh) IN
     \/ r.what = "error" /\ r.conn # conn /\ UNCHANGED <<main, out, endedBy>>
     \/ r.what = "error" /\ r.conn = conn /\ Finish("target") /\ endedBy' = r.conn
     \/ r.what = "data" /\ UNCHANGED <<main, out, endedBy>>
     \/ r.what = "data" /\ Finish("push") /\ UNCHANGED endedBy
  /\ UNCHANGED <<dnsSession, router, conns, failing, frame, routeSel, cooling, excused,
                 clients, reader, reads, result, replies, done>>

(* noteDNSQuery and upstreamOrDial up to the dial or the write.            *)
observeClientFrame(f) ==
  LET query == dnsSession /\ f \in Queries
      rebind == query /\ routeChanged(f) /\ ~cooling IN
  /\ frame' = f
  /\ routeSel' = IF query THEN routeForDomain(f) ELSE routeSel
  /\ excused' = (query /\ routeChanged(f) /\ cooling)
  /\ main' = IF rebind THEN "rebind" ELSE IF conn = 0 THEN "first" ELSE "write"
  /\ UNCHANGED out

TakeFrame ==
  /\ main = "select" /\ frameCh # <<>> /\ frameCh' = <<>>
  /\ LET f == Head(frameCh) IN
     \/ f \in Datagrams /\ observeClientFrame(f)
     \/ f = "other" /\ UNCHANGED <<main, frame, out, routeSel, excused>>
     \/ f = "FIN" /\ Finish("ok") /\ UNCHANGED <<frame, routeSel, excused>>
     \/ f = "error" /\ Finish("client") /\ UNCHANGED <<frame, routeSel, excused>>
  /\ UNCHANGED <<dnsSession, router, conns, failing, cooling, endedBy, client, held, sent,
                 readers, done>>

IdleTimeout ==
  /\ main = "select" /\ Finish("idle")
  /\ UNCHANGED <<dnsSession, router, conns, failing, frame, routeSel, cooling, excused,
                 endedBy, clients, readers, done>>

-----------------------------------------------------------------------------
(* The old connection works on until the new one is there, and stays if    *)
(* the dial fails.                                                         *)
rebindRoute ==
  /\ main = "rebind"
  /\ \/ /\ Len(made) < MaxConns /\ installUpstream(routeSel)
        /\ main' = "close_old" /\ cooling' = FALSE /\ UNCHANGED excused
     \/ /\ main' = "write" /\ cooling' = TRUE /\ excused' = TRUE
        /\ UNCHANGED <<conn, connRoute, made, reader>>
  /\ UNCHANGED <<dnsSession, router, connClosed, failing, frame, out, routeSel, endedBy, clients,
                 reads, result, resultCh, replies, done>>

(* Mutant: the replaced connection is forgotten.                           *)
closeOldForgotten ==
  /\ main = "close_old" /\ main' = "write"
  /\ UNCHANGED <<dnsSession, router, conns, failing, frame, out, routeSel,
                 cooling, excused, endedBy, clients, readers, done>>

closeOld ==
  /\ main = "close_old" /\ main' = "write"
  /\ connClosed' = (1 .. Len(made)) \ {conn}
  /\ UNCHANGED <<dnsSession, router, conn, connRoute, made, failing, frame, out, routeSel,
                 cooling, excused, endedBy, clients, readers, done>>

(* The first datagram of a DNS session.                                    *)
openUpstream ==
  /\ main = "first"
  /\ \/ /\ Len(made) < MaxConns
        /\ installUpstream(IF router THEN routeSel ELSE "direct")
        /\ main' = "write" /\ UNCHANGED out
     \/ Finish("dial") /\ UNCHANGED <<conn, connRoute, made, reader>>
  /\ UNCHANGED <<dnsSession, router, connClosed, failing, frame, routeSel, cooling, excused,
                 endedBy, clients, reads, result, resultCh, replies, done>>

Write ==
  /\ main = "write"
  /\ \/ main' = "select" /\ UNCHANGED out
     \/ Finish("write")
  /\ frame' = "none"
  /\ UNCHANGED <<dnsSession, router, conns, failing, routeSel, cooling, excused,
                 endedBy, clients, readers, done>>

-----------------------------------------------------------------------------
(* close: wake everyone, close the connection, wait for the readers.       *)
CloseDone ==
  /\ main = "close" /\ main' = "close_conn" /\ done' = TRUE
  /\ UNCHANGED <<dnsSession, router, conns, failing, frame, out, routeSel, cooling, excused,
                 endedBy, clients, readers>>

closeUpstream ==
  /\ main = "close_conn" /\ main' = "wait"
  /\ connClosed' = connClosed \cup ({conn} \ {0}) /\ conn' = 0 /\ connRoute' = "none"
  /\ UNCHANGED <<dnsSession, router, made, failing, frame, out, routeSel, cooling, excused,
                 endedBy, clients, readers, done>>

WaitReaders ==
  /\ main = "wait" /\ client = "end" /\ \A c \in Conns : reader[c] \in {"off", "end"}
  /\ main' = "end"
  /\ UNCHANGED <<dnsSession, router, conns, failing, frame, out, routeSel, cooling, excused,
                 endedBy, clients, readers, done>>

-----------------------------------------------------------------------------
(* Mutant: the reader asks the session which connection is current.        *)
readFromTargetLate(c) ==
  /\ reader[c] = "spawned" /\ conn # 0
  /\ reader' = [reader EXCEPT ![c] = "read"] /\ reads' = [reads EXCEPT ![c] = conn]
  /\ UNCHANGED <<dnsSession, router, conns, failing, mains, clients, result, resultCh,
                 replies, done>>

(* The connection is an argument of the goroutine.                         *)
readFromTarget(c) ==
  /\ reader[c] = "spawned"
  /\ reader' = [reader EXCEPT ![c] = "read"] /\ reads' = [reads EXCEPT ![c] = c]
  /\ UNCHANGED <<dnsSession, router, conns, failing, mains, clients, result, resultCh,
                 replies, done>>

(* A datagram, or an error once the connection is closed or broken.        *)
ReadTarget(c) ==
  /\ reader[c] = "read"
  /\ \/ /\ replies < MaxReplies /\ reads[c] \notin connClosed
        /\ reader' = [reader EXCEPT ![c] = "send"] /\ result' = [result EXCEPT ![c] = "data"]
        /\ replies' = replies + 1
     \/ /\ reads[c] \in connClosed \cup failing
        /\ reader' = [reader EXCEPT ![c] = "check"] /\ result' = [result EXCEPT ![c] = "error"]
        /\ UNCHANGED replies
  /\ UNCHANGED <<dnsSession, router, conns, failing, mains, clients, reads, resultCh, done>>

(* An error of a connection that was replaced is expected.                 *)
CheckReplaced(c) ==
  /\ reader[c] = "check"
  /\ reader' = [reader EXCEPT ![c] = IF reads[c] # conn THEN "end" ELSE "send"]
  /\ UNCHANGED <<dnsSession, router, conns, failing, mains, clients, reads, result, resultCh,
                 replies, done>>

(* Mutant: the reader waits for the main goroutine only.                   *)
sendResultBlind(c) ==
  /\ reader[c] = "send" /\ resultCh = <<>>
  /\ resultCh' = <<[conn |-> reads[c], what |-> result[c]]>>
  /\ reader' = [reader EXCEPT ![c] = IF result[c] = "data" THEN "read" ELSE "end"]
  /\ UNCHANGED <<dnsSession, router, conns, failing, mains, clients, reads, result, replies, done>>

sendResult(c) ==
  /\ reader[c] = "send"
  /\ \/ /\ resultCh = <<>> /\ resultCh' = <<[conn |-> reads[c], what |-> result[c]]>>
        /\ reader' = [reader EXCEPT ![c] = IF result[c] = "data" THEN "read" ELSE "end"]
     \/ done /\ reader' = [reader EXCEPT ![c] = "end"] /\ UNCHANGED resultCh
  /\ UNCHANGED <<dnsSession, router, conns, failing, mains, clients, reads, result, replies, done>>

(* readClientFrames: a frame of the client, or an error when it is gone or *)
(* the request body was closed.                                            *)
ReadFrame ==
  /\ client = "read" /\ client' = "put"
  /\ \/ ~done /\ sent < MaxFrames /\ sent' = sent + 1 /\ \E f \in Frames \ {"error"} : held' = f
     \/ held' = "error" /\ UNCHANGED sent
  /\ UNCHANGED <<dnsSession, router, conns, failing, mains, frameCh, readers, done>>

PutFrame ==
  /\ client = "put"
  /\ \/ /\ frameCh = <<>> /\ frameCh' = <<held>>
        /\ client' = IF held = "error" THEN "end" ELSE "read"
     \/ done /\ client' = "end" /\ UNCHANGED frameCh
  /\ held' = "none"
  /\ UNCHANGED <<dnsSession, router, conns, failing, mains, sent, readers, done>>

(* The environment: a socket reports an error; the cooldown runs out.      *)
Fail(c) ==
  /\ c <= Len(made) /\ c \notin failing \cup connClosed /\ failing' = failing \cup {c}
  /\ UNCHANGED <<dnsSession, router, conns, mains, clients, readers, done>>

CooldownOver ==
  /\ cooling /\ cooling' = FALSE
  /\ UNCHANGED <<dnsSession, router, conns, failing, main, frame, out, routeSel, excused,
                 endedBy, clients, readers, done>>

-----------------------------------------------------------------------------
Main ==
  \/ DialTarget \/ Start \/ TakeResult \/ TakeFrame \/ IdleTimeout \/ rebindRoute \/ closeOld
  \/ openUpstream \/ Write \/ CloseDone \/ closeUpstream \/ WaitReaders

Reader(c) == readFromTarget(c) \/ ReadTarget(c) \/ CheckReplaced(c) \/ sendResult(c)

Next ==
  \/ Main \/ ReadFrame \/ PutFrame \/ CooldownOver
  \/ \E c \in Conns : Reader(c) \/ Fail(c)

Spec == Init /\ [][Next]_vars

(* Goroutines run on; reading waits for the peer until the session closes. *)
Fairness ==
  /\ WF_vars(CloseDone) /\ WF_vars(closeUpstream) /\ WF_vars(WaitReaders)
  /\ WF_vars(done /\ ReadFrame) /\ WF_vars(PutFrame)
  /\ \A c \in Conns : /\ WF_vars(readFromTarget(c)) /\ WF_vars(main = "wait" /\ ReadTarget(c))
                      /\ WF_vars(CheckReplaced(c)) /\ WF_vars(sendResult(c))

-----------------------------------------------------------------------------
(* No two readers read one connection, however a rebind falls between the  *)
(* start of a reader and its first step, and the current connection is     *)
(* read: an answer is neither split between readers nor left unread.       *)
OneReaderEach ==
  /\ \A c, d \in Conns : c # d /\ reads[c] # 0 => reads[c] # reads[d]
  /\ main \in {"select", "write"} /\ conn # 0 => reader[conn] # "off"

(* A session never ends because of a connection it has replaced: neither   *)
(* the error of the old socket nor its closing is taken for the new one's. *)
ReplacedHarmless == out = "target" /\ ~done => endedBy = conn

(* A query is written to a connection of the route its name asks for,      *)
(* unless moving there has just failed: also after a first frame that was  *)
(* no query and opened a direct connection.                                *)
QueryRouted ==
  main = "write" /\ dnsSession /\ frame \in Queries =>
    excused \/ made[conn] = routeForDomain(frame)

(* When the session is over its connections are closed and its goroutines  *)
(* have ended.                                                             *)
SessionCleared ==
  main = "end" =>
    /\ connClosed = 1 .. Len(made)
    /\ client \in {"off", "end"} /\ \A c \in Conns : reader[c] \in {"off", "end"}

(* close comes back, whatever its readers are blocked in.                  *)
NotClosing == main \notin {"close", "close_conn", "wait"}
SessionEnds == []<>NotClosing

-----------------------------------------------------------------------------
(***************************************************************************)
(* ServerUDP for any number of connections, frames and replies.            *)
(***************************************************************************)
(* The type invariant in four parts, for steps that touch one of them.     *)
ConnTypes ==
  /\ conn \in 0 .. MaxConns /\ connRoute \in Routes \cup {"none"}
  /\ made \in Seq(Routes) /\ Len(made) <= MaxConns
  /\ connClosed \subseteq 1 .. Len(made) /\ failing \subseteq 1 .. Len(made)
MainTypes ==
  /\ dnsSession \in BOOLEAN /\ router \in BOOLEAN
  /\ main \in {"dial", "start", "select", "rebind", "close_old", "first", "write",
               "close", "close_conn", "wait", "end"}
  /\ frame \in Frames \cup {"none"}
  /\ out \in {"none", "dial", "target", "push", "client", "write", "ok", "idle"}
  /\ routeSel \in Routes /\ cooling \in BOOLEAN /\ excused \in BOOLEAN
  /\ done \in BOOLEAN /\ endedBy \in 0 .. MaxConns
ClientTypes ==
  /\ client \in {"off", "read", "put", "end"} /\ held \in Frames \cup {"none"}
  /\ frameCh \in Seq(Frames) /\ Len(frameCh) <= 1 /\ sent \in 0 .. MaxFrames
ReaderTypes ==
  /\ reader \in [Conns -> {"off", "spawned", "read", "check", "send", "end"}]
  /\ reads \in [Conns -> 0 .. MaxConns] /\ result \in [Conns -> {"none", "data", "error"}]
  /\ resultCh \in Seq([conn : Conns, what : {"data", "error"}]) /\ Len(resultCh) <= 1
  /\ replies \in 0 .. MaxReplies

(* The current connection is the last one made, and all others are closed, *)
(* but for the one that a rebind has just replaced.                        *)
ConnsRight ==
  IF main \in {"wait", "end"} THEN conn = 0 /\ connClosed = 1 .. Len(made)
  ELSE conn = Len(made) /\ (main # "close_old" => connClosed = (1 .. Len(made)) \ {conn})

(* What the main goroutine knows at each of its points.                    *)
MainRight ==
  /\ main \in {"dial", "start", "select", "rebind", "close_old", "first", "write"} => out = "none"
  /\ done => main \in {"close_conn", "wait", "end"}
  /\ main = "end" /\ ~done => out = "dial"
  /\ main \in {"close_conn", "wait"} => done
  /\ main = "close" /\ out = "target" => endedBy = conn
  /\ main = "dial" => ~dnsSession /\ conn = 0
  /\ main = "start" /\ dnsSession => conn = 0
  /\ main \in {"rebind", "close_old", "write"} => conn # 0
  /\ main = "first" => conn = 0
  /\ main \in {"rebind", "close_old"} => dnsSession

(* A DNS session records the route of its connection, and a query is on    *)
(* its way to a connection of its route.                                   *)
RouteRight ==
  /\ dnsSession /\ conn # 0 => connRoute = made[conn]
  /\ main \in {"rebind", "close_old", "first", "write"} /\ dnsSession /\ frame \in Queries =>
       routeSel = routeForDomain(frame)
  /\ main = "close_old" => made[conn] = routeSel
  /\ main = "write" /\ dnsSession /\ frame \in Queries =>
       excused \/ made[conn] = routeForDomain(frame)

(* A reader reads the connection it was started for; the readers and the   *)
(* client's goroutine start with the session and are over at its end.      *)
ReadersRight ==
  /\ \A c \in Conns :
       /\ reads[c] \in {0, c}
       /\ reader[c] \in {"read", "check", "send"} => reads[c] = c
       /\ reader[c] \in {"check", "send"} => result[c] # "none"
       /\ main \in {"dial", "start"} => reader[c] = "off"
       /\ main = "end" => reader[c] \in {"off", "end"}
  /\ client = "put" => held # "none"
  /\ main \in {"dial", "start"} => client = "off"
  /\ main = "end" => client \in {"off", "end"}
  /\ main \notin {"dial", "start"} /\ conn # 0 => reader[conn] # "off"

Types == ConnTypes /\ MainTypes /\ ClientTypes /\ ReaderTypes
UDPInv == Types /\ ConnsRight /\ MainRight /\ RouteRight /\ ReadersRight

(* Time limits for the leaves below.                                       *)
USE SMTT(30), ZenonT(30)

LEMMA UDPInit == Init => UDPInv
<1> SUFFICES ASSUME Init PROVE UDPInv
  OBVIOUS
<1>0. MaxConns \in Nat /\ MaxFrames \in Nat /\ MaxReplies \in Nat
  BY SessionAssumption
<1>1. ConnTypes /\ ClientTypes
  BY <1>0 DEF Init, ConnTypes, ClientTypes
<1>2. MainTypes
  <2>1. main \in {"start", "dial"} /\ dnsSession \in BOOLEAN /\ router \in BOOLEAN
    BY DEF Init
  <2>2. /\ frame = "none" /\ out = "none" /\ routeSel = "direct" /\ cooling = FALSE
        /\ excused = FALSE /\ endedBy = 0 /\ done = FALSE
    BY DEF Init
  <2>3. cooling \in BOOLEAN /\ excused \in BOOLEAN /\ done \in BOOLEAN
    BY Zenon, <2>2
  <2> QED  BY <1>0, <2>1, <2>2, <2>3 DEF MainTypes, Routes
<1>3. ReaderTypes
  BY <1>0 DEF Init, ReaderTypes, Conns
<1>4. ConnsRight
  BY DEF Init, ConnsRight
<1>5. MainRight
  BY DEF Init, MainRight
<1>6. RouteRight
  BY DEF Init, RouteRight
<1>7. ReadersRight
  BY DEF Init, ReadersRight
<1> QED  BY <1>1, <1>2, <1>3, <1>4, <1>5, <1>6, <1>7 DEF UDPInv, Types

-----------------------------------------------------------------------------
(* The steps of the readers and of the client's goroutine leave the main   *)
(* goroutine and its connections alone.                                    *)
MainStays ==
  /\ dnsSession' = dnsSession /\ router' = router /\ conn' = conn /\ connRoute' = connRoute
  /\ made' = made /\ connClosed' = connClosed /\ main' = main /\ frame' = frame /\ out' = out
  /\ routeSel' = routeSel /\ cooling' = cooling /\ excused' = excused /\ done' = done
  /\ endedBy' = endedBy

LEMMA MainUntouched ==
  ASSUME UDPInv, MainStays
  PROVE  MainTypes' /\ ConnsRight' /\ MainRight' /\ RouteRight' /\ (failing' = failing => ConnTypes')
<1>1. MainTypes'
  BY DEF UDPInv, Types, MainTypes, MainStays, Frames, Datagrams, Queries, Routes
<1>2. ConnsRight'
  BY DEF UDPInv, ConnsRight, MainStays
<1>3. MainRight'
  BY DEF UDPInv, MainRight, MainStays
<1>4. RouteRight'
  BY DEF UDPInv, RouteRight, MainStays, Queries, routeForDomain
<1>5. failing' = failing => ConnTypes'
  BY DEF UDPInv, Types, ConnTypes, MainStays, Routes
<1> QED  BY <1>1, <1>2, <1>3, <1>4, <1>5

LEMMA ReaderStep ==
  ASSUME UDPInv, NEW c \in Conns, Reader(c)
  PROVE  UDPInv'
<1>0. ReaderTypes /\ ReadersRight /\ ClientTypes
  BY DEF UDPInv, Types
<1>1. MainStays /\ failing' = failing /\ client' = client /\ held' = held /\ frameCh' = frameCh /\ sent' = sent
  BY DEF Reader, readFromTarget, ReadTarget, CheckReplaced, sendResult, MainStays,
         conns, mains, clients
<1>2. ConnTypes' /\ MainTypes' /\ ConnsRight' /\ MainRight' /\ RouteRight'
  BY <1>1, MainUntouched
<1>3. ClientTypes'
  BY <1>0, <1>1 DEF ClientTypes, Frames, Datagrams, Queries
<1>4. c \in 1 .. MaxConns /\ c \in Nat /\ MaxConns \in Nat /\ MaxReplies \in Nat
  BY SessionAssumption DEF Conns
<1>5. reader[c] \in {"spawned", "read", "check", "send"} /\ main \notin {"dial", "start", "end"}
  BY <1>0 DEF Reader, readFromTarget, ReadTarget, CheckReplaced, sendResult, ReadersRight
<1>6. /\ reader' = [reader EXCEPT ![c] = reader'[c]] /\ reader'[c] \in {"read", "check", "send", "end"}
      /\ reads' = [reads EXCEPT ![c] = reads'[c]] /\ reads'[c] \in {reads[c], c}
      /\ result' = [result EXCEPT ![c] = result'[c]] /\ result'[c] \in {"none", "data", "error"}
      /\ reader'[c] \in {"read", "check", "send"} => reads'[c] = c
      /\ reader'[c] \in {"check", "send"} => result'[c] # "none"
  <2>1. CASE readFromTarget(c)
    BY <1>0, <2>1 DEF readFromTarget, ReaderTypes
  <2>2. CASE ReadTarget(c)
    BY <1>0, <2>2 DEF ReadTarget, ReaderTypes, ReadersRight
  <2>3. CASE CheckReplaced(c)
    BY <1>0, <2>3 DEF CheckReplaced, ReaderTypes, ReadersRight
  <2>4. CASE sendResult(c)
    BY <1>0, <2>4 DEF sendResult, ReaderTypes, ReadersRight
  <2> QED  BY <2>1, <2>2, <2>3, <2>4 DEF Reader
<1>7. replies' \in 0 .. MaxReplies
  BY <1>0, <1>4 DEF ReaderTypes, Reader, readFromTarget, ReadTarget, CheckReplaced, sendResult
<1>8. resultCh' \in Seq([conn : Conns, what : {"data", "error"}]) /\ Len(resultCh') <= 1
  <2>1. CASE resultCh' = resultCh
    BY <1>0, <2>1 DEF ReaderTypes
  <2>2. CASE reader[c] = "send" /\ resultCh' = <<[conn |-> reads[c], what |-> result[c]]>>
    <3>1. reads[c] = c /\ result[c] \in {"data", "error"}
      BY <1>0, <2>2 DEF ReadersRight, ReaderTypes
    <3> QED  BY <2>2, <3>1
  <2> QED  BY <2>1, <2>2 DEF Reader, readFromTarget, ReadTarget, CheckReplaced, sendResult
<1>9. ReaderTypes'
  <2>1. reads'[c] \in 0 .. MaxConns
    BY <1>0, <1>4, <1>6 DEF ReaderTypes
  <2> QED  BY <1>0, <1>6, <1>7, <1>8, <2>1 DEF ReaderTypes, Conns
<1>10. ReadersRight'
  <2>1. /\ \A d \in Conns : d # c => reader'[d] = reader[d] /\ reads'[d] = reads[d] /\ result'[d] = result[d]
        /\ reads'[c] \in {0, c}
    BY <1>0, <1>6 DEF ReaderTypes, ReadersRight
  <2>2. \A d \in Conns :
          /\ reads'[d] \in {0, d}
          /\ reader'[d] \in {"read", "check", "send"} => reads'[d] = d
          /\ reader'[d] \in {"check", "send"} => result'[d] # "none"
    BY <1>0, <1>6, <2>1 DEF ReadersRight
  <2>3. conn # 0 => conn \in Conns
    BY SessionAssumption DEF UDPInv, Types, ConnTypes, Conns
  <2>4. conn # 0 => reader'[conn] # "off"
    BY <1>0, <1>5, <1>6, <2>1, <2>3 DEF ReadersRight
  <2> QED  BY <1>0, <1>1, <1>5, <2>2, <2>4 DEF ReadersRight, MainStays, Conns
<1> QED  BY <1>2, <1>3, <1>9, <1>10 DEF UDPInv, Types

LEMMA ClientStep ==
  ASSUME UDPInv, ReadFrame \/ PutFrame
  PROVE  UDPInv'
<1>0. ReaderTypes /\ ReadersRight /\ ClientTypes
  BY DEF UDPInv, Types
<1>1. /\ MainStays /\ failing' = failing
      /\ reader' = reader /\ reads' = reads /\ result' = result /\ resultCh' = resultCh /\ replies' = replies
  BY DEF ReadFrame, PutFrame, MainStays, conns, mains, readers
<1>2. ConnTypes' /\ MainTypes' /\ ConnsRight' /\ MainRight' /\ RouteRight'
  BY <1>1, MainUntouched
<1>3. ReaderTypes'
  BY <1>0, <1>1 DEF ReaderTypes, Conns
<1>4. MaxFrames \in Nat /\ client \in {"read", "put"} /\ client' \in {"read", "put", "end"}
  BY <1>0, SessionAssumption DEF ReadFrame, PutFrame
<1>5. held' \in Frames \cup {"none"} /\ (client' = "put" => held' # "none")
  BY DEF ReadFrame, PutFrame, Frames, Datagrams, Queries
<1>6. sent' \in 0 .. MaxFrames
  BY <1>0, <1>4 DEF ClientTypes, ReadFrame, PutFrame
<1>7. frameCh' \in Seq(Frames) /\ Len(frameCh') <= 1
  <2>1. CASE frameCh' = frameCh
    BY <1>0, <2>1 DEF ClientTypes
  <2>2. CASE client = "put" /\ frameCh' = <<held>>
    <3>1. held \in Frames
      BY <1>0, <2>2 DEF ClientTypes, ReadersRight
    <3> QED  BY <2>2, <3>1
  <2> QED  BY <2>1, <2>2 DEF ReadFrame, PutFrame
<1>8. ClientTypes'
  BY <1>4, <1>5, <1>6, <1>7 DEF ClientTypes, Frames, Datagrams, Queries
<1>9. ReadersRight'
  BY <1>0, <1>1, <1>4, <1>5 DEF ReadersRight, MainStays, Conns
<1> QED  BY <1>2, <1>3, <1>8, <1>9 DEF UDPInv, Types

LEMMA FailStep ==
  ASSUME UDPInv, NEW c \in Conns, Fail(c)
  PROVE  UDPInv'
<1>0. ReaderTypes /\ ReadersRight /\ ClientTypes /\ ConnTypes
  BY DEF UDPInv, Types
<1>1. /\ MainStays /\ client' = client /\ held' = held /\ frameCh' = frameCh /\ sent' = sent
      /\ reader' = reader /\ reads' = reads /\ result' = result /\ resultCh' = resultCh /\ replies' = replies
  BY DEF Fail, MainStays, conns, mains, clients, readers
<1>2. MainTypes' /\ ConnsRight' /\ MainRight' /\ RouteRight'
  BY <1>1, MainUntouched
<1>3. ReaderTypes' /\ ReadersRight'
  BY <1>0, <1>1 DEF ReaderTypes, ReadersRight, MainStays, Conns
<1>4. ClientTypes'
  BY <1>0, <1>1 DEF ClientTypes, Frames, Datagrams, Queries
<1>5. ConnTypes'
  <2>1. c \in 1 .. Len(made) /\ failing' = failing \cup {c}
    BY <1>0 DEF Fail, Conns, ConnTypes
  <2> QED  BY <1>0, <1>1, <2>1 DEF ConnTypes, MainStays, Routes
<1> QED  BY <1>2, <1>3, <1>4, <1>5 DEF UDPInv, Types

-----------------------------------------------------------------------------
(* A step of the main goroutine that starts no reader and takes no part in *)
(* the client's frames.                                                    *)
OthersStay ==
  /\ client' = client /\ held' = held /\ frameCh' = frameCh /\ sent' = sent
  /\ reader' = reader /\ reads' = reads /\ result' = result /\ resultCh' = resultCh
  /\ replies' = replies

LEMMA OthersUntouched ==
  ASSUME UDPInv, OthersStay, conn' \in {conn, 0}, main \notin {"dial", "start"},
         main' \notin {"dial", "start", "end"}
  PROVE  ClientTypes' /\ ReaderTypes' /\ ReadersRight'
<1>0. ReaderTypes /\ ReadersRight /\ ClientTypes
  BY DEF UDPInv, Types
<1>1. ReaderTypes'
  BY <1>0 DEF ReaderTypes, OthersStay, Conns
<1>2. ReadersRight'
  BY <1>0 DEF ReadersRight, OthersStay, Conns
<1>3. ClientTypes'
  BY <1>0 DEF ClientTypes, OthersStay, Frames, Datagrams, Queries
<1> QED  BY <1>1, <1>2, <1>3

(* Finish: the session turns to its close with its connections as they are.*)
Finishing ==
  /\ main \in {"select", "first", "write"} /\ main' = "close"
  /\ out' \in {"dial", "target", "push", "client", "write", "ok", "idle"}
  /\ out' = "target" => endedBy' = conn
  /\ endedBy' \in {endedBy, conn} /\ frame' \in {frame, "none"}
  /\ dnsSession' = dnsSession /\ router' = router /\ conn' = conn /\ connRoute' = connRoute
  /\ made' = made /\ connClosed' = connClosed /\ failing' = failing
  /\ routeSel' = routeSel /\ cooling' = cooling /\ excused' = excused /\ done' = done

LEMMA Finished ==
  ASSUME UDPInv, Finishing
  PROVE  ConnTypes' /\ MainTypes' /\ ConnsRight' /\ MainRight' /\ RouteRight'
<1>0. ConnTypes /\ MainTypes /\ ConnsRight /\ MainRight /\ RouteRight
  BY DEF UDPInv, Types
<1>1. ConnTypes'
  BY <1>0 DEF ConnTypes, Finishing, Routes
<1>2. MainTypes'
  BY <1>0, SessionAssumption DEF MainTypes, ConnTypes, Finishing, Frames, Datagrams, Queries, Routes
<1>3. ConnsRight'
  BY <1>0 DEF ConnsRight, Finishing
<1>4. MainRight'
  BY <1>0 DEF MainRight, Finishing
<1>5. RouteRight'
  BY <1>0 DEF RouteRight, Finishing
<1> QED  BY <1>1, <1>2, <1>3, <1>4, <1>5

(* TakeResult: the error of a connection ends the session only if it is    *)
(* the current one.                                                        *)
LEMMA TakeResultStep ==
  ASSUME UDPInv, TakeResult
  PROVE  UDPInv'
<1>0. ReaderTypes /\ ReadersRight /\ ClientTypes
  BY DEF UDPInv, Types
<1>1. /\ main = "select" /\ resultCh' = <<>>
      /\ client' = client /\ held' = held /\ frameCh' = frameCh /\ sent' = sent
      /\ reader' = reader /\ reads' = reads /\ result' = result /\ replies' = replies
      /\ dnsSession' = dnsSession /\ router' = router /\ conn' = conn /\ connRoute' = connRoute
      /\ made' = made /\ connClosed' = connClosed /\ failing' = failing /\ frame' = frame
      /\ routeSel' = routeSel /\ cooling' = cooling /\ excused' = excused /\ done' = done
  BY DEF TakeResult, conns, clients
<1>2. MainStays \/ Finishing
  <2>1. \/ main' = main /\ out' = out /\ endedBy' = endedBy
        \/ main' = "close" /\ out' = "target" /\ endedBy' = conn
        \/ main' = "close" /\ out' = "push" /\ endedBy' = endedBy
    BY DEF TakeResult, Finish
  <2> QED  BY <1>1, <2>1 DEF MainStays, Finishing
<1>3. ConnTypes' /\ MainTypes' /\ ConnsRight' /\ MainRight' /\ RouteRight'
  BY <1>1, <1>2, MainUntouched, Finished
<1>4. main' \in {"select", "close"}
  BY <1>1, <1>2 DEF MainStays, Finishing
<1>5. ReaderTypes'
  BY <1>0, <1>1 DEF ReaderTypes, Conns
<1>6. ReadersRight'
  BY <1>0, <1>1, <1>4 DEF ReadersRight, Conns
<1>7. ClientTypes'
  BY <1>0, <1>1 DEF ClientTypes, Frames, Datagrams, Queries
<1> QED  BY <1>3, <1>5, <1>6, <1>7 DEF UDPInv, Types

(* IdleTimeout, Write.                                                     *)
LEMMA WriteStep ==
  ASSUME UDPInv, IdleTimeout \/ Write
  PROVE  UDPInv'
<1>0. ConnTypes /\ MainTypes /\ ConnsRight /\ MainRight /\ RouteRight
  BY DEF UDPInv, Types
<1>1. /\ OthersStay /\ main \in {"select", "write"} /\ frame' \in {frame, "none"}
      /\ dnsSession' = dnsSession /\ router' = router /\ conn' = conn /\ connRoute' = connRoute
      /\ made' = made /\ connClosed' = connClosed /\ failing' = failing /\ endedBy' = endedBy
      /\ routeSel' = routeSel /\ cooling' = cooling /\ excused' = excused /\ done' = done
  BY DEF OthersStay, IdleTimeout, Write, conns, clients, readers
<1>2. \/ main' = "close" /\ out' \in {"idle", "write"}
      \/ main' = "select" /\ main = "write" /\ out' = out
  BY DEF IdleTimeout, Write, Finish
<1>3. ClientTypes' /\ ReaderTypes' /\ ReadersRight'
  BY <1>1, <1>2, OthersUntouched
<1>4. CASE main' = "close"
  <2>1. Finishing
    BY <1>1, <1>2, <1>4 DEF Finishing
  <2> QED  BY <1>3, <2>1, Finished DEF UDPInv, Types
<1>5. CASE main' = "select"
  <2>0. main = "write" /\ out' = out
    BY <1>2, <1>5
  <2>1. ConnTypes'
    BY <1>0, <1>1 DEF ConnTypes, Routes
  <2>2. MainTypes'
    BY <1>0, <1>1, <1>5, <2>0 DEF MainTypes, Frames, Datagrams, Queries, Routes
  <2>3. ConnsRight'
    BY <1>0, <1>1, <1>5, <2>0 DEF ConnsRight
  <2>4. MainRight'
    BY <1>0, <1>1, <1>5, <2>0 DEF MainRight
  <2>5. RouteRight'
    BY <1>0, <1>1, <1>5, <2>0 DEF RouteRight
  <2> QED  BY <1>3, <2>1, <2>2, <2>3, <2>4, <2>5 DEF UDPInv, Types
<1> QED  BY <1>2, <1>4, <1>5

(* TakeFrame: a query goes on to a connection of its route, to a rebind or *)
(* to the first dial; one that stays on the other route is excused.        *)
LEMMA TakeFrameStep ==
  ASSUME UDPInv, TakeFrame
  PROVE  UDPInv'
<1>0. ConnTypes /\ MainTypes /\ ConnsRight /\ MainRight /\ RouteRight /\ ReaderTypes /\ ReadersRight /\ ClientTypes
  BY DEF UDPInv, Types
<1>1. /\ main = "select" /\ frameCh # <<>> /\ frameCh' = <<>>
      /\ dnsSession' = dnsSession /\ router' = router /\ conn' = conn /\ connRoute' = connRoute
      /\ made' = made /\ connClosed' = connClosed /\ failing' = failing /\ endedBy' = endedBy
      /\ cooling' = cooling /\ done' = done
      /\ client' = client /\ held' = held /\ sent' = sent
      /\ reader' = reader /\ reads' = reads /\ result' = result /\ resultCh' = resultCh /\ replies' = replies
  BY DEF TakeFrame, conns, readers
<1>2. PICK f \in Frames :
        \/ f \in Datagrams /\ observeClientFrame(f)
        \/ f = "other" /\ UNCHANGED <<main, frame, out, routeSel, excused>>
        \/ f = "FIN" /\ Finish("ok") /\ UNCHANGED <<frame, routeSel, excused>>
        \/ f = "error" /\ Finish("client") /\ UNCHANGED <<frame, routeSel, excused>>
  <2>1. Head(frameCh) \in Frames
    BY <1>0, <1>1 DEF ClientTypes
  <2> QED  BY <2>1 DEF TakeFrame
<1>3. ASSUME main' \notin {"dial", "start", "end"}
      PROVE  ClientTypes' /\ ReaderTypes' /\ ReadersRight'
  <2>1. ReaderTypes'
    BY <1>0, <1>1 DEF ReaderTypes, Conns
  <2>2. ReadersRight'
    BY <1>0, <1>1, <1>3 DEF ReadersRight, Conns
  <2>3. ClientTypes'
    BY <1>0, <1>1 DEF ClientTypes, Frames, Datagrams, Queries
  <2> QED  BY <2>1, <2>2, <2>3
<1>4. CASE f = "other" /\ UNCHANGED <<main, frame, out, routeSel, excused>>
  <2>1. MainStays
    BY <1>1, <1>4 DEF MainStays
  <2>2. main' = "select"
    BY <1>1, <1>4
  <2> QED  BY <1>1, <1>3, <2>1, <2>2, MainUntouched DEF UDPInv, Types
<1>5. CASE /\ Finish("ok") \/ Finish("client")
           /\ UNCHANGED <<frame, routeSel, excused>>
  <2>1. Finishing
    BY <1>1, <1>5 DEF Finishing, Finish
  <2>2. main' = "close"
    BY <1>5 DEF Finish
  <2> QED  BY <1>3, <2>1, <2>2, Finished DEF UDPInv, Types
<1>6. CASE f \in Datagrams /\ observeClientFrame(f)
  <2> DEFINE query == dnsSession /\ f \in Queries
  <2>1. /\ frame' = f /\ out' = out
        /\ routeSel' = IF query THEN routeForDomain(f) ELSE routeSel
        /\ excused' = (query /\ routeChanged(f) /\ cooling)
        /\ main' = IF query /\ routeChanged(f) /\ ~cooling THEN "rebind" ELSE IF conn = 0 THEN "first" ELSE "write"
    BY <1>6 DEF observeClientFrame
  <2>2. main' \in {"rebind", "first", "write"}
    BY <2>1
  <2>3. ConnTypes'
    BY <1>0, <1>1 DEF ConnTypes, Routes
  <2>4. MainTypes'
    <3>1. routeSel' \in Routes /\ frame' \in Frames
      BY <1>0, <2>1 DEF MainTypes, Routes, routeForDomain
    <3>2. excused' \in BOOLEAN
      BY <2>1
    <3> HIDE DEF query
    <3> QED  BY <1>0, <1>1, <2>1, <2>2, <3>1, <3>2 DEF MainTypes, Frames, Datagrams, Queries, Routes
  <2>5. ConnsRight'
    BY <1>0, <1>1, <2>2 DEF ConnsRight
  <2>6. routeChanged(f) => conn # 0
    BY DEF routeChanged, upstreamRoute
  <2>7. (main' = "rebind" => conn # 0 /\ dnsSession) /\ (main' = "first" => conn = 0) /\ (main' = "write" => conn # 0)
    BY <2>1, <2>6
  <2>8. MainRight'
    BY <1>0, <1>1, <2>1, <2>2, <2>7 DEF MainRight
  <2>9. dnsSession /\ f \in Queries => routeSel' = routeForDomain(f)
    BY <2>1
  <2>10. main' = "write" /\ dnsSession /\ f \in Queries => excused' \/ made[conn] = routeForDomain(f)
    <3> SUFFICES ASSUME main' = "write", query, ~excused' PROVE made[conn] = routeForDomain(f)
      OBVIOUS
    <3>1. ~routeChanged(f) /\ conn # 0
      BY Zenon, <2>1, <2>7
    <3>2. connRoute = made[conn] /\ conn \in 1 .. Len(made)
      BY <1>0, <1>1, <3>1 DEF RouteRight, ConnsRight, ConnTypes
    <3>3. made[conn] \in Routes
      BY <1>0, <3>2 DEF ConnTypes
    <3> QED  BY <3>1, <3>2, <3>3 DEF routeChanged, upstreamRoute, Routes
  <2>11. routeForDomain(f)' = routeForDomain(f)
    BY <1>1 DEF routeForDomain
  <2>12. RouteRight'
    <3>1. dnsSession' /\ conn' # 0 => connRoute' = made'[conn']
      BY <1>0, <1>1 DEF RouteRight
    <3>2. dnsSession' /\ frame' \in Queries => routeSel' = routeForDomain(frame)'
      BY <1>1, <2>1, <2>9, <2>11
    <3>3. main' = "write" /\ dnsSession' /\ frame' \in Queries => excused' \/ made'[conn'] = routeForDomain(frame)'
      BY <1>1, <2>1, <2>10, <2>11
    <3> QED  BY <2>2, <3>1, <3>2, <3>3 DEF RouteRight, Queries
  <2> QED  BY <1>3, <2>2, <2>3, <2>4, <2>5, <2>8, <2>12 DEF UDPInv, Types
<1> QED  BY <1>2, <1>4, <1>5, <1>6

-----------------------------------------------------------------------------
(* DialTarget: the only dial before the goroutines start.                  *)
LEMMA DialTargetStep ==
  ASSUME UDPInv, DialTarget
  PROVE  UDPInv'
<1>0. /\ ConnTypes /\ MainTypes /\ ConnsRight /\ MainRight /\ RouteRight
      /\ ReaderTypes /\ ReadersRight /\ ClientTypes
  BY DEF UDPInv, Types
<1>1. /\ main = "dial" /\ OthersStay /\ frame' = frame /\ endedBy' = endedBy
      /\ dnsSession' = dnsSession /\ router' = router /\ connRoute' = connRoute
      /\ connClosed' = connClosed /\ failing' = failing /\ cooling' = cooling /\ done' = done
      /\ routeSel' = routeSel /\ excused' = excused
  BY DEF OthersStay, DialTarget, clients, readers
<1>2. PICK route \in Routes :
        \/ main' = "start" /\ conn' = 1 /\ out' = out /\ made' = <<route>>
        \/ main' = "end" /\ out' = "dial" /\ conn' = conn /\ made' = made
  BY DEF DialTarget, Routes
<1>3. ~dnsSession /\ conn = 0 /\ Len(made) = 0 /\ connClosed = {} /\ failing = {} /\ out = "none" /\ ~done
  <2>1. ~dnsSession /\ conn = 0 /\ out = "none" /\ ~done
    BY <1>0, <1>1 DEF MainRight
  <2>2. Len(made) = 0
    BY <1>0, <1>1, <2>1 DEF ConnsRight
  <2>3. 1 .. Len(made) = {}
    BY <2>2
  <2> QED  BY <1>0, <2>1, <2>2, <2>3 DEF ConnTypes
<1>4. ConnTypes'
  <2>1. made' \in Seq(Routes) /\ Len(made') <= MaxConns /\ conn' \in 0 .. MaxConns
    <3>1. MaxConns \in Nat /\ 1 <= MaxConns
      BY SessionAssumption
    <3>2. <<route>> \in Seq(Routes) /\ Len(<<route>>) = 1
      BY DEF Routes
    <3>3. made \in Seq(Routes) /\ Len(made) <= MaxConns /\ conn \in 0 .. MaxConns
      BY <1>0 DEF ConnTypes
    <3>4. CASE made' = <<route>> /\ conn' = 1
      BY <3>1, <3>2, <3>4
    <3>5. CASE made' = made /\ conn' = conn
      BY <3>3, <3>5
    <3> QED  BY <1>2, <3>4, <3>5
  <2> QED  BY <1>0, <1>1, <1>3, <2>1 DEF ConnTypes, Routes
<1>5. MainTypes'
  BY <1>0, <1>1, <1>2 DEF MainTypes, Frames, Datagrams, Queries, Routes
<1>6. ConnsRight'
  <2>1. CASE main' = "start" /\ conn' = 1 /\ out' = out /\ made' = <<route>>
    <3>1. Len(made') = 1
      BY <2>1
    <3>2. (1 .. 1) \ {1} = {}
      OBVIOUS
    <3> QED  BY <1>1, <1>3, <2>1, <3>1, <3>2 DEF ConnsRight
  <2>2. CASE main' = "end" /\ out' = "dial" /\ conn' = conn /\ made' = made
    BY <1>1, <1>3, <2>2 DEF ConnsRight
  <2> QED  BY <1>2, <2>1, <2>2
<1>7. MainRight'
  BY <1>0, <1>1, <1>2, <1>3 DEF MainRight
<1>8. RouteRight'
  BY <1>1, <1>2, <1>3 DEF RouteRight
<1>9. ReadersRight'
  BY <1>0, <1>1, <1>2, <1>3 DEF ReadersRight, OthersStay, Conns
<1>10. ReaderTypes' /\ ClientTypes'
  BY <1>0, <1>1 DEF ReaderTypes, ClientTypes, OthersStay, Conns, Frames, Datagrams, Queries
<1> QED  BY <1>4, <1>5, <1>6, <1>7, <1>8, <1>9, <1>10 DEF UDPInv, Types

(* A reader that is started, or none.                                      *)
LEMMA ReaderStarted ==
  ASSUME UDPInv, main' \notin {"dial", "start", "end"}, conn' \in 0 .. MaxConns,
         reads' = reads, result' = result, resultCh' = resultCh, replies' = replies,
         \/ reader' = reader /\ (conn' = 0 \/ (conn' = conn /\ main \notin {"dial", "start"}))
         \/ conn' # 0 /\ reader' = [reader EXCEPT ![conn'] = "spawned"],
         client' = "put" => held' # "none"
  PROVE  ReaderTypes' /\ ReadersRight'
<1>0. ReaderTypes /\ ReadersRight
  BY DEF UDPInv, Types
<1>1. CASE conn' # 0 /\ reader' = [reader EXCEPT ![conn'] = "spawned"]
  <2>1. conn' \in Conns
    BY <1>1, SessionAssumption DEF Conns
  <2>2. reader' \in [Conns -> {"off", "spawned", "read", "check", "send", "end"}] /\ reader'[conn'] = "spawned"
    BY <1>0, <1>1, <2>1 DEF ReaderTypes
  <2>3. \A c \in Conns : reader'[c] \in {"read", "check", "send"} => reader[c] = reader'[c]
    BY <1>0, <1>1, <2>1 DEF ReaderTypes
  <2>4. ReaderTypes'
    BY <1>0, <2>2 DEF ReaderTypes, Conns
  <2>5. ReadersRight'
    BY <1>0, <2>2, <2>3 DEF ReadersRight, Conns
  <2> QED  BY <2>4, <2>5
<1>2. CASE reader' = reader /\ (conn' = 0 \/ (conn' = conn /\ main \notin {"dial", "start"}))
  <2>1. ReaderTypes'
    BY <1>0, <1>2 DEF ReaderTypes, Conns
  <2>2. ReadersRight'
    BY <1>0, <1>2 DEF ReadersRight, Conns
  <2> QED  BY <2>1, <2>2
<1> QED  BY <1>1, <1>2

(* Start: the goroutines of the session.                                   *)
LEMMA StartStep ==
  ASSUME UDPInv, Start
  PROVE  UDPInv'
<1>0. ConnTypes /\ MainTypes /\ ConnsRight /\ MainRight /\ RouteRight /\ ReadersRight /\ ClientTypes
  BY DEF UDPInv, Types
<1>1. /\ main = "start" /\ main' = "select" /\ client' = "read"
      /\ dnsSession' = dnsSession /\ router' = router /\ conn' = conn /\ connRoute' = connRoute
      /\ made' = made /\ connClosed' = connClosed /\ failing' = failing /\ frame' = frame /\ out' = out
      /\ routeSel' = routeSel /\ cooling' = cooling /\ excused' = excused /\ done' = done
      /\ endedBy' = endedBy /\ held' = held /\ frameCh' = frameCh /\ sent' = sent
      /\ reads' = reads /\ result' = result /\ resultCh' = resultCh /\ replies' = replies
  BY DEF Start, conns
<1>2. \/ conn' = 0 /\ reader' = reader
      \/ conn' # 0 /\ reader' = [reader EXCEPT ![conn'] = "spawned"]
  BY <1>1 DEF Start, startUpstreamReader
<1>3. ReaderTypes' /\ ReadersRight'
  <2>1. conn' \in 0 .. MaxConns
    BY <1>0, <1>1 DEF ConnTypes
  <2> QED  BY <1>1, <1>2, <2>1, ReaderStarted
<1>4. ConnTypes'
  BY <1>0, <1>1 DEF ConnTypes, Routes
<1>5. MainTypes'
  BY <1>0, <1>1 DEF MainTypes, Frames, Datagrams, Queries, Routes
<1>6. ConnsRight'
  BY <1>0, <1>1 DEF ConnsRight
<1>7. MainRight'
  BY <1>0, <1>1 DEF MainRight
<1>8. RouteRight'
  BY <1>0, <1>1 DEF RouteRight
<1>9. ClientTypes'
  BY <1>0, <1>1 DEF ClientTypes, Frames, Datagrams, Queries
<1> QED  BY <1>3, <1>4, <1>5, <1>6, <1>7, <1>8, <1>9 DEF UDPInv, Types

(* A new connection, dialed for the route of the query in hand.            *)
LEMMA Installed ==
  ASSUME UDPInv, NEW route \in Routes, installUpstream(route), Len(made) < MaxConns,
         main \in {"rebind", "first"}, connClosed' = connClosed, failing' = failing
  PROVE  /\ ConnTypes' /\ conn' # 0 /\ conn' = Len(made') /\ connRoute' = made'[conn'] /\ connRoute' = route
         /\ reader' = [reader EXCEPT ![conn'] = "spawned"]
         /\ connClosed = (1 .. Len(made)) \ {conn}
         /\ conn = 0 => connClosed' = (1 .. Len(made')) \ {conn'}
<1>0. ConnTypes /\ ConnsRight
  BY DEF UDPInv, Types
<1>1. made' = Append(made, route) /\ conn' = Len(made) + 1 /\ connRoute' = route /\ reader' = [reader EXCEPT ![conn'] = "spawned"]
  BY DEF installUpstream, startUpstreamReader
<1>2. made \in Seq(Routes) /\ Len(made) \in Nat
  BY <1>0 DEF ConnTypes
<1>3. made' \in Seq(Routes) /\ Len(made') = Len(made) + 1 /\ made'[Len(made) + 1] = route
  BY <1>1, <1>2
<1>4. connClosed = (1 .. Len(made)) \ {conn} /\ conn = Len(made)
  BY <1>0 DEF ConnsRight
<1> DEFINE m == Len(made)
<1>5. 1 .. m \subseteq 1 .. (m + 1) /\ (m = 0 => (1 .. m) \ {m} = (1 .. (m + 1)) \ {m + 1})
  BY <1>2
<1>6. ConnTypes'
  <2>1. conn' \in 0 .. MaxConns
    BY <1>1, <1>2, SessionAssumption
  <2>2. Len(made') <= MaxConns
    BY <1>2, <1>3, SessionAssumption
  <2> QED  BY <1>0, <1>1, <1>3, <1>5, <2>1, <2>2 DEF ConnTypes, Routes
<1>7. conn' # 0 /\ conn' = Len(made')
  BY <1>1, <1>2, <1>3
<1>8. conn = 0 => connClosed' = (1 .. Len(made')) \ {conn'}
  BY <1>1, <1>3, <1>4, <1>5
<1> QED  BY <1>1, <1>3, <1>4, <1>6, <1>7, <1>8

(* rebindRoute: the new connection is of the query's route, or the move    *)
(* has failed and the query is excused.                                    *)
LEMMA RebindStep ==
  ASSUME UDPInv, rebindRoute
  PROVE  UDPInv'
<1>0. ConnTypes /\ MainTypes /\ ConnsRight /\ MainRight /\ RouteRight /\ ReadersRight /\ ClientTypes
  BY DEF UDPInv, Types
<1>1. /\ main = "rebind" /\ dnsSession' = dnsSession /\ router' = router /\ connClosed' = connClosed
      /\ failing' = failing /\ frame' = frame /\ out' = out /\ routeSel' = routeSel
      /\ endedBy' = endedBy /\ done' = done
      /\ client' = client /\ held' = held /\ frameCh' = frameCh /\ sent' = sent
      /\ reads' = reads /\ result' = result /\ resultCh' = resultCh /\ replies' = replies
  BY DEF rebindRoute, clients
<1>2. ClientTypes'
  BY <1>0, <1>1 DEF ClientTypes, Frames, Datagrams, Queries
<1>3. client' = "put" => held' # "none"
  BY <1>0, <1>1 DEF ReadersRight
<1>4. routeForDomain(frame)' = routeForDomain(frame) /\ conn # 0 /\ dnsSession
  BY <1>0, <1>1 DEF routeForDomain, MainRight
<1>5. CASE /\ Len(made) < MaxConns /\ installUpstream(routeSel)
           /\ main' = "close_old" /\ cooling' = FALSE /\ excused' = excused
  <2>1. routeSel \in Routes
    BY <1>0 DEF MainTypes
  <2>2. /\ ConnTypes' /\ conn' # 0 /\ conn' = Len(made') /\ connRoute' = made'[conn'] /\ connRoute' = routeSel
        /\ reader' = [reader EXCEPT ![conn'] = "spawned"]
    BY <1>1, <1>5, <2>1, Installed
  <2>3. ReaderTypes' /\ ReadersRight'
    <3>1. conn' \in 0 .. MaxConns
      BY <2>2 DEF ConnTypes
    <3> QED  BY <1>1, <1>3, <1>5, <2>2, <3>1, ReaderStarted
  <2>4. MainTypes'
    <3>1. cooling' \in BOOLEAN
      BY Zenon, <1>5
    <3> QED  BY <1>0, <1>1, <1>5, <3>1 DEF MainTypes, Frames, Datagrams, Queries, Routes
  <2>5. ConnsRight'
    BY <1>5, <2>2 DEF ConnsRight
  <2>6. MainRight'
    BY <1>0, <1>1, <1>4, <1>5, <2>2 DEF MainRight
  <2>7. RouteRight'
    BY <1>0, <1>1, <1>4, <1>5, <2>2 DEF RouteRight, Queries
  <2> QED  BY <1>2, <2>2, <2>3, <2>4, <2>5, <2>6, <2>7 DEF UDPInv, Types
<1>6. CASE /\ main' = "write" /\ cooling' = TRUE /\ excused' = TRUE
           /\ UNCHANGED <<conn, connRoute, made, reader>>
  <2>1. ReaderTypes' /\ ReadersRight'
    <3>1. conn' \in 0 .. MaxConns
      BY <1>0, <1>6 DEF ConnTypes
    <3> QED  BY <1>1, <1>3, <1>6, <3>1, ReaderStarted
  <2>2. ConnTypes'
    BY <1>0, <1>1, <1>6 DEF ConnTypes, Routes
  <2>4. MainTypes'
    <3>1. cooling' \in BOOLEAN /\ excused' \in BOOLEAN
      BY <1>6
    <3> QED  BY <1>0, <1>1, <1>6, <3>1 DEF MainTypes, Frames, Datagrams, Queries, Routes
  <2>5. ConnsRight'
    BY <1>0, <1>1, <1>6 DEF ConnsRight
  <2>6. MainRight'
    BY <1>0, <1>1, <1>4, <1>6 DEF MainRight
  <2>7. RouteRight'
    BY <1>0, <1>1, <1>4, <1>6 DEF RouteRight, Queries
  <2> QED  BY <1>2, <2>1, <2>2, <2>4, <2>5, <2>6, <2>7 DEF UDPInv, Types
<1> QED  BY Zenon, <1>5, <1>6 DEF rebindRoute

(* openUpstream: the first connection of a DNS session.                    *)
LEMMA OpenUpstreamStep ==
  ASSUME UDPInv, openUpstream
  PROVE  UDPInv'
<1>0. ConnTypes /\ MainTypes /\ ConnsRight /\ MainRight /\ RouteRight /\ ReadersRight /\ ClientTypes
  BY DEF UDPInv, Types
<1>1. /\ main = "first" /\ dnsSession' = dnsSession /\ router' = router /\ connClosed' = connClosed
      /\ failing' = failing /\ frame' = frame /\ routeSel' = routeSel /\ cooling' = cooling
      /\ excused' = excused /\ endedBy' = endedBy /\ done' = done
      /\ client' = client /\ held' = held /\ frameCh' = frameCh /\ sent' = sent
      /\ reads' = reads /\ result' = result /\ resultCh' = resultCh /\ replies' = replies
  BY DEF openUpstream, clients
<1>2. ClientTypes'
  BY <1>0, <1>1 DEF ClientTypes, Frames, Datagrams, Queries
<1>3. client' = "put" => held' # "none"
  BY <1>0, <1>1 DEF ReadersRight
<1>4. routeForDomain(frame)' = routeForDomain(frame) /\ conn = 0
  BY <1>0, <1>1 DEF routeForDomain, MainRight
<1>5. CASE /\ Len(made) < MaxConns /\ installUpstream(IF router THEN routeSel ELSE "direct")
           /\ main' = "write" /\ out' = out
  <2> DEFINE route == IF router THEN routeSel ELSE "direct"
  <2>1. route \in Routes
    BY <1>0 DEF MainTypes, Routes
  <2>2. dnsSession /\ frame \in Queries => route = routeForDomain(frame)
    BY <1>0, <1>1 DEF RouteRight, routeForDomain
  <2> HIDE DEF route
  <2>3. installUpstream(route)
    BY <1>5 DEF route
  <2>4. /\ ConnTypes' /\ conn' # 0 /\ conn' = Len(made') /\ connRoute' = made'[conn'] /\ connRoute' = route
        /\ reader' = [reader EXCEPT ![conn'] = "spawned"]
        /\ connClosed' = (1 .. Len(made')) \ {conn'}
    BY <1>1, <1>4, <1>5, <2>1, <2>3, Installed
  <2>5. ReaderTypes' /\ ReadersRight'
    <3>1. conn' \in 0 .. MaxConns
      BY <2>4 DEF ConnTypes
    <3> QED  BY <1>1, <1>3, <1>5, <2>4, <3>1, ReaderStarted
  <2>6. MainTypes'
    BY <1>0, <1>1, <1>5 DEF MainTypes, Frames, Datagrams, Queries, Routes
  <2>7. ConnsRight'
    BY <1>5, <2>4 DEF ConnsRight
  <2>8. MainRight'
    BY <1>0, <1>1, <1>5, <2>4 DEF MainRight
  <2>9. RouteRight'
    BY <1>0, <1>1, <1>4, <1>5, <2>2, <2>4 DEF RouteRight, Queries
  <2> QED  BY <1>2, <2>4, <2>5, <2>6, <2>7, <2>8, <2>9 DEF UDPInv, Types
<1>6. CASE Finish("dial") /\ UNCHANGED <<conn, connRoute, made, reader>>
  <2>1. OthersStay /\ conn' = conn /\ main' = "close"
    BY <1>1, <1>6 DEF OthersStay, Finish
  <2>2. ReaderTypes' /\ ReadersRight'
    BY <1>1, <2>1, OthersUntouched
  <2>3. Finishing
    BY <1>1, <1>6 DEF Finishing, Finish
  <2> QED  BY <1>2, <2>2, <2>3, Finished DEF UDPInv, Types
<1> QED  BY <1>5, <1>6 DEF openUpstream

(* closeOld, CloseDone, closeUpstream: connections close.                  *)
LEMMA CloseStep ==
  ASSUME UDPInv, closeOld \/ CloseDone \/ closeUpstream
  PROVE  UDPInv'
<1>0. ConnTypes /\ MainTypes /\ ConnsRight /\ MainRight /\ RouteRight /\ ReadersRight
  BY DEF UDPInv, Types
<1>1. /\ OthersStay /\ dnsSession' = dnsSession /\ router' = router /\ made' = made
      /\ failing' = failing /\ frame' = frame /\ out' = out /\ routeSel' = routeSel
      /\ cooling' = cooling /\ excused' = excused /\ endedBy' = endedBy
  BY DEF closeOld, CloseDone, closeUpstream, OthersStay, conns, clients, readers
<1>2. \/ /\ main = "close_old" /\ main' = "write" /\ conn' = conn /\ connRoute' = connRoute
         /\ done' = done /\ connClosed' = (1 .. Len(made)) \ {conn}
      \/ /\ main = "close" /\ main' = "close_conn" /\ conn' = conn /\ connRoute' = connRoute
         /\ done' = TRUE /\ connClosed' = connClosed
      \/ /\ main = "close_conn" /\ main' = "wait" /\ conn' = 0 /\ connRoute' = "none"
         /\ done' = done /\ connClosed' = connClosed \cup ({conn} \ {0})
  BY DEF closeOld, CloseDone, closeUpstream, conns
<1>3. ClientTypes' /\ ReaderTypes' /\ ReadersRight'
  BY <1>1, <1>2, OthersUntouched
<1>4. conn = Len(made) /\ Len(made) \in Nat
  BY <1>0, <1>2 DEF ConnTypes, ConnsRight
<1>5. main = "close_conn" => connClosed \cup ({conn} \ {0}) = 1 .. Len(made)
  <2> SUFFICES ASSUME main = "close_conn" PROVE connClosed \cup ({conn} \ {0}) = 1 .. Len(made)
    OBVIOUS
  <2>1. connClosed = (1 .. Len(made)) \ {conn}
    BY <1>0 DEF ConnsRight
  <2> QED  BY <1>4, <2>1
<1>6. ConnTypes'
  <2>1. conn' \in 0 .. MaxConns /\ connRoute' \in Routes \cup {"none"}
    BY <1>0, <1>2, SessionAssumption DEF ConnTypes
  <2>2. connClosed' \subseteq 1 .. Len(made)
    BY Zenon, <1>0, <1>2, <1>5 DEF ConnTypes
  <2> QED  BY <1>0, <1>1, <2>1, <2>2 DEF ConnTypes, Routes
<1>7. MainTypes'
  <2>1. done' \in BOOLEAN
    BY Zenon, <1>0, <1>2 DEF MainTypes
  <2> QED  BY <1>0, <1>1, <1>2, <2>1 DEF MainTypes, Frames, Datagrams, Queries, Routes
<1>8. ConnsRight'
  BY Zenon, <1>0, <1>1, <1>2, <1>5 DEF ConnsRight
<1>9. MainRight'
  BY <1>0, <1>1, <1>2 DEF MainRight
<1>10. RouteRight'
  <2>1. routeForDomain(frame)' = routeForDomain(frame)
    BY <1>1 DEF routeForDomain
  <2> QED  BY <1>0, <1>1, <1>2, <2>1 DEF RouteRight, Queries
<1> QED  BY <1>3, <1>6, <1>7, <1>8, <1>9, <1>10 DEF UDPInv, Types

(* WaitReaders, CooldownOver.                                              *)
LEMMA EndStep ==
  ASSUME UDPInv, WaitReaders
  PROVE  UDPInv'
<1>0. /\ ConnTypes /\ MainTypes /\ ConnsRight /\ MainRight /\ RouteRight
      /\ ReaderTypes /\ ReadersRight /\ ClientTypes
  BY DEF UDPInv, Types
<1>1. /\ main = "wait" /\ main' = "end" /\ client = "end" /\ \A c \in Conns : reader[c] \in {"off", "end"}
      /\ dnsSession' = dnsSession /\ router' = router /\ conn' = conn /\ connRoute' = connRoute
      /\ made' = made /\ connClosed' = connClosed /\ failing' = failing /\ frame' = frame /\ out' = out
      /\ routeSel' = routeSel /\ cooling' = cooling /\ excused' = excused /\ done' = done
      /\ endedBy' = endedBy /\ OthersStay
  BY DEF WaitReaders, conns, clients, readers, OthersStay
<1>2. ConnTypes'
  BY <1>0, <1>1 DEF ConnTypes, Routes
<1>3. MainTypes'
  BY <1>0, <1>1 DEF MainTypes, Frames, Datagrams, Queries, Routes
<1>4. ConnsRight'
  BY <1>0, <1>1 DEF ConnsRight
<1>5. MainRight'
  BY <1>0, <1>1 DEF MainRight
<1>6. RouteRight'
  BY <1>0, <1>1 DEF RouteRight
<1>7. ReadersRight'
  BY <1>0, <1>1 DEF ReadersRight, ConnsRight, OthersStay, Conns
<1>8. ReaderTypes'
  BY <1>0, <1>1 DEF ReaderTypes, OthersStay, Conns
<1>9. ClientTypes'
  BY <1>0, <1>1 DEF ClientTypes, OthersStay, Frames, Datagrams, Queries
<1> QED  BY <1>2, <1>3, <1>4, <1>5, <1>6, <1>7, <1>8, <1>9 DEF UDPInv, Types

LEMMA CooldownStep ==
  ASSUME UDPInv, CooldownOver
  PROVE  UDPInv'
<1>0. /\ ConnTypes /\ MainTypes /\ ConnsRight /\ MainRight /\ RouteRight
      /\ ReaderTypes /\ ReadersRight /\ ClientTypes
  BY DEF UDPInv, Types
<1>1. /\ cooling' = FALSE /\ main' = main
      /\ dnsSession' = dnsSession /\ router' = router /\ conn' = conn /\ connRoute' = connRoute
      /\ made' = made /\ connClosed' = connClosed /\ failing' = failing /\ frame' = frame /\ out' = out
      /\ routeSel' = routeSel /\ excused' = excused /\ done' = done
      /\ endedBy' = endedBy /\ OthersStay
  BY DEF CooldownOver, conns, clients, readers, OthersStay
<1>2. ConnTypes'
  BY <1>0, <1>1 DEF ConnTypes, Routes
<1>3. MainTypes'
  <2>1. cooling' \in BOOLEAN
    BY Zenon, <1>1
  <2> QED  BY <1>0, <1>1, <2>1 DEF MainTypes, Frames, Datagrams, Queries, Routes
<1>4. ConnsRight'
  BY <1>0, <1>1 DEF ConnsRight
<1>5. MainRight'
  BY <1>0, <1>1 DEF MainRight
<1>6. RouteRight'
  BY <1>0, <1>1 DEF RouteRight, routeForDomain, Queries
<1>7. ReadersRight'
  BY <1>0, <1>1 DEF ReadersRight, OthersStay, Conns
<1>8. ReaderTypes'
  BY <1>0, <1>1 DEF ReaderTypes, OthersStay, Conns
<1>9. ClientTypes'
  BY <1>0, <1>1 DEF ClientTypes, OthersStay, Frames, Datagrams, Queries
<1> QED  BY <1>2, <1>3, <1>4, <1>5, <1>6, <1>7, <1>8, <1>9 DEF UDPInv, Types

LEMMA UDPNext == UDPInv /\ Next => UDPInv'
<1> SUFFICES ASSUME UDPInv, Next PROVE UDPInv'
  OBVIOUS
<1> QED  BY DialTargetStep, StartStep, TakeResultStep, TakeFrameStep, WriteStep, RebindStep,
            OpenUpstreamStep, CloseStep, EndStep, CooldownStep, ReaderStep, ClientStep, FailStep
         DEF Next, Main

LEMMA UDPStays == UDPInv /\ UNCHANGED vars => UDPInv'
BY DEF vars, conns, mains, clients, readers, UDPInv, Types, ConnTypes, MainTypes, ClientTypes, ReaderTypes, ConnsRight,
       MainRight, RouteRight, ReadersRight, Routes, Frames, Datagrams, Queries,
       Conns, routeForDomain

LEMMA UDPProper ==
  UDPInv => OneReaderEach /\ ReplacedHarmless /\ QueryRouted /\ SessionCleared
<1> SUFFICES ASSUME UDPInv
             PROVE  OneReaderEach /\ ReplacedHarmless /\ QueryRouted /\ SessionCleared
  OBVIOUS
<1>0. ConnsRight /\ MainRight /\ RouteRight /\ ReadersRight /\ MainTypes
  BY DEF UDPInv, Types
<1>1. OneReaderEach
  BY <1>0 DEF ReadersRight, OneReaderEach, Conns
<1>2. ReplacedHarmless
  BY <1>0 DEF MainRight, MainTypes, ReplacedHarmless
<1>3. QueryRouted
  BY <1>0 DEF RouteRight, QueryRouted
<1>4. SessionCleared
  BY <1>0 DEF ConnsRight, ReadersRight, SessionCleared
<1> QED  BY <1>1, <1>2, <1>3, <1>4

LEMMA UDPTyped == UDPInv => TypeOK
<1> SUFFICES ASSUME UDPInv PROVE TypeOK
  OBVIOUS
<1>0. ConnTypes /\ MainTypes /\ ClientTypes /\ ReaderTypes
  BY DEF UDPInv, Types
<1> QED  BY <1>0 DEF ConnTypes, MainTypes, ClientTypes, ReaderTypes, TypeOK
=============================================================================
