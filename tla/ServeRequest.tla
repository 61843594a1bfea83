---------------------------- MODULE ServeRequest ----------------------------
(***************************************************************************)
(* What the server does with a request (server/handler/serve.go): the      *)
(* checks before the response is committed, with the salt cache            *)
(* (saltcache.go) and the wait for the first record (crypto/session.go),   *)
(* then the session and the teardown of its response, which a client that  *)
(* does not read can block.                                                *)
(*                                                                         *)
(* A request is the outcome of the checks on it.  The salt cache holds the *)
(* text of the x-es header; the keys come from the 16 bytes it decodes to, *)
(* which are the same for several texts, and whether the first record fits *)
(* them is part of the outcome.  NewStreamKeys fails only on keys or salts *)
(* of a wrong length, of which there are none here.  What the rate limiter *)
(* says is open (module RateLimit).                                        *)
(***************************************************************************)
EXTENDS Naturals, FiniteSets

CONSTANTS
  Requests,  \* concurrent requests
  Texts,     \* texts of their x-es headers
  Endpoints  \* request paths of the proxy

VARIABLES
  req,       \* the request
  pc,        \* how far its handler is
  status,    \* the response: "none", "page" (the fallback site) or a status code
  rereplied, \* history: a second response was written over the first
  seen, forgotten,  \* the salt cache; history: what it dropped
  first, ch, \* the goroutine reading the first record, and its result channel
  bodyClosed, gone, \* the body was closed by the handler; the client is gone
  misjudged, \* history: a decoded record was ready when the wait gave up
  result,    \* what the session returned
  grace,     \* the teardown timer
  deadline   \* a write deadline was set on the response

checks == <<req, seen, forgotten, first, ch, bodyClosed, gone, misjudged>>
session == <<result, grace, deadline>>
vars == <<pc, status, rereplied, checks, session>>

Kinds ==  \* not a handshake at all; one without, with a wrong, with a right first record
  {"plain", "silent", "garbage", "other_endpoint", "method", "LAN", "good"}
Request == [kind : Kinds, text : Texts, path : Endpoints]
\* The text has 22 characters, so that the concatenation is a pair.
cacheKey(r) == <<req[r].path, req[r].text>>

TypeOK ==
  /\ req \in [Requests -> Request] /\ rereplied \in [Requests -> BOOLEAN]
  /\ pc \in [Requests -> {"new", "salt", "first", "judge", "create", "commit", "handle",
                          "arm", "rst", "close", "stop", "wait", "recover", "done"}]
  /\ status \in [Requests -> {"none", "page", "200", "400", "404", "405", "408", "429", "500"}]
  /\ seen \subseteq Endpoints \X Texts /\ forgotten \subseteq Endpoints \X Texts
  /\ first \in [Requests -> {"off", "reading", "ended"}]
  /\ ch \in [Requests -> {"empty", "record", "error"}]
  /\ bodyClosed \in [Requests -> BOOLEAN] /\ gone \in [Requests -> BOOLEAN]
  /\ misjudged \in [Requests -> BOOLEAN]
  /\ result \in [Requests -> {"none", "ok", "eof", "dial_failed", "error"}]
  /\ grace \in [Requests -> {"off", "armed", "running", "fired", "stopped"}]
  /\ deadline \in [Requests -> BOOLEAN]

Init ==
  /\ req \in [Requests -> Request]
  /\ pc = [r \in Requests |-> "new"] /\ status = [r \in Requests |-> "none"]
  /\ rereplied = [r \in Requests |-> FALSE] /\ seen = {} /\ forgotten = {}
  /\ first = [r \in Requests |-> "off"] /\ ch = [r \in Requests |-> "empty"]
  /\ bodyClosed = [r \in Requests |-> FALSE] /\ gone = [r \in Requests |-> FALSE]
  /\ misjudged = [r \in Requests |-> FALSE] /\ result = [r \in Requests |-> "none"]
  /\ grace = [r \in Requests |-> "off"] /\ deadline = [r \in Requests |-> FALSE]

-----------------------------------------------------------------------------
Goto(r, l) == pc' = [pc EXCEPT ![r] = l]

(* A response is written.  The first one counts.                           *)
WriteHeader(r, code) ==
  /\ status' = [status EXCEPT ![r] = IF @ = "none" THEN code ELSE @]
  /\ rereplied' = [rereplied EXCEPT ![r] = @ \/ status[r] # "none"]

serveReject(r, code) == WriteHeader(r, code) /\ Goto(r, "done")
serveFallback(r) == WriteHeader(r, "page") /\ Goto(r, "done")

(* The protocol, the method and the form of the salt; then the limiter.    *)
Screen(r) ==
  /\ pc[r] = "new"
  /\ \/ req[r].kind = "plain" /\ serveFallback(r)
     \/ req[r].kind # "plain" /\ serveReject(r, "429")
     \/ req[r].kind # "plain" /\ Goto(r, "salt") /\ UNCHANGED <<status, rereplied>>
  /\ UNCHANGED <<checks, session>>

(* Mutant: the text is looked up here and noted with the record.           *)
MarkSeenLate(r) ==
  /\ pc[r] = "salt"
  /\ IF cacheKey(r) \in seen
       THEN serveReject(r, "400") /\ UNCHANGED first
       ELSE /\ Goto(r, "first") /\ first' = [first EXCEPT ![r] = "reading"]
            /\ UNCHANGED <<status, rereplied>>
  /\ UNCHANGED <<req, seen, forgotten, ch, bodyClosed, gone, misjudged, session>>

(* Look up and note are one step.  The reader of the first record starts.  *)
MarkSeen(r) ==
  /\ pc[r] = "salt" /\ seen' = seen \cup {cacheKey(r)}
  /\ IF cacheKey(r) \in seen
       THEN serveReject(r, "400") /\ UNCHANGED first
       ELSE /\ Goto(r, "first") /\ first' = [first EXCEPT ![r] = "reading"]
            /\ UNCHANGED <<status, rereplied>>
  /\ UNCHANGED <<req, forgotten, ch, bodyClosed, gone, misjudged, session>>

(* ReadFirstRecord: the goroutine delivers into a channel with room for it.*)
ReadFirstRecord(r) ==
  /\ first[r] = "reading" /\ first' = [first EXCEPT ![r] = "ended"]
  /\ \/ req[r].kind \notin {"silent", "garbage"} /\ ch' = [ch EXCEPT ![r] = "record"]
     \/ /\ req[r].kind = "garbage" \/ bodyClosed[r] \/ gone[r]
        /\ ch' = [ch EXCEPT ![r] = "error"]
  /\ UNCHANGED <<pc, status, rereplied, req, seen, forgotten, bodyClosed, gone, misjudged,
                 session>>

TakeRecord(r) ==
  IF ch[r] = "record" THEN Goto(r, "judge") /\ UNCHANGED <<status, rereplied>>
                      ELSE serveFallback(r)

(* Mutant: the timer does not look whether the record has just arrived.    *)
FirstTimeoutHasty(r) ==
  /\ pc[r] = "first" /\ serveReject(r, "408")
  /\ bodyClosed' = [bodyClosed EXCEPT ![r] = TRUE]
  /\ misjudged' = [misjudged EXCEPT ![r] = ch[r] # "empty"]
  /\ UNCHANGED <<req, seen, forgotten, first, ch, gone, session>>

(* The three branches of ReadFirstRecordWithTimeout.                       *)
FirstTimeout(r) ==
  /\ pc[r] = "first"
  /\ IF ch[r] # "empty"
       THEN TakeRecord(r) /\ UNCHANGED <<bodyClosed, misjudged>>
       ELSE /\ serveReject(r, "408") /\ bodyClosed' = [bodyClosed EXCEPT ![r] = TRUE]
            /\ misjudged' = [misjudged EXCEPT ![r] = ch[r] # "empty"]
  /\ UNCHANGED <<req, seen, forgotten, first, ch, gone, session>>

FirstCancelled(r) ==
  /\ pc[r] = "first" /\ gone[r] /\ serveFallback(r)
  /\ bodyClosed' = [bodyClosed EXCEPT ![r] = TRUE]
  /\ UNCHANGED <<req, seen, forgotten, first, ch, gone, misjudged, session>>

FirstResult(r) ==
  /\ pc[r] = "first" /\ ch[r] # "empty" /\ TakeRecord(r)
  /\ UNCHANGED <<checks, session>>

(* The checks on the handshake.  A target that does not resolve passes.    *)
Judge(r) ==
  /\ pc[r] = "judge"
  /\ \/ req[r].kind = "other_endpoint" /\ serveReject(r, "404")
     \/ req[r].kind = "method" /\ serveReject(r, "405")
     \/ req[r].kind = "LAN" /\ serveReject(r, "400")
     \/ req[r].kind = "good" /\ Goto(r, "create") /\ UNCHANGED <<status, rereplied>>
  /\ UNCHANGED <<checks, session>>

-----------------------------------------------------------------------------
(* Mutant: the response is committed before its reader and writer exist.   *)
CreateLate(r) ==
  \/ /\ pc[r] = "create" /\ WriteHeader(r, "200") /\ Goto(r, "commit")
     /\ UNCHANGED <<checks, session>>
  \/ /\ pc[r] = "commit" /\ serveReject(r, "500") /\ UNCHANGED <<checks, session>>

(* serveSession: what can fail comes before the commit.                    *)
Create(r) ==
  /\ pc[r] = "create"
  /\ \/ serveReject(r, "500")
     \/ Goto(r, "commit") /\ UNCHANGED <<status, rereplied>>
  /\ UNCHANGED <<checks, session>>

Commit(r) ==
  /\ pc[r] = "commit" /\ WriteHeader(r, "200") /\ Goto(r, "handle")
  /\ UNCHANGED <<checks, session>>

(* The TCP, UDP or ICMP session returns, or panics with an empty result.   *)
Handle(r) ==
  /\ pc[r] = "handle" /\ Goto(r, "arm")
  /\ \E v \in {"none", "ok", "eof", "dial_failed", "error"} : result' = [result EXCEPT ![r] = v]
  /\ UNCHANGED <<status, rereplied, checks, grace, deadline>>

-----------------------------------------------------------------------------
needsRST(r) == result[r] \in {"dial_failed", "error"}

(* A write to the response: it goes out when the client reads, and fails   *)
(* when the deadline is set or the client is gone.                         *)
Teardown(r) ==
  /\ pc[r] = "arm" /\ grace' = [grace EXCEPT ![r] = "armed"]
  /\ Goto(r, IF needsRST(r) THEN "rst" ELSE "close")
  /\ UNCHANGED <<status, rereplied, checks, result, deadline>>

sendRST(r) ==
  /\ pc[r] = "rst" /\ Goto(r, "close")
  /\ UNCHANGED <<status, rereplied, checks, session>>

CloseShaper(r) ==
  /\ pc[r] = "close" /\ Goto(r, "stop")
  /\ UNCHANGED <<status, rereplied, checks, session>>

(* Mutant: nobody waits for a callback that has started.                   *)
StopTimerOnly(r) ==
  /\ pc[r] = "stop"
  /\ grace' = [grace EXCEPT ![r] = IF @ = "armed" THEN "stopped" ELSE @]
  /\ Goto(r, IF result[r] = "none" THEN "recover" ELSE "done")
  /\ UNCHANGED <<status, rereplied, checks, result, deadline>>

StopTimer(r) ==
  /\ pc[r] = "stop"
  /\ grace' = [grace EXCEPT ![r] = IF @ = "armed" THEN "stopped" ELSE @]
  /\ Goto(r, IF grace[r] # "armed" THEN "wait" ELSE IF result[r] = "none" THEN "recover" ELSE "done")
  /\ UNCHANGED <<status, rereplied, checks, result, deadline>>

WaitFired(r) ==
  /\ pc[r] = "wait" /\ grace[r] = "fired"
  /\ Goto(r, IF result[r] = "none" THEN "recover" ELSE "done")
  /\ UNCHANGED <<status, rereplied, checks, session>>

(* ServeHTTP recovers from a panic and flushes.                            *)
Recover(r) ==
  /\ pc[r] = "recover" /\ Goto(r, "done") /\ UNCHANGED <<status, rereplied, checks, session>>

(* Mutant: the timer never runs.                                           *)
GraceNever(r) == FALSE /\ pc' = pc

(* The callback starts when the budget is used up.                         *)
Grace(r) ==
  /\ grace[r] = "armed" /\ grace' = [grace EXCEPT ![r] = "running"]
  /\ UNCHANGED <<pc, status, rereplied, checks, result, deadline>>

SetWriteDeadline(r) ==
  /\ grace[r] = "running" /\ grace' = [grace EXCEPT ![r] = "fired"]
  /\ deadline' = [deadline EXCEPT ![r] = TRUE]
  /\ UNCHANGED <<pc, status, rereplied, checks, result>>

-----------------------------------------------------------------------------
(* The environment: a client goes away before it has a session (after that *)
(* its leaving is one of the results of the session); the cache drops an   *)
(* entry.                                                                  *)
Leave(r) ==
  /\ ~gone[r] /\ pc[r] \in {"new", "salt", "first"} /\ gone' = [gone EXCEPT ![r] = TRUE]
  /\ UNCHANGED <<pc, status, rereplied, req, seen, forgotten, first, ch, bodyClosed, misjudged,
                 session>>

Forget(k) ==
  /\ k \in seen /\ k \notin forgotten /\ seen' = seen \ {k} /\ forgotten' = forgotten \cup {k}
  /\ UNCHANGED <<pc, status, rereplied, req, first, ch, bodyClosed, gone, misjudged, session>>

Handler(r) ==
  \/ Screen(r) \/ MarkSeen(r) \/ FirstTimeout(r) \/ FirstCancelled(r) \/ FirstResult(r)
  \/ Judge(r) \/ Create(r) \/ Commit(r) \/ Handle(r) \/ Teardown(r) \/ sendRST(r)
  \/ CloseShaper(r) \/ StopTimer(r) \/ WaitFired(r) \/ Recover(r)

Next ==
  \/ \E r \in Requests :
       Handler(r) \/ ReadFirstRecord(r) \/ Grace(r) \/ SetWriteDeadline(r) \/ Leave(r)
  \/ \E k \in Endpoints \X Texts : Forget(k)

Spec == Init /\ [][Next]_vars

(* Timers fire and goroutines run.  A client need not read: the writes of  *)
(* the teardown are certain to return only after the deadline.             *)
Fairness ==
  \A r \in Requests :
    /\ WF_vars(pc[r] \in {"first", "arm", "stop", "wait", "recover"} /\ Handler(r))
    /\ WF_vars(deadline[r] /\ (sendRST(r) \/ CloseShaper(r)))
    /\ WF_vars(Grace(r)) /\ WF_vars(SetWriteDeadline(r))
    /\ WF_vars((bodyClosed[r] \/ gone[r]) /\ ReadFirstRecord(r))

-----------------------------------------------------------------------------
(* Two requests with the same header text on the same path never both get  *)
(* a session, however their checks interleave, unless the cache has        *)
(* dropped the entry in between.                                           *)
HeaderOnce ==
  \A r, q \in Requests :
    r # q /\ status[r] = "200" /\ status[q] = "200" /\ cacheKey(r) = cacheKey(q) => cacheKey(r) \in forgotten

(* A request gets one response; the page of the site goes only to who did  *)
(* not show the key, or has gone; and a handshake that arrived in time is  *)
(* never answered as late.                                                 *)
AnsweredRightly ==
  \A r \in Requests :
    /\ ~rereplied[r] /\ ~misjudged[r]
    /\ status[r] = "page" => req[r].kind \in {"plain", "garbage"} \/ gone[r]
    /\ pc[r] = "done" => status[r] # "none"

(* The callback of the teardown timer never touches the response of a      *)
(* handler that has returned.                                              *)
NoLateCallback == \A r \in Requests : pc[r] \in {"recover", "done"} => grace[r] # "running"

(* A session that is over leaves its handler, also when the client does    *)
(* not read; and the reader of the first record never outlives the         *)
(* request for good.                                                       *)
NoneInTeardown ==
  \A r \in Requests :
    /\ pc[r] \notin {"arm", "rst", "close", "stop", "wait", "recover"}
    /\ pc[r] = "done" /\ status[r] \in {"408", "page"} => first[r] # "reading"
TeardownEnds == []<>NoneInTeardown
=============================================================================
