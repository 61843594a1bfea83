---------------------------- MODULE SocksConnect ----------------------------
(***************************************************************************)
(* One SOCKS5 CONNECT of the client (client/proxy/socks5.go): the target   *)
(* is refused, dialed directly or given a stream of the tunnel.  A target  *)
(* on port 53 is first taken for TCP DNS (dnstcp.go): the success reply    *)
(* goes out before anything is read, the queries are answered one by one,  *)
(* each proxied one over an exchange the connection keeps (dns_tcp.go),    *)
(* and a connection that turns out not to be DNS is relayed after all.     *)
(***************************************************************************)
EXTENDS Naturals, Sequences, FiniteSets

CONSTANTS MaxQueries,  \* bound: queries of one connection
          MaxDup       \* bound: datagrams the network delivers twice

(* The first message: two bytes of length and a body. *)
LengthPrefix == 2
Whole == LengthPrefix + 1
Decisions == {"block", "ipv6 rejected", "direct", "proxy"}

VARIABLES pc,
          port53,      \* the target is on port 53
          replied,     \* a success reply was written before the route was chosen
          replies,     \* the SOCKS replies written (history)
          sent,        \* pieces of its first message the client sends
          ends,        \* what it does then: "eof", "silence" or "goes on"
          isQuery,     \* its messages are DNS queries
          taken,       \* pieces read from the connection
          pending,     \* pieces given back for the relay
          query,       \* the query in hand
          ue,          \* the session's exchange, 0 if none
          exchanges,   \* how many were opened
          open,        \* those that are open
          asked,       \* queries an exchange has sent and the resolver not answered
          inbox,       \* answers that wait to be received
          duplicated,  \* datagrams delivered twice (history)
          answers      \* what the client was told, one per query (history)

client == <<port53, sent, ends, isQuery>>
socks == <<replied, replies, taken, pending>>
session == <<ue, exchanges, open, asked>>
net == <<inbox, duplicated>>
connectVars == <<pc, client, socks, query, session, net, answers>>

Pcs == {"accepted", "first", "judge", "route", "dial", "dialed", "stream", "relay",
        "resolve", "exchange", "wait", "write", "next", "closing", "ended"}
Exchanges == 1 .. MaxQueries
ServFail == 0

ConnectTypeOK ==
  /\ pc \in Pcs
  /\ port53 \in BOOLEAN /\ replied \in BOOLEAN /\ isQuery \in BOOLEAN
  /\ replies \in Seq({"success", "refused", "unreachable"})
  /\ sent \in 0 .. Whole /\ ends \in {"eof", "silence", "goes on"}
  /\ taken \in 0 .. Whole /\ pending \in 0 .. Whole
  /\ query \in 0 .. MaxQueries
  /\ ue \in {0} \cup Exchanges /\ exchanges \in 0 .. MaxQueries /\ open \subseteq Exchanges
  /\ asked \in [Exchanges -> SUBSET (1 .. MaxQueries)]
  /\ inbox \in [Exchanges -> Seq(1 .. MaxQueries)]
  /\ duplicated \in 0 .. MaxDup
  /\ answers \in Seq(0 .. MaxQueries)

ConnectInit ==
  /\ pc = "accepted"
  /\ port53 \in BOOLEAN
  /\ replied = FALSE /\ replies = <<>>
  /\ sent \in 0 .. Whole
  /\ ends \in IF sent = Whole THEN {"goes on"} ELSE {"eof", "silence"}
  /\ isQuery \in BOOLEAN
  /\ taken = 0 /\ pending = 0 /\ query = 0
  /\ ue = 0 /\ exchanges = 0 /\ open = {}
  /\ asked = [x \in Exchanges |-> {}] /\ inbox = [x \in Exchanges |-> <<>>]
  /\ duplicated = 0 /\ answers = <<>>

-----------------------------------------------------------------------------
(* connectHandler: port 53 is taken for DNS, with the reply first. *)
connectHandler ==
  /\ pc = "accepted"
  /\ IF port53
       THEN \/ replies' = <<"success">> /\ pc' = "first"
            \/ replies' = replies /\ pc' = "ended"       \* the reply cannot be written
       ELSE replies' = replies /\ pc' = "route"
  /\ UNCHANGED <<client, replied, taken, pending, query, session, net, answers>>

(* readFirstTCPDNS: the length prefix, then the body.  io.ReadFull says    *)
(* io.EOF when not one byte of its part came, and that ends the            *)
(* connection, also after a whole prefix; any other failure returns the    *)
(* bytes consumed, but those of an incomplete length prefix are not among  *)
(* them.  A prefix whose length is out of range fails before its body.     *)
readFirstTCPDNS ==
  /\ pc = "first"
  /\ taken' = sent
  /\ pending' = IF sent < LengthPrefix THEN 0 ELSE sent
  /\ \/ sent \in {0, LengthPrefix} /\ ends = "eof" /\ pc' = "ended"
     \/ ~(sent = 0 /\ ends = "eof") /\ pc' = "judge"
  /\ UNCHANGED <<client, replied, replies, query, session, net, answers>>

(* Mutant: the fallback routes the connection as one without a reply. *)
fallbackTCPDNSUnreplied ==
  /\ pc = "judge"
  /\ IF taken = Whole /\ isQuery
       THEN pc' = "resolve" /\ query' = 1 /\ pending' = 0
       ELSE pc' = "route" /\ UNCHANGED <<query, pending>>
  /\ UNCHANGED <<client, replied, replies, taken, session, net, answers>>

(* A query is resolved; anything else is relayed, with the bytes read so   *)
(* far in front (fallbackTCPDNS).                                          *)
fallbackTCPDNS ==
  /\ pc = "judge"
  /\ IF taken = Whole /\ isQuery
       THEN pc' = "resolve" /\ query' = 1 /\ pending' = 0 /\ UNCHANGED replied
       ELSE pc' = "route" /\ replied' = TRUE /\ UNCHANGED <<query, pending>>
  /\ UNCHANGED <<client, replies, taken, session, net, answers>>

-----------------------------------------------------------------------------
(* The end of a request that was refused: a reply only if none went out. *)
reject(code) == replies' = IF replied THEN replies ELSE Append(replies, code)

(* routeTCPReplied, after routePolicy.decide. *)
routeTCPReplied ==
  /\ pc = "route"
  /\ \E decision \in Decisions :
       \/ decision \in {"block", "ipv6 rejected"} /\ reject("refused") /\ pc' = "ended"
       \/ decision = "direct" /\ pc' = "dial" /\ UNCHANGED replies
       \/ decision = "proxy" /\ pc' = "stream" /\ UNCHANGED replies
  /\ UNCHANGED <<client, replied, taken, pending, query, session, net, answers>>

(* directTCPConnect: the dial and its reply. *)
directTCPConnect ==
  /\ pc = "dial"
  /\ \/ reject("unreachable") /\ pc' = "ended"
     \/ reject("success") /\ pc' = "relay"
  /\ UNCHANGED <<client, replied, taken, pending, query, session, net, answers>>

(* The tunnel: the success reply comes before the stream is opened. *)
OpenTCPStream ==
  /\ pc = "stream"
  /\ reject("success")
  /\ pc' \in {"relay", "ended"}
  /\ UNCHANGED <<client, replied, taken, pending, query, session, net, answers>>

RelayEnds ==
  /\ pc = "relay"
  /\ pc' = "ended"
  /\ UNCHANGED <<client, socks, query, session, net, answers>>

-----------------------------------------------------------------------------
(* resolve: a blocked name, a cached answer or a direct query is answered  *)
(* at once; the other queries go through the tunnel.                       *)
resolve ==
  /\ pc = "resolve"
  /\ \/ pc' = "write" /\ answers' \in {Append(answers, query), Append(answers, ServFail)}
     \/ pc' = "exchange" /\ UNCHANGED answers
  /\ UNCHANGED <<client, socks, query, session, net>>

(* tcpDNSSession.invalidate: the exchange is closed and forgotten. *)
invalidate ==
  /\ open' = open \ {ue}
  /\ ue' = 0

Failed ==
  /\ answers' = Append(answers, ServFail)
  /\ pc' = "write"

(* resolveProxy: the exchange is opened with the query, or reused for it. *)
resolveProxy ==
  /\ pc = "exchange"
  /\ \/ /\ ue = 0
        /\ exchanges' = exchanges + 1
        /\ ue' = exchanges' /\ open' = open \cup {exchanges'}
        /\ asked' = [asked EXCEPT ![exchanges'] = @ \cup {query}]
        /\ pc' = "wait" /\ UNCHANGED answers
     \/ /\ ue = 0 /\ Failed /\ UNCHANGED session        \* no stream
     \/ /\ ue # 0
        /\ asked' = [asked EXCEPT ![ue] = @ \cup {query}]
        /\ pc' = "wait" /\ UNCHANGED <<ue, exchanges, open, answers>>
     \/ /\ ue # 0 /\ invalidate /\ Failed               \* Send fails
        /\ UNCHANGED <<exchanges, asked>>
  /\ UNCHANGED <<client, socks, query, net>>

(* The resolver's answer arrives, once or twice, or never. *)
Deliver(x) ==
  /\ x \in open
  /\ \/ \E q \in asked[x] :
          /\ inbox' = [inbox EXCEPT ![x] = Append(@, q)]
          /\ asked' = [asked EXCEPT ![x] = @ \ {q}]
          /\ UNCHANGED duplicated
     \/ /\ duplicated < MaxDup /\ inbox[x] # <<>>
        /\ duplicated' = duplicated + 1
        /\ inbox' = [inbox EXCEPT ![x] = Append(@, Head(@))]
        /\ UNCHANGED asked
  /\ UNCHANGED <<pc, client, socks, query, ue, exchanges, open, answers>>

(* Mutant: an exchange that timed out is kept for the next query. *)
waitResponseKeeps ==
  /\ pc = "wait"
  /\ \/ /\ inbox[ue] # <<>>
        /\ answers' = Append(answers, Head(inbox[ue]))
        /\ inbox' = [inbox EXCEPT ![ue] = Tail(@)]
        /\ pc' = "write" /\ UNCHANGED <<ue, open>>
     \/ /\ Failed /\ UNCHANGED <<inbox, ue, open>>
  /\ UNCHANGED <<client, socks, query, exchanges, asked, duplicated>>

(* waitResponse: the next datagram of the exchange is the answer, its ID   *)
(* is set to the query's; a timeout, an error or an unreadable datagram    *)
(* gives the exchange up.                                                  *)
waitResponse ==
  /\ pc = "wait"
  /\ \/ /\ inbox[ue] # <<>>
        /\ answers' = Append(answers, Head(inbox[ue]))
        /\ inbox' = [inbox EXCEPT ![ue] = Tail(@)]
        /\ pc' = "write" /\ UNCHANGED <<ue, open>>
     \/ /\ Failed /\ invalidate /\ UNCHANGED inbox
  /\ UNCHANGED <<client, socks, query, exchanges, asked, duplicated>>

(* The answer is written and the next query read; an idle client, one that *)
(* leaves and one that sends something else end the connection.            *)
writeTCPDNSMessage ==
  /\ pc = "write"
  /\ pc' \in {"next", "closing"}
  /\ UNCHANGED <<client, socks, query, session, net, answers>>

readTCPDNSMessage ==
  /\ pc = "next"
  /\ \/ query < MaxQueries /\ query' = query + 1 /\ pc' = "resolve"
     \/ pc' = "closing" /\ UNCHANGED query
  /\ UNCHANGED <<client, socks, session, net, answers>>

(* Mutant: the session does not give its exchange back. *)
closeSessionLeaves ==
  /\ pc = "closing"
  /\ pc' = "ended" /\ UNCHANGED <<ue, open>>
  /\ UNCHANGED <<client, socks, query, exchanges, asked, net, answers>>

(* defer sess.close() *)
closeSession ==
  /\ pc = "closing"
  /\ invalidate
  /\ pc' = "ended"
  /\ UNCHANGED <<client, socks, query, exchanges, asked, net, answers>>

ConnectNext ==
  \/ connectHandler \/ readFirstTCPDNS \/ fallbackTCPDNS
  \/ routeTCPReplied \/ directTCPConnect \/ OpenTCPStream \/ RelayEnds
  \/ resolve \/ resolveProxy \/ waitResponse
  \/ writeTCPDNSMessage \/ readTCPDNSMessage \/ closeSession
  \/ \E x \in Exchanges : Deliver(x)

ConnectSpec == ConnectInit /\ [][ConnectNext]_connectVars

-----------------------------------------------------------------------------
(* One SOCKS reply at most: a second one would be taken for data of the    *)
(* target (the comment of routeTCPReplied), also after a fallback.         *)
RepliedOnce == Len(replies) <= 1

(* Every TCP DNS query gets one answer, in order, and the answer to        *)
(* another query only if the network had delivered a datagram twice: an    *)
(* answer that comes after its timeout is never given to the next query.   *)
AnswersOwn ==
  /\ Len(answers) \in {query, query - 1} \cup (IF query = 0 THEN {0} ELSE {})
  /\ duplicated = 0 => \A i \in 1 .. Len(answers) : answers[i] \in {i, ServFail}

(* A connection that ended holds no exchange of the pool. *)
NoExchangeLeft == pc = "ended" => open = {}

(* What a SOCKS connection relies on. *)
ConnectSound == RepliedOnce /\ AnswersOwn /\ NoExchangeLeft

(* dnstcp.go: "失败时返回已消耗的字节 ... 回退中继必须把它原样还给目标":    *)
(* what was read of a first message that is no DNS query is handed to the  *)
(* relay.                                                                  *)
NothingLost == pc \in {"dial", "stream", "relay"} => pending = taken
=============================================================================
