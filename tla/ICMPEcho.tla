------------------------------ MODULE ICMPEcho ------------------------------
(***************************************************************************)
(* A ping through the tunnel: the TUN handler of the client                *)
(* (client/tun/icmp.go), its one-shot stream (client/proxy/stream.go) and  *)
(* the exchange of the server (server/handler/icmp.go).  A raw socket of   *)
(* the server gets every reply that comes from its target, also those to   *)
(* other exchanges, late ones and duplicates.                              *)
(***************************************************************************)
EXTENDS Naturals

CONSTANTS
  Pings,     \* echo requests, each with data of its own
  Targets,
  Numbers,   \* identifiers and sequence numbers the pingers use
  Blocked,   \* targets a rule blocks
  Direct,    \* targets a rule sends out directly
  IDWidth    \* echo identifiers of the server, modulo this: more than there are pings

VARIABLES
  pkt,      \* of a ping: target, id and seq
  client,   \* of a ping: where the client is with it
  server,   \* of a ping: where the exchange is
  echoID,   \* icmpEchoID
  sentAs,   \* of a ping: the identifier the server sent it with
  wire,     \* replies on their way to the server
  socket,   \* of an exchange: replies its socket holds
  grown,    \* of an exchange: the read buffer has the largest size
  answer,   \* of an exchange: what it returned
  reply     \* of a ping: the reply the pinger got

icmpVars == <<pkt, client, server, echoID, sentAs, wire, socket, grown, answer, reply>>

Packets == [dst : Targets, id : Numbers, seq : Numbers]
Replies == [dst : Targets, id : 0..(IDWidth - 1), seq : Numbers, data : Pings]
Answers == [id : Numbers, seq : Numbers, data : Pings]
NoAnswer == [id |-> 0]

ICMPTypeOK ==
  /\ pkt \in [Pings -> Packets]
  /\ client \in [Pings -> {"idle", "open", "waiting", "replied", "dropped", "failed"}]
  /\ server \in [Pings -> {"none", "dial", "send", "read", "answered", "failed"}]
  /\ echoID \in 0..(IDWidth - 1) /\ sentAs \in [Pings -> 0..(IDWidth - 1)]
  /\ wire \subseteq Replies /\ socket \in [Pings -> SUBSET Replies] /\ grown \in [Pings -> BOOLEAN]
  /\ answer \in [Pings -> Answers \cup {NoAnswer}] /\ reply \in [Pings -> Answers \cup {NoAnswer}]

ICMPInit ==
  /\ pkt \in [Pings -> Packets] /\ echoID = 0 /\ sentAs = [p \in Pings |-> 0] /\ wire = {}
  /\ client = [p \in Pings |-> "idle"] /\ server = [p \in Pings |-> "none"]
  /\ socket = [p \in Pings |-> {}] /\ grown = [p \in Pings |-> FALSE]
  /\ answer = [p \in Pings |-> NoAnswer] /\ reply = [p \in Pings |-> NoAnswer]

-----------------------------------------------------------------------------
(* HandlePacket: only a target the proxy rule is for goes on.              *)
HandlePacket(p) ==
  /\ client[p] = "idle"
  /\ client' = [client EXCEPT ![p] = IF pkt[p].dst \in Blocked \cup Direct THEN "dropped" ELSE "open"]
  /\ UNCHANGED <<pkt, server, echoID, sentAs, wire, socket, grown, answer, reply>>

(* The stream is opened with the echo in its first record, or is not.      *)
icmpStream(p) ==
  /\ client[p] = "open"
  /\ \/ client' = [client EXCEPT ![p] = "waiting"] /\ server' = [server EXCEPT ![p] = "dial"]
     \/ client' = [client EXCEPT ![p] = "failed"] /\ UNCHANGED server
  /\ UNCHANGED <<pkt, echoID, sentAs, wire, socket, grown, answer, reply>>

(* The five seconds of processProxyICMP are over: the stream is closed.    *)
ClientTimeout(p) ==
  /\ client[p] = "waiting" /\ client' = [client EXCEPT ![p] = "failed"]
  /\ UNCHANGED <<pkt, server, echoID, sentAs, wire, socket, grown, answer, reply>>

(* sendICMPv4Reply, sendICMPv6Reply: the echo of the answer, with the      *)
(* type of a reply, from the target to the pinger.                         *)
SendReply(p) ==
  /\ client[p] = "waiting" /\ server[p] = "answered"
  /\ client' = [client EXCEPT ![p] = "replied"] /\ reply' = [reply EXCEPT ![p] = answer[p]]
  /\ UNCHANGED <<pkt, server, echoID, sentAs, wire, socket, grown, answer>>

(* The server answers with a RST when the exchange failed.                 *)
Rejected(p) ==
  /\ client[p] = "waiting" /\ server[p] = "failed" /\ client' = [client EXCEPT ![p] = "failed"]
  /\ UNCHANGED <<pkt, server, echoID, sentAs, wire, socket, grown, answer, reply>>

-----------------------------------------------------------------------------
DialTarget(p) ==
  /\ server[p] = "dial" /\ server' = [server EXCEPT ![p] = "send"]
  /\ UNCHANGED <<pkt, client, echoID, sentAs, wire, socket, grown, answer, reply>>

(* Mutant: the exchange keeps the identifier the pinger chose.             *)
nextICMPEchoIDClient(p) == pkt[p].id % IDWidth

nextICMPEchoID(p) == (echoID + 1) % IDWidth

(* The request with the identifier of the server; the target may answer.   *)
SendEcho(p) ==
  LET id == nextICMPEchoID(p)
      echo == [dst |-> pkt[p].dst, id |-> id, seq |-> pkt[p].seq, data |-> p] IN
  /\ server[p] = "send" /\ server' = [server EXCEPT ![p] = "read"]
  /\ echoID' = id /\ sentAs' = [sentAs EXCEPT ![p] = id]
  /\ wire' \in {wire, wire \cup {echo}}
  /\ UNCHANGED <<pkt, client, socket, grown, answer, reply>>

(* The kernel: a reply goes to every open socket of its target.  It may    *)
(* come a second time, and late.                                           *)
Deliver(r) ==
  /\ r \in wire
  /\ socket' = [p \in Pings |-> IF server[p] \in {"send", "read"} /\ pkt[p].dst = r.dst
                                  THEN socket[p] \cup {r} ELSE socket[p]]
  /\ wire' \in {wire, wire \ {r}}
  /\ UNCHANGED <<pkt, client, server, echoID, sentAs, grown, answer, reply>>

(* Mutant: the sequence number alone tells the replies apart.              *)
matchesSeq(p, r) == r.seq = pkt[p].seq

matches(p, r) == r.id = sentAs[p] /\ r.seq = pkt[p].seq

(* icmpExchange reads on until a reply matches; the identifier of the      *)
(* pinger is put back.  A reply that fills the first buffer is lost, and   *)
(* the buffer grows.                                                       *)
ReadEcho(p, r) ==
  /\ server[p] = "read" /\ r \in socket[p]
  /\ \/ matches(p, r) /\ server' = [server EXCEPT ![p] = "answered"]
        /\ answer' = [answer EXCEPT ![p] = [id |-> pkt[p].id, seq |-> pkt[p].seq, data |-> r.data]]
        /\ socket' = [socket EXCEPT ![p] = {}] /\ UNCHANGED grown
     \/ ~matches(p, r) /\ socket' = [socket EXCEPT ![p] = @ \ {r}] /\ UNCHANGED <<server, answer, grown>>
     \/ ~grown[p] /\ grown' = [grown EXCEPT ![p] = TRUE] /\ socket' = [socket EXCEPT ![p] = @ \ {r}]
        /\ UNCHANGED <<server, answer>>
  /\ UNCHANGED <<pkt, client, echoID, sentAs, wire, reply>>

(* The target cannot be dialed, or the deadline of the exchange is over.   *)
ExchangeFails(p) ==
  /\ server[p] \in {"dial", "send", "read"} /\ server' = [server EXCEPT ![p] = "failed"]
  /\ socket' = [socket EXCEPT ![p] = {}]
  /\ UNCHANGED <<pkt, client, echoID, sentAs, wire, grown, answer, reply>>

ICMPNext ==
  \/ \E p \in Pings :
       \/ HandlePacket(p) \/ icmpStream(p) \/ ClientTimeout(p) \/ SendReply(p) \/ Rejected(p)
       \/ DialTarget(p) \/ SendEcho(p) \/ ExchangeFails(p) \/ \E r \in socket[p] : ReadEcho(p, r)
  \/ \E r \in wire : Deliver(r)

ICMPSpec == ICMPInit /\ [][ICMPNext]_icmpVars

-----------------------------------------------------------------------------
(* A pinger gets the reply to its own request, with the identifier it      *)
(* used, although exchanges with the same target, identifier and sequence  *)
(* number run side by side and see each other's replies.                   *)
OwnReply ==
  \A p \in Pings : reply[p] # NoAnswer =>
    reply[p] = [id |-> pkt[p].id, seq |-> pkt[p].seq, data |-> p]
=============================================================================
