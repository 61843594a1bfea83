------------------------------ MODULE NextProxy ------------------------------
(***************************************************************************)
(* The server's next proxy (server/nextproxy): the rules that send a       *)
(* target to an upstream SOCKS5 proxy, what they learn from DNS answers    *)
(* (server/handler/udp_dns.go), and the UDP associations held with that    *)
(* proxy, each a TCP control connection and a UDP relay socket.            *)
(*                                                                         *)
(* A host name is its sequence of labels, an address a model value.        *)
(***************************************************************************)
EXTENDS Naturals, Sequences, FiniteSets, Functions

CONSTANTS
  Zone,              \* what DNS answers: a function from names to sequences of names and IPs
  IPs,               \* addresses
  FileDomains,       \* the domains of the rule file
  Learners,          \* UDP sessions that see DNS answers
  maxLearnedEntries, \* limit of the names, and of the addresses, learned
  Associations       \* UDP associations

VARIABLES
  domains, ips,      \* the rule set
  learnedDomains, learnedIPs,  \* what was charged to the learning limits
  pending,           \* of a learner: the answers not yet applied
  dial,              \* of an association: how far its dialing is
  control, relay,    \* of an association: its sockets
  monitor,           \* of an association: the goroutine on the control connection
  read               \* of an association: the Read of the UDP session

learning == <<domains, ips, learnedDomains, learnedIPs, pending>>
associations == <<dial, control, relay, monitor, read>>
vars == <<learning, associations>>

ZoneNames == DOMAIN Zone

TypeOK ==
  /\ domains \subseteq ZoneNames /\ ips \subseteq IPs
  /\ learnedDomains \in 0 .. maxLearnedEntries /\ learnedIPs \in 0 .. maxLearnedEntries
  /\ pending \in [Learners -> Seq(ZoneNames \cup IPs)]
  /\ dial \in [Associations -> {"idle", "handshake", "relay", "deadline", "up", "failed"}]
  /\ control \in [Associations -> {"none", "open", "dropped", "closed"}]
  /\ relay \in [Associations -> {"none", "open", "closed"}]
  /\ monitor \in [Associations -> {"off", "reading", "ended"}]
  /\ read \in [Associations -> {"idle", "blocked", "failed"}]

Init ==
  /\ domains = FileDomains /\ ips = {} /\ learnedDomains = 0 /\ learnedIPs = 0
  /\ pending = [l \in Learners |-> <<>>]
  /\ dial = [a \in Associations |-> "idle"]
  /\ control = [a \in Associations |-> "none"] /\ relay = [a \in Associations |-> "none"]
  /\ monitor = [a \in Associations |-> "off"] /\ read = [a \in Associations |-> "idle"]

-----------------------------------------------------------------------------
(* A name matches a rule by itself or by a parent of at least two labels.  *)
SubDomains(name) == {SubSeq(name, i, Len(name)) : i \in 2 .. Len(name) - 1}
HasDomain(set, name) == name \in set \/ SubDomains(name) \cap set # {}

(* Mutant: every answer is learned.                                        *)
learnFromDNSAny(l, name) ==
  /\ pending[l] = <<>>
  /\ pending' = [pending EXCEPT ![l] = Zone[name]]
  /\ UNCHANGED <<domains, ips, learnedDomains, learnedIPs, associations>>

(* A session sees the answer to a query for the name.                      *)
learnFromDNS(l, name) ==
  /\ pending[l] = <<>> /\ HasDomain(domains, name)
  /\ pending' = [pending EXCEPT ![l] = Zone[name]]
  /\ UNCHANGED <<domains, ips, learnedDomains, learnedIPs, associations>>

(* AddDomain and AddIP: the limit and the insertion are one critical       *)
(* section; what is there already costs nothing.                           *)
AddDomain(l) ==
  /\ pending[l] # <<>> /\ Head(pending[l]) \in ZoneNames
  /\ pending' = [pending EXCEPT ![l] = Tail(@)]
  /\ LET name == Head(pending[l])
         new == learnedDomains < maxLearnedEntries /\ name \notin domains IN
     /\ domains' = IF new THEN domains \cup {name} ELSE domains
     /\ learnedDomains' = IF new THEN learnedDomains + 1 ELSE learnedDomains
  /\ UNCHANGED <<ips, learnedIPs, associations>>

AddIP(l) ==
  /\ pending[l] # <<>> /\ Head(pending[l]) \in IPs
  /\ pending' = [pending EXCEPT ![l] = Tail(@)]
  /\ LET ip == Head(pending[l])
         new == learnedIPs < maxLearnedEntries /\ ip \notin ips IN
     /\ ips' = IF new THEN ips \cup {ip} ELSE ips
     /\ learnedIPs' = IF new THEN learnedIPs + 1 ELSE learnedIPs
  /\ UNCHANGED <<domains, learnedDomains, associations>>

-----------------------------------------------------------------------------
(* dialUDPAssociate, one step for each thing that can fail.                *)
dialProxyTCP(a) ==
  /\ dial[a] = "idle"
  /\ \/ dial' = [dial EXCEPT ![a] = "handshake"] /\ control' = [control EXCEPT ![a] = "open"]
     \/ dial' = [dial EXCEPT ![a] = "failed"] /\ UNCHANGED control
  /\ UNCHANGED <<learning, relay, monitor, read>>

fail(a) == dial' = [dial EXCEPT ![a] = "failed"] /\ control' = [control EXCEPT ![a] = "closed"]

(* The handshake and the address of the relay.                             *)
Handshake(a) ==
  /\ dial[a] = "handshake"
  /\ \/ dial' = [dial EXCEPT ![a] = "relay"] /\ UNCHANGED control
     \/ fail(a)
  /\ UNCHANGED <<learning, relay, monitor, read>>

DialRelay(a) ==
  /\ dial[a] = "relay"
  /\ \/ /\ dial' = [dial EXCEPT ![a] = "deadline"] /\ relay' = [relay EXCEPT ![a] = "open"]
        /\ UNCHANGED control
     \/ fail(a) /\ UNCHANGED relay
  /\ UNCHANGED <<learning, monitor, read>>

(* Mutant: the last failure forgets the relay socket.                      *)
ClearDeadlineLeaks(a) ==
  /\ dial[a] = "deadline"
  /\ \/ /\ dial' = [dial EXCEPT ![a] = "up"] /\ monitor' = [monitor EXCEPT ![a] = "reading"]
        /\ UNCHANGED <<control, relay>>
     \/ fail(a) /\ UNCHANGED <<monitor, relay>>
  /\ UNCHANGED <<learning, read>>

(* The dial deadline is taken off the control connection, and its monitor  *)
(* starts.                                                                 *)
ClearDeadline(a) ==
  /\ dial[a] = "deadline"
  /\ \/ /\ dial' = [dial EXCEPT ![a] = "up"] /\ monitor' = [monitor EXCEPT ![a] = "reading"]
        /\ UNCHANGED <<control, relay>>
     \/ fail(a) /\ relay' = [relay EXCEPT ![a] = "closed"] /\ UNCHANGED monitor
  /\ UNCHANGED <<learning, read>>

(* Close of the association, by the session or by the monitor.             *)
CloseBoth(a) ==
  /\ relay' = [relay EXCEPT ![a] = "closed"] /\ control' = [control EXCEPT ![a] = "closed"]

Close(a) ==
  /\ dial[a] = "up" /\ relay[a] = "open" /\ CloseBoth(a)
  /\ UNCHANGED <<learning, dial, monitor, read>>

(* Mutant: the monitor only notes that the association is gone.            *)
monitorControlOnly(a) ==
  /\ monitor[a] = "reading" /\ control[a] \in {"dropped", "closed"}
  /\ monitor' = [monitor EXCEPT ![a] = "ended"]
  /\ UNCHANGED <<learning, dial, control, relay, read>>

(* The control connection ended: the datagram side goes with it.           *)
monitorControl(a) ==
  /\ monitor[a] = "reading" /\ control[a] \in {"dropped", "closed"}
  /\ monitor' = [monitor EXCEPT ![a] = "ended"] /\ CloseBoth(a)
  /\ UNCHANGED <<learning, dial, read>>

Read(a) ==
  /\ dial[a] = "up"
  /\ \/ read[a] = "idle" /\ read' = [read EXCEPT ![a] = "blocked"]
     \/ read[a] = "blocked" /\ relay[a] = "open" /\ read' = [read EXCEPT ![a] = "idle"]
     \/ read[a] = "blocked" /\ relay[a] = "closed" /\ read' = [read EXCEPT ![a] = "failed"]
  /\ UNCHANGED <<learning, dial, control, relay, monitor>>

(* The environment: the upstream proxy drops the control connection.       *)
Drop(a) ==
  /\ control[a] = "open" /\ control' = [control EXCEPT ![a] = "dropped"]
  /\ UNCHANGED <<learning, dial, relay, monitor, read>>

-----------------------------------------------------------------------------
Next ==
  \/ \E l \in Learners : (\E name \in ZoneNames : learnFromDNS(l, name)) \/ AddDomain(l) \/ AddIP(l)
  \/ \E a \in Associations :
       \/ dialProxyTCP(a) \/ Handshake(a) \/ DialRelay(a) \/ ClearDeadline(a)
       \/ Close(a) \/ monitorControl(a) \/ Read(a) \/ Drop(a)

Spec == Init /\ [][Next]_vars

(* The goroutines run; a read of a closed socket returns.                  *)
Fairness ==
  \A a \in Associations :
    WF_vars(monitorControl(a)) /\ WF_vars(relay[a] = "closed" /\ Read(a))

-----------------------------------------------------------------------------
(* What the rules learn hangs on what was configured, through answers: a   *)
(* name or an address is learned only when a chain of answers leads to it  *)
(* from a name under a configured domain, and never more than the limit.   *)
Step(set) == set \cup UNION {Range(Zone[n]) : n \in {m \in ZoneNames : HasDomain(set \cap ZoneNames, m)}}

LearnedFromConfigured ==
  /\ Cardinality(domains \ FileDomains) <= maxLearnedEntries
  /\ Cardinality(ips) <= maxLearnedEntries
  /\ domains \cup ips \subseteq Step(Step(Step(FileDomains)))

(* A dialing that fails, and an association that ended, leave no socket.   *)
NoSocketLeft ==
  \A a \in Associations :
    /\ dial[a] = "failed" => control[a] \in {"none", "closed"} /\ relay[a] \in {"none", "closed"}
    /\ monitor[a] = "ended" => relay[a] = "closed" /\ control[a] = "closed"

(* When the upstream proxy drops an association, a Read blocked on its     *)
(* datagrams comes back.                                                   *)
NoneBlocked ==
  \A a \in Associations : dial[a] = "up" /\ control[a] \in {"dropped", "closed"} => read[a] # "blocked"
DropUnblocks == []<>NoneBlocked
=============================================================================
