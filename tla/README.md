# TLA+ models of easyss

easyss is a proxy. A client takes SOCKS5, HTTP, DNS and TUN traffic; a server dials the targets; between them run
encrypted, shaped streams over a pool of HTTP/2 connections. These modules model the client's transport and proxy
machinery, its entrances and name resolution, the processes around it on the user's machine, and the server. File and
line of every definition are in `PROJECT.json` ("map"); paths below are relative to the repository's root.

## The system's parts

**Transport** (client side, `transport/http2`, `shaper`, `crypto/record.go`)

| part | code | state that changes | module |
|---|---|---|---|
| shaper, record writer | `shaper/`, `crypto/record.go` | plaintext buffer, flush timer, ticket lock, cover budget, nonce counter | `Shaper`, `FramePipe` |
| slot | `transport/http2/slot.go`, `client.go`, `stream.go` | generation, connection identity, flags, deadline | `SlotGeneration` |
| scheduler | `transport/http2/scheduler.go` | two pools of slots, live range, stream counts | `Scheduler` |
| health loop, probes | `transport/http2/lifecycle.go`, `probe.go` | cycle counters, suspicion, verdicts | `SlotHealth` |
| suspend detection | `transport/http2/lifecycle.go` | baseline of the clock divergence | `SuspendSampler` |

**Client proxy** (`client/proxy`, `relay`)

| part | code | state that changes | module |
|---|---|---|---|
| opening a stream | `stream.go` | attempts, verdicts on connections | `Bootstrap` |
| UDP exchanges, direct sockets | `udp_pool.go`, `udp.go` | maps, singleflight, receive loops | `UDPPool`, `DirectUDP` |
| one UDP exchange | `stream.go` | closed flag, write mutex, FIN, grace timer | `UDPExchange` |
| TCP stream | `stream.go`, `relay/relay.go` | read-ahead queue, results, idle clock | `StreamRelay` |
| SOCKS5 CONNECT, DNS over TCP | `socks5.go`, `dnstcp.go`, `dns_tcp.go` | replies, bytes read ahead, the exchange | `SocksConnect` |
| SOCKS5 UDP ASSOCIATE | `socks5.go` | sockets, the table Close empties | `SocksUDP` |
| HTTP proxy | `http_proxy.go` | own addresses, idle upstream connections | `HTTPProxy` |
| DNS interception | `dns.go`, `dns_exec.go`, `dns_udp.go` | answer cache, learned addresses, shared exchanges | `DNSIntercept` |
| rules and their cache | `client/router/router.go`, `udp_route_cache.go` | rules, generation, cached verdicts | `Routing` |

**Client core and the user's machine** (`client`, `runner`, `cmd/easyss`, `selfupdate`)

| part | code | state that changes | module |
|---|---|---|---|
| resolvers | `client/dns/builtin.go`, `system.go`, `forward.go` | breaker, cached list, the race for an answer | `DNSUpstream` |
| the server's own name | `client/dns/cache.go`, `preferred.go` | budget, resolvers that answered | `PreResolve` |
| direct dialer | `client/client.go` | binding to an interface, dial budget | `DirectDialer` |
| TUN manager | `client/tun` | engine, descriptor, routes, ownership of the teardown | `TunManager` |
| TUN helper | `cmd/easyss/internal/tunhelper` | device, routes, resolver, file lock | `TunHelper` |
| session | `cmd/easyss/internal/app` | core, TUN session, selected server, two mutexes | `TunSession` |
| core | `runner` | ports, servers, retry of the server's name | `Runner` |
| system proxy | `cmd/easyss/internal/sysproxy`, `app` | desktop settings and their snapshot | `SysProxy` |
| update menu, update | `cmd/easyss/internal/tray/update.go`, `selfupdate` | menu state; files on disk | `Updater`, `SelfUpdate` |
| single instance | `cmd/easyss/internal/singleton` | lock file | `Singleton` |

**Server** (`server`)

| part | code | state that changes | module |
|---|---|---|---|
| request | `handler/serve.go`, `saltcache.go`, `crypto/session.go` | header texts seen, timers, the response | `ServeRequest` |
| rate limit | `handler/ratelimit.go` | buckets | `RateLimit` |
| UDP session | `handler/udp.go`, `udp_dns.go` | upstream connection, readers | `ServerUDP` |
| resolution and dialing | `handler/session.go`, `resolve_cache.go` | candidates, budget; cached names | `Outbound` |
| ping, both ends | `handler/icmp.go`, `client/tun/icmp.go` | identifiers, raw sockets | `ICMPEcho` |
| next proxy | `nextproxy` | rules learned, UDP association | `NextProxy` |
| start and shutdown | `server.go`, `cmd/easyss-server/main.go` | certificate caches, listeners | `ServerLifecycle` |
| fallback site | `handler/fallback*.go` | page cache; the mirrored site | `Fallback` |

How they interact. A datagram or connection comes in through `SocksUDP`, `SocksConnect`, `HTTPProxy` or the TUN device;
`Routing` says whether it is blocked, dialed directly (`DirectDialer`, `DirectUDP`) or sent through the tunnel, and
`DNSIntercept` and `DNSUpstream` answer its names. A call through the tunnel asks `Scheduler` for a slot; the slot's
current generation (`SlotGeneration`) gives or dials a connection; `Bootstrap` opens the stream on it and judges the
connection by the answer; `UDPExchange` or `StreamRelay` then moves data through a `Shaper`, one per direction. The
health loop (`SlotHealth`) and the suspend detector (`SuspendSampler`) decide which slots are degraded, due for rotation
or to be verified again. On the server `RateLimit` and `ServeRequest` admit the stream, `Outbound` or `NextProxy` reach
the target, `ServerUDP`, `StreamRelay` and `ICMPEcho` carry the data, and `Fallback` answers everybody else. Around the
client `Runner`, `TunSession`, `TunManager`, `TunHelper` and `SysProxy` set up and undo what the machine sees of it.

Each module keeps the effect of its neighbours as a choice that is open at every moment (a slot may become degraded at
any time in `Scheduler`, a connection may die at any time in `Bootstrap`), so what holds there holds for every
behaviour of the neighbour.

## Modules

A step is one critical section or one atomic operation of the code, or a run of them whose middle no other goroutine can
tell from its ends. Payloads, names and clocks are abstracted: a frame is its encoded size or what is done with it, a
name is a model value or a sequence of labels, a timer or a limit may be found expired whenever the code looks; where
budgets matter (`DirectDialer`, `PreResolve`, `Outbound`, `DNSUpstream`, `RateLimit`, `StreamRelay`) time is in ticks.

**`Shaper`** models `BatchingShaper`: pushing a frame with its pre-flush, the swap that takes the buffer and a ticket
under `bs.mu`, the write of the record when its turn comes under `writeMu`, the timer callback, the cover-traffic
injector with its budget, and Close in its four sections. The transport may fail any write. **`FramePipe`** is what it
promises: an in-order pipe that may break. `ImplementsPipe` is the refinement, with the frames in the records the peer
can decode as those delivered.

**`SlotGeneration`** models one slot. A generation is one net/http pool (external: it reuses a pooled connection, dials
one, or recycles one at any moment). Streams open, are verified again after a suspend under `reverifyMu`, lose their
connection and close; dials check their generation, reset the slot and publish their identity in separate steps; sweeps
mark suspects and retire idle connections; the health loop rotates; CloseIdle removes the slot and `grow` brings it
back. `takeConn`'s compare-and-swap, `retireGeneration`, `retireConn` and `invalidateConnIf` are steps of their own.

**`Scheduler`** has the choice of a slot as operators (tiers, pressure level, caps, scores, borrowing between the two
pools) and runs them in the pools: Opens that check, grow under the lock, pick and count in separate sections, against
streams that become heavy or end, the health loop's two-step removal of a degraded slot and CloseIdle.

**`SlotHealth`** is the health loop over one slot: throughput samples, persistence and recovery counts, hold windows,
suspicion, probes, confirmation, conviction, and retirement once no stream is on the slot. Between any two of its steps
streams come, become heavy and go, dials replace the connection, and the machine may sleep, which starts the sampling
anew.
**`SuspendSampler`** is `observeSuspend`: read the clocks, load the baseline, compare-and-swap, retry, report.

**`Bootstrap`** is `openAndBootstrap`: attempts on a chosen connection, the record, the wait for an answer, the verdict
(alive, dead, cancelled), the retry elsewhere. The probe before a verdict is answered, cut short by the caller, or not
answered in time, the last also on a connection that works. **`UDPPool`** and **`DirectUDP`** follow a datagram through lookup,
singleflight, open or dial, registration with eviction, sending, and the receive loop it may have to start, against
timeouts, cleanup and close. **`UDPExchange`** is Send against Close: mutex, FIN, grace period, cutting the stream.
**`StreamRelay`** is a TCP stream on the client: the read-ahead goroutine and its queue, the writer to the local
connection, the upload, and the relay's select over results, activity, draining and the idle timer.

**`SocksConnect`** follows one CONNECT: refusal, direct dial, stream, or, on port 53, a session of DNS over TCP that
answers query by query, keeps one exchange, reopens it, and falls back to the relay when the bytes are no DNS.
**`SocksUDP`** has the association's two goroutines, its control connection and the server's Close. **`HTTPProxy`** has
the checks on a request, the cached set of own addresses that recognises loops (and is empty when the interfaces could
not be listed), and the idle connections Close gives back: when its Shutdown has waited for the requests, or at a second
Close when it gave up waiting. **`Routing`** has the rules' precedence as operators, the setters that store a change and then count it, and the
cache of verdicts, whose generation is read before the lock. **`DNSIntercept`** decides for each query and
post-processes the answers that come back on a shared exchange; from them it learns which names, with the targets of
their CNAMEs, and which addresses belong to a list. **`DNSUpstream`** has the breaker over the built-in
resolvers, the cached list of the system's and its throttled drop, and, in its second half, the race of one query among
resolvers. **`PreResolve`** is the resolution of the server's name within one budget, which the discovery of the
system's resolvers also draws on; the breaker's cool-down and the discovered list run out on their own.

**`DirectDialer`** has dials bound to an interface, the refresh by a failed dial and by the loop, TUN mode, and the
server's addresses tried before its name. **`TunManager`** is Start, Stop and the teardown one of them owns;
**`TunHelper`** the privileged process, its FIFO and file lock, where the paths of FIFO and socket carry the client's
process number, so that a helper that is late finds those of whatever session that process has by then; **`TunSession`** switches of server and clicks on TUN
under `seqMu` and `tunMu`. **`Runner`** is Run, Stop and the retry of the server's name. **`SysProxy`** sets and undoes
the desktop's settings one command at a time; **`Updater`**, **`SelfUpdate`** and **`Singleton`** follow menu, files and
lock through failures (a removal of a file may fail too) and, for the last two, a kill between any two steps.

**`ServeRequest`** has the checks in their order, the salt cache (its key is the path with the text of the header), the timer of the first record that races its arrival,
the session, and the teardown a client that does not read can block. **`ServerUDP`** has the select of the session, one
reader per upstream connection, rebinds to another route and the cool-down after a failed one. **`Outbound`** has
candidates, order and budget of a dial, and the cache of names with its shared resolution. **`NextProxy`** has what DNS
answers teach and the association's control connection and relay socket. **`ServerLifecycle`** has Start against
Shutdown around the certificate caches. **`Fallback`** has the site's modes and page cache, and the mirrored site as a
round trip of URLs, whose hosts are sequences because the site's address is replaced as text. **`ICMPEcho`** follows a ping from the TUN device to the target and back.

The MC modules instantiate these for TLC. Most put components that share no state into one state space: a variable
`part`, chosen initially, says which of them moves, and the others stay as they began. The reachable states are the
union of those of the components, not their product, so every property is checked exactly as it would be on its
component alone. Where several components promise something of one kind (what must not be left behind, what must end),
the MC module states their promises as one property; its comment names the parts, and each has mutants of its own.

A definition marked "Mutant" in a comment is a plausible bug in the operation that follows it; it is no part of the
specification, and putting it in place of that operation makes TLC report the property it is paired with in
`PROJECT.json`.

## Runs

| run | shows | bounds |
|---|---|---|
| `shaper` | refinement of the in-order pipe, no record dropped by Close, no buffer kept, no record above the ceiling, the budget never negative; Close returns, and pushed data leaves without a later push or Close | 2 pushers, a timer callback, 2 closers, 3 frames; and a bulk pusher with padding and an injector, with a Close (3 frames) and without (4) |
| `slot` | one claim per connection; only connections found dead are closed under their streams, and only after the slot moved on; the identity a slot holds is never claimed or closed; an Open ends | 1 stream, a dial, a sweep and CloseIdle over 2 connections (a stale and a new one); 2 streams, dial, sweep, health loop over 1 |
| `pools` | no exchange or socket is lost from sight, one receive loop each, each datagram sent once, limits kept, close complete; pools keep their slots, slots in use stay in reach, slots due for eviction come last, growth only when needed, an impaired slot is preferred only if it is lighter, no overfilling while a pool can grow | 3 datagrams, 2 keys, capacity 1; a pool of 2 slots and one of 1, 2 Opens, 2 streams; the choice over loads on both sides of every level |
| `lifecycle` | a conviction rests on slow verdicts in a row; slow connections are convicted, a conviction ends when the slot stays fast or idle; no suspend missed; no stream left open by an attempt, working connections spared, retries elsewhere; every certificate cache of the server is stopped once | 2 connections, thresholds of 2; 3 samplers, 4 calls, a suspend, a drift of 1; 2 calls of 3 attempts over 3 connections; Start and 2 Shutdowns |
| `streams` | a clean end means that all was written, the relay and its goroutines end; nothing after the FIN, Close returns and frees blocked Sends; a ping gets its own reply; associations are owned by the table or by Close, replies go to the client | 3 frames down, 1 chunk up, queue of 1; 2 Sends, 2 Closes; 2 pings with 4 identifiers; 2 associations, 2 ports |
| `client` | one SOCKS reply, each TCP DNS query its own answer, no request loops back, no verdict older than its question; answers framed for their query and by its route, AAAA off means off, each resolver has its turn, a dead list of resolvers goes, positive answers win | 3 queries, a duplicated datagram; 2 HTTP requests; 2 destinations, 1 rule change, cache of 1; 2 intercepted queries to 2 resolvers; budget 8 with 2 each; 2 networks; 2 resolvers |
| `server` | sweeping forgets nothing; one reader per upstream, a replaced one is harmless, queries leave by their route; a header text opens one session, one answer per request, no late timer; only checked addresses are dialed, attempts share the budget, no stale name; a page and a mirrored URL lead to what was asked for (but a host that only begins with the site's name); sessions and teardowns end | 3 addresses, cap 2; 2 upstreams, 2 frames; 2 requests with one header text; 3 addresses, budget 5; 2 names, cache of 1; 2 visitors |
| `host` | Stop and failed Starts leave nothing; forwarding is announced only while it works; a killed client leaves the machine as it was; ports close in order; no dial through the TUN; settings back at exit; an update killed anywhere leaves a program; one instance; all of it ends | 2 Stops; 2 servers, 2 clicks, 1 switch; 2 helpers, 1 kill; 2 interfaces, 1 change; 1 click on the proxy; 2 releases; 3 processes |
| `slot_deadline`, `health_own`, `suspend_once`, `tcpdns_fallback` | four statements of comments that the code does not keep, each with a short trace | the smallest instance that shows it |

Why the bounds are enough: each lets the events meet that the properties are about, and the mutants show that they do.
Two of everything that races (streams, Sends, Closes, Stops, helpers, requests with one header text), one place where a limit
is to be met (caches, pools and queues hold one or two), one change of the world more than the code expects (a rule, an
interface, a network, a suspend), and budgets that the attempts together exceed. There are 4 identifiers of pings instead
of 65536 so that they wrap around.

Deadlock is not checked where the goroutines of the instance come to an end (all runs but `health_own`); that nobody
waits for ever is stated as liveness instead.

### Findings

* `slot_deadline`: a dial that outlives its stream can give a removed slot a live connection; `grow` then clears the
  deadline of that connection, and it is not rotated when its lifetime ends.
* `health_own`: `probeSlot` compares the identity and stores the verdict in two steps; a dial in between gets the old
  connection's verdict.
* `suspend_once`: the clock reading is taken before the compare-and-swap loop, so a sampler that read before a suspend
  can move the baseline back after it was counted, and the next one counts it again (`lifecycle.go:92`, comment at :32).
  The effect is one more round of verification.
* `tcpdns_fallback`: when fewer than two bytes arrive before the first read on port 53 ends, the byte that was read is
  not handed to the relay, although the comment says that consumed bytes are.

### Known disagreements without a run

Met while modelling; the properties are stated so that they hold of the code as it is.

* `relay/relay.go:45`: frames read ahead do not count as activity when they are written, so a stream can be drained
  while it still writes them to a slow local connection.
* `client/client.go:500`: the dialer and the interface it is bound to are two stores; two refreshes around a change of
  the interface can leave one's name with the other's dialer until the interface changes again.
* `cmd/easyss/internal/singleton`: after a Release has removed the path, an instance that opened the old file and one
  that makes a new one can both run; `LockHolds` excludes that case.
* `cmd/easyss/main.go:153`: `CleanupOld` runs before the single-instance lock is taken, and goes on trying while the
  program runs, so a second start, or the retries of the first, can remove what a running update has moved aside;
  `NeverLost` excludes updates that meet a cleanup (`overlapped`). A file whose removal fails during an update stays
  behind; `NothingLitters` excludes it (`stuck`).
* `cmd/easyss/internal/tunhelper`: the paths are those of the process, not of the session, so a helper that was given up
  can hand its device, or its failure, to the next session of the same client.
* `runner`: an attempt to resolve the server's name that is under way when it is cancelled still publishes its result;
  the property is that it ends with that attempt.
* `cmd/easyss/internal/tray/update.go`: a release can be announced twice when an older goroutine is overtaken.
* `SysProxy`: a click that overlaps the last revert at exit can win; Disable reports success when the desktop could not
  be reverted but the environment was; a value given to D-Bus stays.
* `SocksConnect`: a UDP datagram that the network duplicates can answer the next query of a TCP DNS session.
* `client/proxy/dnstcp.go:52`: an end of file right after a whole length prefix ends the connection, without handing the
  two bytes to the relay.
* `HTTPProxy`: a request that asks for a connection only after a Shutdown that gave up leaves an idle connection behind
  (`late`); interfaces that cannot be listed leave an empty set of own addresses for as long as it is cached.
* `client/dns/cache.go:411`: the discovery of the system's resolvers has no time of its own and uses the one reserved
  for asking them (`spent`).
* `server/handler/fallback_proxy.go`: replacing the site's address as text also changes a host that begins with it
  (`Beyond`).
* `HTTPProxy`: CONNECT takes over the connection without what its buffered reader already holds.

### Fairness

Only goroutines the Go scheduler runs are fair, and only in steps that do not wait for the network or for a peer.
Weak fairness on every step of a running goroutine; strong fairness on taking a mutex that others take again and again
(`reverifySlot`, `Lock`, `FinLock`), since Go's mutexes hand over to a starving waiter. In `Shaper` the write of a
record is fair because a transport write returns or fails. In `SlotGeneration` a probe ends, by its time limit. In
`StreamRelay` reads and writes are fair only once the connections are closed, and timers run on. In `UDPExchange` a
Push is fair only once the stream was cut. `SlotHealth` has a ticking loop, cooldowns and hold windows that run out,
and a dial that finishes; nothing is assumed about traffic, the link or when connections are lost. In `SocksUDP` the
request, the watcher (once the control connection is gone) and Close's loop; in `DNSUpstream` the branches of a race,
whose exchange ends with its context, and its timeout; in `ServerUDP` the steps of the teardown, and reads from targets
and from the client only once they were closed or the session is over; in `NextProxy` the watch on the control
connection, and reads from a closed relay; in `ServeRequest` the handler's own steps, the grace timer, the write
deadline, and writes once that has passed; in `Runner`, `TunHelper` and `Updater` the goroutines that clean up, serve,
retry, undo or reset; in `TunSession` the teardown and the helper's answer.

## Proofs

The theorems hold for every value of the constants that satisfies the named assumptions. The long proofs about the
transport have modules of their own (`ShaperProofs`, `SlotGenerationProofs`); the others stand in the module whose run
checks the same property (`MCStreams`, `MCServer`, `MCLifecycle`, and `MCProxy`, which `MCPools` extends) or at the end of the module they are about
(`TunManager`, `ServerUDP`). Every one goes by an inductive invariant, which the bullets name; its steps have one lemma
per action. In a module with several parts a step moves one of them, so the conjunction of their invariants is
inductive because each is, and because each is kept when its variables are.

* **Shaper.** `IInv` is `TypeOK` with four parts: `SeqInv` (the goroutines that hold a ticket hold exactly
  writeNext..writeSeq-1, each its own), `BufInv` and `RecInv` (the records and the buffer tile the accepted frames), and
  `CloseInv` (a Close past its snapshot covers every ticket, and none is handed out after it). `NoRecordDropped` alone
  is not inductive: it needs that a goroutine with a ticket keeps Close waiting. `TypeCorrect`, `Invariance`,
  `NothingDropped` and `Released` (no buffer kept by Close) are unconditional. `InOrder` and `Refinement` assume that no
  record bursts the ceiling: one that does is not written and leaves a gap. `CeilingKept` shows that none does on a
  stream the code opens (`LoneWriter`): one goroutine pushes, one injects cover, and a frame leaves room for all that
  the cover budget can buy. The code's numbers satisfy it: the ceiling is 65517, frames are at most 32771, the budget's
  cap is 16384, a cover frame is 128 to 1500 bytes with a header of 3. What is inductive is that the buffer, the frame
  that is paid for and not yet appended, and the budget together stay within the cap. `BufferKept` and `StreamIsPipe`
  are the invariant and the refinement for such streams, with nothing left to assume.
* **SlotGeneration.** `IInv` is `TypeOK` with `Core`: `RefInv` (what a goroutine remembers exists), `IdInv` (an
  identity is of its own generation and unclaimed), `ClaimInv` (a claimed connection has left the slot and is claimed
  once), `HardInv` (a closed one was judged and its generation is over) and `GenerationsSpent` (each generation the slot
  has left had a connection of its own). `ClaimedOnce` rests on `IdInv`: a second claim would need the identity to
  come back. From it follow the safety invariants of `slot`, for any number of goroutines. The assumption is that the
  sets of goroutines are disjoint.
* **Health, suspend, opening and shutdown** (`MCLifecycle`). `SuspendNoticedHolds` needs that readings of
  two epochs are further apart than the drift (`ReadingsApart`), and that while nothing was reported the baseline is
  still of the first epoch (`NothingMissed`). `ConvictionsEarnedHolds`: the slow probes the loop has counted are at most
  the slow verdicts in a row, whatever connections came and went in between (`HealthInv`). The assumptions are the
  relations between threshold, drift and length of a suspend, and that the counts of cycles are positive.
  `OpeningSoundHolds` has two action properties besides the invariant: a call has one open stream at most, a connection
  that is judged is dead or accused, and what is given out for new attempts was never killed (`OpeningInv`).
  `ShutdownSoundHolds`, for the server: each certificate cache is with Start, in the server or with the Shutdown that
  took it, and a Shutdown that came before Start published is seen by Start (`LifeInv`).
* **Streams** (`MCStreams`). `StreamsSoundHolds`: in the relay every data frame that was read is written, queued or in
  the hands of the reader or the writer, and what ends the queue comes after all of them (`QueueInv`); each direction
  reports once, and a writer that is behind reports an error (`ResultInv`). In the exchange the goroutine of Close has
  the mutex around its FIN, and who takes it later finds `closed` (`ExchangeInv`). A ping's identifier is its own as
  long as there are fewer pings than identifiers (`PingAssumption`; the code has 65536 and starts over, so it is about
  the pings that can still get a reply), and a reply is kept only where it matches (`EchoInv`). `AssociationsOwnedHolds` speaks of the time before Close and after
  it; in between, an association that has been registered is in the table or on Close's list, or its socket is closed
  (`Held`), and a request that has not begun or has returned holds no socket (`Released`). All of it for any number of
  frames, queue places, senders, closers and associations.
* **UDP pool and direct sockets** (`MCProxy`). `ExchangesOwnedHolds` and `DatagramsServedHolds`: an exchange belongs to
  the datagram that opened it until its creation comes back; what is in the map was opened for its key, is not being
  removed by its own loop, and its creator has given up only because the pool was closed; what was taken out of the
  map is on the list of somebody who closes it (`PoolInv`, `SocketInv`). The limits need that the set of entries is
  finite (`FiniteAssumption`: finitely many datagrams under way).
* **Server** (`MCServer`, `ServerUDP`). `SweepForgetsNothingHolds`: an address has the tokens it would have in a map that
  is never swept, now. A sweep is judged by what the address may do later, so what is inductive is that both buckets
  agree at every time from now on (`Agree`), that no bucket was used in the future (`Past`) and that the map is finite
  and within its limit. The assumption is one the code's constants satisfy: the TTL is enough to fill an empty
  bucket. `RequestsSoundHolds`: a header text that was taken is in the cache or was dropped by it (`TextsTaken`), and each
  request's answer, timer and body are where its handler has got to (`RequestOK`). `SessionsSoundHolds`: a session has one current connection and records its route,
  the others are closed or about to be, a query on its way to a connection is on its way to one of its route, and each
  reader reads the connection it was started for and is over when the session is (`UDPInv`). `AnswersOwnHolds`: every page
  that is cached, held or shown is the one page of its path, and the cache keeps its limit (`SiteInv`), and the URL a browser
  follows leads to the host it was rewritten from, unless that host only begins with the site's name (`MirrorInv`).
* **TunManager.** `TunLeavesNothing` speaks of a session that is over. What is inductive is who owes the teardown at every
  moment (`Owed`): before the first one, whatever is up on the machine has its flag in the manager; once it runs,
  whatever is still up is on its list. Around it: Stop and a teardown are one caller's at a time (`OneStop`,
  `OneTeardown`), what Start has done at each of its steps (`StartSteady`), and that a Stop gets past its wait only
  when Start is over or has nothing up and will find itself cancelled (`StopSteady`). It holds for any set of callers;
  the assumption only keeps their names apart from Start's.

Only model-checked:

* liveness, which is out of the prover's reach under fairness; it is stated as "again and again nobody is stuck"
  (`[]<>`), which for a step that cannot be undone is the same as that it ends;
* the pools and the choice of the scheduler (`SlotPoolsSound`, `ChoiceUnderLoad`) and `UpstreamSound`: they rest on what
  a selection from a sequence, a fold or a recursive function returns for every input, which needs induction over
  data;
* the entrances and resolvers of `client`, the parts of `host` but the TUN manager, and the `TypesOK` of these.

## Not modelled

Cryptography, net/http's pool, singleflight, certmagic, the operating system and the resolvers' wire format are external
and modelled by how the code uses them. What is left out of the modelled parts:

* the byte counters that make a stream heavy or a connection full; the reply framing of UDP; the wording of errors,
  notices and log lines;
* `Fallback`: URLs with a port, redirects of a CDN host that have only a path, requests without Host, rewriting of
  cookies and policies, the text of generated pages;
* `TunHelper`: the helper itself being killed (nobody is left to undo its work), a failing restore of the resolvers;
  a shell blocked on a FIFO whose client is gone stays blocked. Windows is not modelled here, nor in `SysProxy`,
  `Singleton` and `TunSession`;
* `TunSession`: the check marks of the tray, the preference a start without privileges resets, the notice that the
  server's domain is ready;
* `ServeRequest`: the dispatch to TCP, UDP and ICMP; the relay of a TCP stream on the server uses the same `relay`
  package as `StreamRelay`;
* parsing of rule files and of the configuration.

Parts without a module, with the reason, are listed in `PROJECT.json` with the status `not_modelled`: they are pure
encodings, text, display and set-up, where no state outlives a call; the stream handle's byte accounting and the latency
limiter, whose only effect on the rest are the choices `Scheduler` and `SlotHealth` leave open; the restart file, which
is written and read in one step each; and utilities.
