------------------------------- MODULE Runner -------------------------------
(***************************************************************************)
(* The client core (runner/runner.go, runner/local_endpoints.go): Run      *)
(* binds the local ports on its own goroutine, builds the servers, hands   *)
(* each listener to a goroutine that serves it, and resolves the server's  *)
(* domain once; a failed attempt is retried in the background.  Any error  *)
(* before the hand-over closes what is open.  Stop, which several callers  *)
(* may call, closes everything in the reverse order; it may come before a  *)
(* serving goroutine has run at all, and in the middle of a retry.         *)
(***************************************************************************)
EXTENDS Naturals, Sequences

CONSTANT Stoppers

Ports == {"socks", "http", "dns"}

VARIABLES enabled,     \* the ports the configuration asks for
          byDomain,    \* the server is configured by a domain name
          run,         \* where Run stands
          eps,         \* localEndpoints: the listeners Run still owns
          bound,       \* the ports that are open
          built,       \* the servers that were constructed
          serve,       \* the goroutine that serves each port
          closing,     \* the servers that were told to close
          cleanup,     \* where cleanup stands
          stop,        \* what each caller of Stop is doing
          client,      \* client.Client: "none", "open" or "closed"
          done,        \* c.done is closed
          ready,       \* c.domainReady is closed
          ips,         \* the server's addresses were given to the client
          retry,       \* the goroutine of retryServerDomain
          retryCancel, \* c.retryCancel is set
          cancelled,   \* the context of the attempt was cancelled
          late         \* attempts begun after done was closed

servers == <<built, serve, closing, bound>>
retrying == <<retry, retryCancel, cancelled, late>>
domainVars == <<ready, ips>>
runnerVars == <<enabled, byDomain, run, eps, cleanup, stop, client, done,
                servers, retrying, domainVars>>

RunnerTypeOK ==
  /\ enabled \subseteq Ports /\ eps \subseteq Ports /\ bound \subseteq Ports
  /\ built \subseteq Ports /\ closing \subseteq Ports
  /\ byDomain \in BOOLEAN /\ done \in BOOLEAN /\ ready \in BOOLEAN
  /\ ips \in BOOLEAN /\ retryCancel \in BOOLEAN /\ cancelled \in BOOLEAN
  /\ run \in {"new", "validate", "bind", "build", "serve", "resolve",
              "failing", "failed", "up"}
  /\ serve \in [Ports -> {"none", "spawned", "registered", "serving",
                      "ended"}]
  /\ cleanup \in {"idle", "cancel", "done", "dns", "http", "socks",
                  "client", "over"}
  /\ stop \in [Stoppers -> {"no", "waits", "returned"}]
  /\ client \in {"none", "open", "closed"}
  /\ retry \in {"none", "wait", "check", "reset", "attempt", "ended"}
  /\ late \in Nat

RunnerInit ==
  /\ enabled \in SUBSET Ports
  /\ byDomain \in BOOLEAN
  /\ run = "new" /\ cleanup = "idle" /\ client = "none"
  /\ eps = {} /\ bound = {} /\ built = {} /\ closing = {}
  /\ serve = [p \in Ports |-> "none"]
  /\ stop = [s \in Stoppers |-> "no"]
  /\ done = FALSE /\ ready = FALSE /\ ips = FALSE
  /\ retry = "none" /\ retryCancel = FALSE /\ cancelled = FALSE /\ late = 0

-----------------------------------------------------------------------------
(* client.New fails before anything is open, or gives the client. *)
NewClient ==
  /\ run = "new"
  /\ \/ run' = "failed" /\ client' = "none"
     \/ run' = "validate" /\ client' = "open"
  /\ UNCHANGED <<enabled, byDomain, eps, cleanup, stop, done, servers,
                 retrying, domainVars>>

(* The HTTP entry dials the SOCKS port, and so does forwarded DNS. *)
validateLocalEndpoints ==
  /\ run = "validate"
  /\ run' = IF enabled \cap {"http", "dns"} # {} /\ "socks" \notin enabled
            THEN "failing" ELSE "bind"
  /\ UNCHANGED <<enabled, byDomain, eps, cleanup, stop, client, done,
                 servers, retrying, domainVars>>

Order == <<"socks", "http", "dns">>

(* Mutant: a port that cannot be bound leaves the earlier ones open. *)
bindLeaks ==
  /\ run = "bind"
  /\ \E n \in 0 .. Len(Order) :
       LET got == {Order[i] : i \in 1 .. n} \cap enabled IN
       /\ n < Len(Order) => Order[n + 1] \in enabled
       /\ run' = IF n = Len(Order) THEN "build" ELSE "failing"
       /\ eps' = IF n = Len(Order) THEN got ELSE {}
       /\ bound' = bound \cup got
  /\ UNCHANGED <<enabled, byDomain, cleanup, stop, client, done, built,
                 serve, closing, retrying, domainVars>>

(* The ports are bound in turn; when one fails (n are done by then),       *)
(* openLocalEndpoints closes the ones before it.                           *)
bind ==
  /\ run = "bind"
  /\ \E n \in 0 .. Len(Order) :
       LET got == IF n = Len(Order) THEN enabled ELSE {} IN
       /\ n < Len(Order) => Order[n + 1] \in enabled
       /\ run' = IF n = Len(Order) THEN "build" ELSE "failing"
       /\ eps' = got
       /\ bound' = bound \cup got
  /\ UNCHANGED <<enabled, byDomain, cleanup, stop, client, done, built,
                 serve, closing, retrying, domainVars>>

(* The servers are only constructed; the SOCKS or the HTTP one may fail.   *)
buildLocalServers ==
  /\ run = "build"
  /\ \/ run' = "serve" /\ built' = eps
     \/ "socks" \in eps /\ run' = "failing" /\ built' = {}
     \/ "http" \in eps /\ run' = "failing" /\ built' = {"socks"}
  /\ UNCHANGED <<enabled, byDomain, eps, cleanup, stop, client, done, serve,
                 closing, bound, retrying, domainVars>>

(* One goroutine per listener; they run when the scheduler lets them. *)
serveLocal ==
  /\ run = "serve"
  /\ serve' = [p \in Ports |-> IF p \in eps THEN "spawned" ELSE serve[p]]
  /\ run' = "resolve"
  /\ UNCHANGED <<enabled, byDomain, eps, cleanup, stop, client, done, built,
                 closing, bound, retrying, domainVars>>

(* resolveServerDomain has nothing to do for an address, or without the    *)
(* SOCKS server's cache.  Otherwise one bounded attempt; its addresses are *)
(* published before the domain is marked ready.  Run then returns.         *)
startDomainResolution ==
  /\ run = "resolve"
  /\ \/ /\ ~(byDomain /\ "socks" \in built)
        /\ ready' = TRUE /\ UNCHANGED <<ips, retry>>
     \/ /\ byDomain /\ "socks" \in built
        /\ \/ ips' = TRUE /\ ready' = TRUE /\ UNCHANGED retry
           \/ retry' = "wait" /\ UNCHANGED domainVars
  /\ run' = "up"
  /\ UNCHANGED <<enabled, byDomain, eps, cleanup, stop, client, done, servers,
                 retryCancel, cancelled, late>>

(* The deferred function of Run after an error: eps.Close, then cleanup.   *)
RunFails ==
  /\ run = "failing"
  /\ bound' = bound \ eps
  /\ eps' = {}
  /\ run' = "failed"
  /\ cleanup' = "cancel"
  /\ UNCHANGED <<enabled, byDomain, stop, client, done, built, serve, closing,
                 retrying, domainVars>>

-----------------------------------------------------------------------------
(* Mutant: a Serve that comes after Close serves all the same. *)
ServeOnLate(p, next) ==
  /\ serve[p] = "spawned"
  /\ serve' = [serve EXCEPT ![p] = next]
  /\ UNCHANGED <<enabled, byDomain, run, eps, cleanup, stop, client, done,
                 built, closing, bound, retrying, domainVars>>

(* What the three Serve methods begin with: under the mutex, a server that *)
(* was closed before closes the listener it is handed and returns;         *)
(* otherwise the listener is registered.                                   *)
ServeOn(p, next) ==
  /\ serve[p] = "spawned"
  /\ IF p \in closing
       THEN /\ serve' = [serve EXCEPT ![p] = "ended"]
            /\ bound' = bound \ {p}
       ELSE /\ serve' = [serve EXCEPT ![p] = next]
            /\ UNCHANGED bound
  /\ UNCHANGED <<enabled, byDomain, run, eps, cleanup, stop, client, done,
                 built, closing, retrying, domainVars>>

Socks5Serve == ServeOn("socks", "serving")

ForwardServe == ServeOn("dns", "serving")

HTTPServe == ServeOn("http", "registered")

(* http.Server.Serve tracks its listener, or closes it when Shutdown came  *)
(* after the registration and before this.                                 *)
TrackListener ==
  /\ serve["http"] = "registered"
  /\ serve' = [serve EXCEPT !["http"] = IF "http" \in closing THEN "ended"
                                        ELSE "serving"]
  /\ bound' = IF "http" \in closing THEN bound \ {"http"} ELSE bound
  /\ UNCHANGED <<enabled, byDomain, run, eps, cleanup, stop, client, done,
                 built, closing, retrying, domainVars>>

(* A listener that was closed under it makes the accept loop return. *)
ServeEnds(p) ==
  /\ serve[p] = "serving"
  /\ p \notin bound
  /\ serve' = [serve EXCEPT ![p] = "ended"]
  /\ UNCHANGED <<enabled, byDomain, run, eps, cleanup, stop, client, done,
                 built, closing, bound, retrying, domainVars>>

-----------------------------------------------------------------------------
(* Stop: the first caller cleans up, the others wait for it (sync.Once). *)
Stop(s) ==
  /\ run = "up"
  /\ stop[s] = "no"
  /\ stop' = [stop EXCEPT ![s] = "waits"]
  /\ cleanup' = IF cleanup = "idle" THEN "cancel" ELSE cleanup
  /\ UNCHANGED <<enabled, byDomain, run, eps, client, done, servers, retrying,
                 domainVars>>

StopReturns(s) ==
  /\ stop[s] = "waits"
  /\ cleanup = "over"
  /\ stop' = [stop EXCEPT ![s] = "returned"]
  /\ UNCHANGED <<enabled, byDomain, run, eps, cleanup, client, done, servers,
                 retrying, domainVars>>

(* The attempt in progress, if it has registered its cancel function. *)
cancelRetry ==
  /\ cleanup = "cancel"
  /\ cancelled' = (cancelled \/ retryCancel)
  /\ retryCancel' = FALSE
  /\ cleanup' = "done"
  /\ UNCHANGED <<enabled, byDomain, run, eps, stop, client, done, servers,
                 retry, late, domainVars>>

closeDone ==
  /\ cleanup = "done"
  /\ done' = TRUE
  /\ cleanup' = "dns"
  /\ UNCHANGED <<enabled, byDomain, run, eps, stop, client, servers, retrying,
                 domainVars>>

(* A server that was built is marked closed, and the listener it is        *)
(* serving is closed.                                                      *)
CloseServer(p, next) ==
  /\ cleanup = p
  /\ closing' = closing \cup ({p} \cap built)
  /\ bound' = IF serve[p] = "serving" THEN bound \ {p} ELSE bound
  /\ cleanup' = next
  /\ UNCHANGED <<enabled, byDomain, run, eps, stop, client, done, built, serve,
                 retrying, domainVars>>

(* The socket is closed whether or not the library had started to serve. *)
ForwardShutdown == CloseServer("dns", "http")

HTTPClose == CloseServer("http", "socks")

Socks5Close == CloseServer("socks", "client")

CloseClient ==
  /\ cleanup = "client"
  /\ client' = "closed"
  /\ cleanup' = "over"
  /\ UNCHANGED <<enabled, byDomain, run, eps, stop, done, servers, retrying,
                 domainVars>>

(* cleanup, in its order. *)
cleanupStep ==
  cancelRetry \/ closeDone \/ ForwardShutdown \/ HTTPClose \/ Socks5Close
  \/ CloseClient

-----------------------------------------------------------------------------
(* The select of the loop: the delay is over, or the core has stopped (any *)
(* of the two when both are).                                              *)
RetryWait ==
  /\ retry = "wait"
  /\ \/ retry' = "check"
     \/ done /\ retry' = "ended"
  /\ UNCHANGED <<enabled, byDomain, run, eps, cleanup, stop, client, done,
                 servers, retryCancel, cancelled, late, domainVars>>

(* Mutant: only the select looks whether the core has stopped. *)
RetryCheckNothing ==
  /\ retry = "check"
  /\ retry' = "reset"
  /\ UNCHANGED <<enabled, byDomain, run, eps, cleanup, stop, client, done,
                 servers, retryCancel, cancelled, late, domainVars>>

(* stopped() is asked again before an attempt. *)
RetryCheck ==
  /\ retry = "check"
  /\ retry' = IF done THEN "ended" ELSE "reset"
  /\ UNCHANGED <<enabled, byDomain, run, eps, cleanup, stop, client, done,
                 servers, retryCancel, cancelled, late, domainVars>>

(* The resolver state is reset and the cancel function registered.  The    *)
(* core may have stopped since it was asked: such an attempt is not        *)
(* cancelled by anyone and lasts until its own timeout.                    *)
setRetryCancel ==
  /\ retry = "reset"
  /\ retry' = "attempt"
  /\ retryCancel' = TRUE
  /\ cancelled' = FALSE
  /\ late' = IF done THEN late + 1 ELSE late
  /\ UNCHANGED <<enabled, byDomain, run, eps, cleanup, stop, client, done,
                 servers, domainVars>>

(* Mutant: the domain is marked ready and the addresses are not      *)
(* given to the client.                                                    *)
AttemptEndsBare ==
  /\ retry = "attempt"
  /\ retryCancel' = FALSE
  /\ \/ ~cancelled /\ ready' = TRUE /\ retry' = "ended" /\ UNCHANGED ips
     \/ retry' = "wait" /\ UNCHANGED domainVars
  /\ UNCHANGED <<enabled, byDomain, run, eps, cleanup, stop, client, done,
                 servers, cancelled, late>>

(* prePopulate returns: with addresses, or with an error (a timeout, a     *)
(* failure, the cancellation).  The loop goes on after an error.           *)
AttemptEnds ==
  /\ retry = "attempt"
  /\ retryCancel' = FALSE
  /\ \/ ~cancelled /\ ips' = TRUE /\ ready' = TRUE /\ retry' = "ended"
     \/ retry' = "wait" /\ UNCHANGED domainVars
  /\ UNCHANGED <<enabled, byDomain, run, eps, cleanup, stop, client, done,
                 servers, cancelled, late>>

retryServerDomain == RetryWait \/ RetryCheck \/ setRetryCancel \/ AttemptEnds

-----------------------------------------------------------------------------
RunStep == NewClient \/ validateLocalEndpoints \/ bind \/ buildLocalServers
           \/ serveLocal \/ startDomainResolution \/ RunFails

RunnerNext ==
  \/ RunStep
  \/ Socks5Serve \/ HTTPServe \/ ForwardServe \/ TrackListener
  \/ \E p \in Ports : ServeEnds(p)
  \/ \E s \in Stoppers : Stop(s) \/ StopReturns(s)
  \/ cleanupStep
  \/ retryServerDomain

(* Goroutines that can run do, and every attempt has a timeout. *)
RunnerFairness ==
  /\ WF_runnerVars(cleanupStep)
  /\ WF_runnerVars(retryServerDomain)
  /\ WF_runnerVars(Socks5Serve)
  /\ WF_runnerVars(HTTPServe \/ TrackListener)
  /\ WF_runnerVars(ForwardServe)

RunnerSpec == RunnerInit /\ [][RunnerNext]_runnerVars /\ RunnerFairness

-----------------------------------------------------------------------------
(* A Run that failed has left no port open, and after Stop has returned a  *)
(* port is open only where its goroutine is still to find out.             *)
NoPortLeft ==
  /\ run = "failed" => bound = {}
  /\ cleanup = "over" => \A p \in bound : serve[p] \in {"spawned", "registered"}

(* The transport every entry borrows is closed last, and the SOCKS server  *)
(* after the entries that dial it.                                         *)
ClosedInOrder ==
  /\ client = "closed" => built \subseteq closing
  /\ "socks" \in closing => built \subseteq closing

(* The domain is announced as resolved only after the client has its       *)
(* addresses (TUN is started on that announcement).                        *)
ReadyHasAddresses == ready /\ byDomain /\ "socks" \in built => ips

(* After the core has stopped the retry goroutine begins at most the one   *)
(* attempt that had passed its check.                                      *)
OneLateAttempt == late <= 1

(* What holds in every state of a core. *)
CoreSound ==
  NoPortLeft /\ ClosedInOrder /\ ReadyHasAddresses /\ OneLateAttempt

(* After Stop every port is free and the retry goroutine has ended, also   *)
(* when Stop came before a goroutine had run or inside the window at       *)
(* runner.go:373.                                                          *)
CoreOver == cleanup = "over" => bound = {} /\ retry \in {"none", "ended"}
CoreEnds == []<>CoreOver
=============================================================================
