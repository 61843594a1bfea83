----------------------------- MODULE PreResolve -----------------------------
(***************************************************************************)
(* Resolving the proxy server's domain before the client starts            *)
(* (PrePopulateWithFallback of client/dns/cache.go): the built-in resolvers*)
(* in turn, then the system's, within one time budget.  Every resolver has *)
(* its own limit and the system's resolvers a reserve, so that a resolver  *)
(* that never answers cannot eat the chance of the others.  Resolvers that *)
(* answered are remembered: TUN mode writes one of them into the system's  *)
(* configuration (client/dns/preferred.go).                                *)
(***************************************************************************)
EXTENDS Naturals, Sequences, SequencesExt

CONSTANTS Builtins, Systems,     \* the resolvers, in the order they are tried
          V4, Loopback,          \* those with an IPv4 address, those on this host
          PreResolveTimeout, ResolveItemTimeout,
          MaxRuns                \* bound: resolutions of one session

VARIABLES pc, runs, left,        \* one resolution: its step, the time left
          visible, fresh,        \* the list of the system's resolvers, and that it is held
          spent,                 \* what the discovery of that list took (history)
          tried,                 \* resolvers tried, with the time each could use (history)
          next,                  \* the next one of the list in hand
          armed,                 \* the breaker of the built-in resolvers
          reachableBuiltinDNS, reachableSystemDNS,
          answered               \* resolvers that answered since the last reset (history)

reachable == <<reachableBuiltinDNS, reachableSystemDNS>>
systemList == <<visible, fresh, spent>>
preVars == <<pc, runs, left, systemList, tried, next, armed, reachable, answered>>

Servers == ToSet(Builtins) \cup ToSet(Systems)
DefaultSystemDNS == "default"
Smaller(a, b) == IF a < b THEN a ELSE b

PreTypeOK ==
  /\ pc \in {"idle", "builtin", "retry", "fallback", "system"} /\ runs \in 0 .. MaxRuns
  /\ left \in 0 .. PreResolveTimeout /\ visible \in {<<>>, Systems}
  /\ fresh \in BOOLEAN /\ spent \in 0 .. PreResolveTimeout
  /\ \A s \in DOMAIN tried : s \in Servers /\ tried[s] \in 0 .. ResolveItemTimeout
  /\ next \in 1 .. Len(Builtins) + Len(Systems) + 1 /\ armed \in BOOLEAN
  /\ ToSet(reachableBuiltinDNS) \subseteq ToSet(Builtins)
  /\ ToSet(reachableSystemDNS) \subseteq ToSet(Systems)
  /\ answered \subseteq Servers

PreInit ==
  /\ pc = "idle" /\ runs = 0 /\ left = PreResolveTimeout
  /\ visible = <<>> /\ fresh = FALSE /\ spent = 0
  /\ tried = <<>> /\ next = 1 /\ armed = FALSE
  /\ reachableBuiltinDNS = <<>> /\ reachableSystemDNS = <<>> /\ answered = {}

-----------------------------------------------------------------------------
(* loadSystem: a list that is not held is asked of the operating system,   *)
(* whose commands have no limit of their own and use the budget's time.    *)
loadSystem(budget) ==
  IF fresh THEN left' = budget /\ spent' = 0 /\ UNCHANGED <<visible, fresh>>
  ELSE /\ fresh' = TRUE /\ visible' \in {<<>>, Systems}
       /\ spent' \in 0 .. budget /\ left' = budget - spent'

(* BuiltinRouteFor: with the breaker armed the built-in resolvers are      *)
(* skipped, unless there is nothing else.                                  *)
PrePopulateWithFallback ==
  /\ pc = "idle" /\ runs < MaxRuns
  /\ runs' = runs + 1
  /\ next' = 1 /\ tried' = <<>>
  /\ \/ ~armed /\ pc' = "builtin" /\ left' = PreResolveTimeout /\ spent' = 0 /\ UNCHANGED <<visible, fresh>>
     \/ armed /\ loadSystem(PreResolveTimeout) /\ pc' = IF visible' # <<>> THEN "system" ELSE "retry"
  /\ UNCHANGED <<armed, reachable, answered>>

(* WithSystemDNSFallbackReserve: what the built-in resolvers may use; a    *)
(* budget that is no larger than the reserve is not divided.               *)
WithSystemDNSFallbackReserve ==
  IF PreResolveTimeout <= ResolveItemTimeout THEN left
  ELSE IF left > ResolveItemTimeout THEN left - ResolveItemTimeout ELSE 0

(* Mutant: a resolver may use all the time there is. *)
itemTimeoutNone(budget) == budget

(* PrePopulate: the limit of one resolver. *)
itemTimeout(budget) == Smaller(budget, ResolveItemTimeout)

Try(s, budget) ==
  /\ tried' = [x \in DOMAIN tried \cup {s} |-> IF x = s THEN Smaller(itemTimeout(budget), ResolveItemTimeout) ELSE tried[x]]
  /\ next' = next + 1

(* The resolver refuses at once, or is silent until its time is over. *)
Fails(budget) == left' \in {left, left - itemTimeout(budget)}

Answers(s) ==
  /\ answered' = answered \cup {s}
  /\ UNCHANGED left

MarkReachable(list, s) == IF s \in ToSet(list) THEN list ELSE Append(list, s)

(* tryAll over the built-in resolvers; one that answers is noted and       *)
(* disarms the breaker.                                                    *)
TryBuiltin ==
  /\ pc \in {"builtin", "retry"}
  /\ next <= Len(Builtins) /\ WithSystemDNSFallbackReserve > 0
  /\ LET s == Builtins[next] IN
     /\ Try(s, WithSystemDNSFallbackReserve)
     /\ \/ /\ Fails(WithSystemDNSFallbackReserve)
           /\ UNCHANGED <<pc, armed, reachable, answered>>
        \/ /\ Answers(s)
           /\ reachableBuiltinDNS' = MarkReachable(reachableBuiltinDNS, s)
           /\ armed' = FALSE /\ pc' = "idle"
           /\ UNCHANGED reachableSystemDNS
  /\ UNCHANGED <<runs, systemList>>

(* None answered, or the time is over: the breaker is armed only if there  *)
(* are system resolvers.                                                   *)
BuiltinFailed ==
  /\ pc \in {"builtin", "retry"}
  /\ next > Len(Builtins) \/ WithSystemDNSFallbackReserve = 0
  /\ \/ pc = "builtin" /\ pc' = "fallback" /\ loadSystem(left) /\ armed' = (visible' # <<>>)
     \/ pc = "retry" /\ pc' = "idle" /\ UNCHANGED <<armed, left, systemList>>
  /\ UNCHANGED <<runs, tried, next, reachable, answered>>

Fallback ==
  /\ pc = "fallback"
  /\ pc' = "system" /\ next' = 1
  /\ UNCHANGED <<runs, left, systemList, tried, armed, reachable, answered>>

TrySystem ==
  /\ pc = "system"
  /\ IF next > Len(visible) \/ left = 0
       THEN pc' = "idle" /\ UNCHANGED <<left, tried, next, reachable, answered>>
       ELSE LET s == visible[next] IN
            /\ Try(s, left)
            /\ \/ Fails(left) /\ UNCHANGED <<pc, reachable, answered>>
               \/ /\ Answers(s) /\ pc' = "idle"
                  /\ reachableSystemDNS' = MarkReachable(reachableSystemDNS, s)
                  /\ UNCHANGED reachableBuiltinDNS
  /\ UNCHANGED <<runs, systemList, armed>>

(* Mutant: the resolvers that answered are remembered over a reset. *)
ResetResolveStateKeeps ==
  /\ pc = "idle"
  /\ armed' = FALSE /\ answered' = {}
  /\ visible' = <<>> /\ fresh' = FALSE
  /\ UNCHANGED <<pc, runs, left, spent, tried, next, reachable>>

(* ResetResolveState, when the client is started again: the breaker, the   *)
(* list of the system's resolvers and the memory of those that answered    *)
(* are dropped.                                                            *)
ResetResolveState ==
  /\ pc = "idle"
  /\ armed' = FALSE /\ answered' = {}
  /\ reachableBuiltinDNS' = <<>> /\ reachableSystemDNS' = <<>>
  /\ visible' = <<>> /\ fresh' = FALSE
  /\ UNCHANGED <<pc, runs, left, spent, tried, next>>

(* Between two resolutions the breaker's cool-down may end, and the list   *)
(* may grow too old.                                                       *)
CoolDownOver ==
  /\ pc = "idle" /\ armed /\ armed' = FALSE
  /\ UNCHANGED <<pc, runs, left, systemList, tried, next, reachable, answered>>

ListExpires ==
  /\ pc = "idle" /\ fresh /\ fresh' = FALSE /\ visible' = <<>>
  /\ UNCHANGED <<pc, runs, left, spent, tried, next, armed, reachable, answered>>

PreNext ==
  \/ PrePopulateWithFallback \/ TryBuiltin \/ BuiltinFailed \/ Fallback \/ TrySystem
  \/ ResetResolveState \/ CoolDownOver \/ ListExpires

PreSpec == PreInit /\ [][PreNext]_preVars

-----------------------------------------------------------------------------
(* Mutant: a resolver on this host may be written back. *)
systemDNSHostAny(s) == s \in V4

(* systemDNSHost: IPv4, and not on this host. *)
systemDNSHost(s) == s \in V4 \ Loopback

(* PreferredSystemDNS: the first built-in resolver that answered, the      *)
(* first system resolver that did, or the default.                         *)
PreferredSystemDNS ==
  LET builtin == SelectSeq(reachableBuiltinDNS, LAMBDA s : s \in V4)
      system == SelectSeq(reachableSystemDNS, systemDNSHost)
  IN IF builtin # <<>> THEN Head(builtin)
     ELSE IF system # <<>> THEN Head(system) ELSE DefaultSystemDNS

(* The resolver TUN mode writes into the system has answered since the     *)
(* last reset, has an IPv4 address and is no stub on this host that would  *)
(* ask itself; without one it is the default.                              *)
PreferredAnswers ==
  \/ PreferredSystemDNS = DefaultSystemDNS
  \/ /\ PreferredSystemDNS \in answered \cap V4
     /\ PreferredSystemDNS \in Loopback => PreferredSystemDNS \in ToSet(Builtins)

(* However silent the other resolvers are, each built-in one had a full    *)
(* share before the system's are asked, and the first of those has one     *)
(* too (timeouts.go: "6 项 × 2s 之外余 2s 给系统兜底"), less what finding     *)
(* out about the system's resolvers took: nothing else eats the reserve.   *)
EveryoneHasATurn ==
  /\ pc = "fallback" =>
       \A s \in ToSet(Builtins) : s \in DOMAIN tried /\ tried[s] = ResolveItemTimeout
  /\ pc = "system" /\ next = 1 => left + spent >= ResolveItemTimeout

(* What starting the client relies on. *)
PreResolveSound == PreferredAnswers /\ EveryoneHasATurn
=============================================================================
