----------------------------- MODULE RateLimit -----------------------------
(***************************************************************************)
(* The server's limit on handshakes per source address                     *)
(* (server/handler/ratelimit.go): a token bucket for every address, in a   *)
(* map that is swept of idle entries when it grows and that never passes a *)
(* hard limit.  Time is in ticks; the bucket is that of x/time/rate.       *)
(***************************************************************************)
EXTENDS Naturals, FiniteSets

CONSTANTS
  IPs,                \* source addresses
  handshakeRate,      \* tokens for each tick
  handshakeBurst,     \* tokens of a full bucket
  ipCleanupThreshold, ipCleanupInterval, ipCleanupTTL,
  ipHardCap,
  MaxTime             \* bound

(* The TTL is long enough for an empty bucket to fill up.                  *)
ASSUME RateAssumption ==
  /\ handshakeRate \in Nat /\ handshakeBurst \in Nat /\ ipCleanupTTL \in Nat
  /\ ipCleanupInterval \in Nat /\ ipCleanupThreshold \in Nat /\ ipHardCap \in Nat
  /\ MaxTime \in Nat /\ ipCleanupTTL * handshakeRate >= handshakeBurst

VARIABLES
  now,
  entries,      \* the addresses in the map
  bucket,       \* of an address: tokens when last used, time of the last use, time last seen
  lastCleanup,
  ideal         \* history: the bucket each address would have in a map never swept

rateVars == <<now, entries, bucket, lastCleanup, ideal>>

Bucket == [tokens : 0 .. handshakeBurst, last : 0 .. MaxTime, seen : 0 .. MaxTime]
Full(t) == [tokens |-> handshakeBurst, last |-> t, seen |-> t]

RateTypeOK ==
  /\ now \in 0 .. MaxTime /\ entries \subseteq IPs /\ lastCleanup \in 0 .. MaxTime
  /\ bucket \in [IPs -> Bucket] /\ ideal \in [IPs -> Bucket]

RateInit ==
  /\ now = 0 /\ entries = {} /\ lastCleanup = 0
  /\ bucket = [i \in IPs |-> Full(0)] /\ ideal = bucket

-----------------------------------------------------------------------------
(* x/time/rate: what a bucket holds now, and what a request takes from it. *)
Tokens(b, t) ==
  LET n == b.tokens + (t - b.last) * handshakeRate IN
  IF n < handshakeBurst THEN n ELSE handshakeBurst

AllowN(b, t) ==
  IF Tokens(b, t) >= 1 THEN [tokens |-> Tokens(b, t) - 1, last |-> t, seen |-> t]
                       ELSE [b EXCEPT !.seen = t]

-----------------------------------------------------------------------------
(* Mutant: the sweep uses its own interval.                                *)
cleanupLockedEarly(set) == {i \in set : now - bucket[i].seen <= ipCleanupInterval}

(* What is left after a sweep.                                             *)
cleanupLocked(set) == {i \in set : now - bucket[i].seen <= ipCleanupTTL}

(* Allow: a due sweep, a second one at the hard limit, then the bucket of  *)
(* the address; at the hard limit a new address passes untracked.          *)
Allow(i) ==
  LET due == Cardinality(entries) >= ipCleanupThreshold /\ now - lastCleanup >= ipCleanupInterval
      swept == IF due THEN cleanupLocked(entries) ELSE entries
      capped == i \notin swept /\ Cardinality(swept) >= ipHardCap
      kept == IF capped THEN cleanupLocked(swept) ELSE swept
      open == i \notin kept /\ Cardinality(kept) >= ipHardCap
      b == IF i \in kept THEN bucket[i] ELSE Full(now) IN
  /\ lastCleanup' = IF due \/ capped THEN now ELSE lastCleanup
  /\ entries' = IF open THEN kept ELSE kept \cup {i}
  /\ bucket' = IF open THEN bucket ELSE [bucket EXCEPT ![i] = AllowN(b, now)]
  /\ ideal' = IF open THEN ideal ELSE [ideal EXCEPT ![i] = AllowN(@, now)]
  /\ UNCHANGED now

Tick == now < MaxTime /\ now' = now + 1 /\ UNCHANGED <<entries, bucket, lastCleanup, ideal>>

RateNext == Tick \/ \E i \in IPs : Allow(i)

RateSpec == RateInit /\ [][RateNext]_rateVars

-----------------------------------------------------------------------------
(* Sweeping loses nothing: an address in the map has the tokens it would   *)
(* have in a map never swept, one that is not in the map would have a full *)
(* bucket there; and the map never passes its hard limit.                  *)
SweepForgetsNothing ==
  /\ Cardinality(entries) <= ipHardCap
  /\ \A i \in IPs :
       Tokens(ideal[i], now) = IF i \in entries THEN Tokens(bucket[i], now) ELSE handshakeBurst
=============================================================================
