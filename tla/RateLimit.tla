----------------------------- MODULE RateLimit -----------------------------
(***************************************************************************)
(* The token buckets of src/internal/web/ratelimit.go: one per address,    *)
(* made full at the first request, pruned when idle for five minutes.      *)
(* allow reads the clock before it takes the lock, so the readings of two  *)
(* requests may reach a bucket out of order, up to Lag ticks old: elapsed  *)
(* time can be negative, and so can the balance.                           *)
(*                                                                         *)
(* `level' is a history variable, the reference the buckets stand in for:  *)
(* a leaky bucket that every granted request fills by one and every tick   *)
(* drains by one.  It is the largest excess of requests over elapsed ticks *)
(* of any stretch of time that ends now.                                   *)
(***************************************************************************)
EXTENDS Clock

CONSTANTS Ips,         \* client addresses
          Burst,       \* rps: the tokens a bucket holds and earns in a second
          Lag,         \* how old a clock reading may be when the lock is had
          PruneAfter,  \* five minutes
          NoBucket

ASSUME BurstAssumption == Burst \in Nat \ {0} /\ Lag \in Nat
ASSUME PruneAssumption == PruneAfter \in Nat /\ PruneAfter >= Burst + 2 * Lag
ASSUME NoBucketAssumption == NoBucket \notin [tokens : Int, lastSeen : Int]

VARIABLES
  buckets,  \* rateLimiter.buckets: per address, its bucket
  level     \* history: a reference bucket, filled by admissions and drained by the clock

rateVars == <<buckets, level>>

RateInit == buckets = [ip \in Ips |-> NoBucket] /\ level = [ip \in Ips |-> 0]

\* What time.Now() may have said to the caller that holds the lock at last.
Readings == {t \in (now - Lag)..now : t >= 0}

AtMost(m, n) == IF n > m THEN m ELSE n

Bucket(ip, at) == IF buckets[ip] = NoBucket THEN [tokens |-> Burst, lastSeen |-> at] ELSE buckets[ip]

\* Mutant: the balance is not capped at the burst.
RefilledForever(b, at) == b.tokens + (at - b.lastSeen)

\* The balance after the refill for the time since lastSeen.
Refilled(b, at) == AtMost(Burst, b.tokens + (at - b.lastSeen))

\* allow returns true: a token is taken.
Admit(ip, at) ==
  LET left == Refilled(Bucket(ip, at), at)
  IN /\ left >= 1
     /\ buckets' = [buckets EXCEPT ![ip] = [tokens |-> left - 1, lastSeen |-> at]]
     /\ level' = [level EXCEPT ![ip] = @ + 1]

\* allow returns false; the bucket is brought up to date all the same.
Refuse(ip, at) ==
  LET left == Refilled(Bucket(ip, at), at)
  IN /\ left < 1
     /\ buckets' = [buckets EXCEPT ![ip] = [tokens |-> left, lastSeen |-> at]]
     /\ UNCHANGED level

\* One round of the minute's ticker; a bucket is as good as full when it goes.
Prune ==
  \E at \in Readings :
    /\ buckets' = [ip \in Ips |-> IF buckets[ip] # NoBucket
                                     /\ buckets[ip].lastSeen < at - PruneAfter
                                  THEN NoBucket ELSE buckets[ip]]
    /\ UNCHANGED level

Drained == [ip \in Ips |-> IF level[ip] = 0 THEN 0 ELSE level[ip] - 1]
Drain == level' = Drained /\ UNCHANGED buckets
-----------------------------------------------------------------------------
RateTypeOK ==
  /\ buckets \in [Ips -> [tokens : -Lag..Burst, lastSeen : 0..now] \cup {NoBucket}]
  /\ level \in [Ips -> Nat]

(* No address gets more requests through, in any stretch of time, than the *)
(* burst plus what the stretch earns, give or take the age of a clock      *)
(* reading; pruning a bucket gives nothing away.                           *)
RateBound == \A ip \in Ips : level[ip] <= Burst + Lag
=============================================================================
